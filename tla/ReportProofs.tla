----------------------------- MODULE ReportProofs -----------------------------
(***************************************************************************)
(* What the user is told is true, for every choice of the constants: the   *)
(* messages of a report, and the answers to /stats, computed and kept, in  *)
(* whatever order reports arrive.                                          *)
(***************************************************************************)
EXTENDS PricingReports, StatsReplies, PricingProofs

StockKeys(a) == a.kind \in {"back_in_stock", "out_of_stock"}

\* The payloads that DecideAlerts keeps, by kind.
DecidedOf(target, previous, low, new, payloads) ==
    {a \in payloads : a.dedup_key \in DecideAlerts(target, previous, low, new)}

\* What a decided alert says of the history and of the reading.
StockSaid(previous, new, a) ==
    /\ a.kind = (IF new.inStock THEN "back_in_stock" ELSE "out_of_stock")
    /\ a = Alert(a.dedup_key, new.price, {q.price : q \in previous}, {}, {})
    /\ \E q \in previous : q.inStock # new.inStock
DropSaid(target, previous, new, a) ==
    \E t \in target : \E p \in PriceIn(new, t.currency) :
        /\ a = Alert(PriceKey("price_drop", p), p, PreviousPriceIn(previous, t.currency), {t},
                     OriginalPrice(new.price, p))
        /\ p.amount <= t.amount
        /\ \A q \in previous : ~AtOrBelow(q, t)
LowSaid(allTimeMin, new, a) ==
    \E low \in allTimeMin :
        /\ a = Alert(PriceKey("all_time_low", new.price), new.price, {low}, {}, {})
        /\ low.currency = new.price.currency /\ new.price.amount < low.amount

\* One payload of a kind at most, whose key is of that kind.
LEMMA StockDecidedOnce ==
    ASSUME NEW target, NEW previous, NEW low, NEW new
    PROVE  LET A == DecidedOf(target, previous, low, new, StockPayloads(previous, new))
           IN  /\ \A a, b \in A : a = b
               /\ \A a \in A : StockSaid(previous, new, a) /\ a.dedup_key.kind = a.kind
               /\ \A k \in StockAlerts(previous, new) : \E a \in A : a.dedup_key = k
<1> DEFINE A == DecidedOf(target, previous, low, new, StockPayloads(previous, new))
           key == PlainKey(IF new.inStock THEN "back_in_stock" ELSE "out_of_stock", new.at)
           pay == Alert(key, new.price, {q.price : q \in previous}, {}, {})
<1>1. \A k \in StockAlerts(previous, new) : k = key /\ \E q \in previous : q.inStock # new.inStock
  BY DEF StockAlerts
<1>2. \A a \in A : a = pay /\ \E q \in previous : q.inStock # new.inStock
  BY <1>1 DEF DecidedOf, StockPayloads
<1>3. pay.dedup_key = key /\ pay.kind = key.kind
  BY DEF Alert
<1>4. key.kind = IF new.inStock THEN "back_in_stock" ELSE "out_of_stock"
  BY DEF PlainKey
<1>5. \A k \in StockAlerts(previous, new) : pay \in A
  BY <1>1, <1>3 DEF DecidedOf, StockPayloads, DecideAlerts
<1> HIDE DEF A, key
<1> QED
  BY <1>1, <1>2, <1>3, <1>4, <1>5 DEF StockSaid, A

\* At most one drop is decided of a reading,
LEMMA DropDecidedOnce ==
    ASSUME NEW target \in Option(Money), NEW previous, NEW low, NEW new \in Snapshot
    PROVE  LET A == DecidedOf(target, previous, low, new, DropPayloads(target, previous, new))
           IN  /\ \A a, b \in A : a = b
               /\ \A a \in A : /\ DropSaid(target, previous, new, a) /\ new.inStock
                               /\ a.kind = "price_drop" /\ a.dedup_key.kind = "price_drop"
               /\ new.inStock => \A k \in DropAlerts(target, previous, new) :
                                    \E a \in A : a.dedup_key = k
<1> DEFINE A == DecidedOf(target, previous, low, new, DropPayloads(target, previous, new))
           pay(t, p) == Alert(PriceKey("price_drop", p), p, PreviousPriceIn(previous, t.currency),
                              {t}, OriginalPrice(new.price, p))
<1>1. /\ \A t, u \in target : t = u
      /\ \A c : \A p, q \in PriceIn(new, c) : p = q
  BY DEF Option, PriceIn, Snapshot
<1>2. \A t, p : /\ pay(t, p).kind = "price_drop"
                /\ pay(t, p).dedup_key = PriceKey("price_drop", p)
                /\ pay(t, p).dedup_key.kind = "price_drop"
  BY DEF Alert, PriceKey
<1>3. \A a \in A : \E t \in target : \E p \in PriceIn(new, t.currency) : a = pay(t, p)
  BY DEF DecidedOf, DropPayloads
<1>4. ASSUME NEW t \in target, NEW p \in PriceIn(new, t.currency),
             PriceKey("price_drop", p) \in DecideAlerts(target, previous, low, new)
      PROVE  /\ new.inStock
             /\ p.amount <= t.amount
             /\ \A q \in previous : ~AtOrBelow(q, t)
  <2>1. PriceKey("price_drop", p).kind = "price_drop"
    BY DEF PriceKey
  <2>2. \A k \in StockAlerts(previous, new) : k.kind # "price_drop"
    BY DEF StockAlerts, PlainKey
  <2>3. \A k \in LowAlerts(low, new) : k.kind # "price_drop"
    BY DEF LowAlerts, PriceKey
  <2>4. new.inStock /\ PriceKey("price_drop", p) \in DropAlerts(target, previous, new)
    BY <1>4, <2>1, <2>2, <2>3 DEF DecideAlerts
  <2>5. PICK u \in target : \E r \in PriceIn(new, u.currency) :
            r.amount <= u.amount /\ \A q \in previous : ~AtOrBelow(q, u)
    BY <2>4 DEF DropAlerts
  <2> QED
    BY <1>1, <2>4, <2>5
<1>5. \A a \in A : a.dedup_key \in DecideAlerts(target, previous, low, new)
  BY DEF DecidedOf
<1>6. ASSUME new.inStock, NEW k \in DropAlerts(target, previous, new)
      PROVE  \E a \in A : a.dedup_key = k
  <2>1. PICK t \in target : \E p \in PriceIn(new, t.currency) : k = PriceKey("price_drop", p)
    BY <1>6 DEF DropAlerts
  <2>2. PICK p \in PriceIn(new, t.currency) : k = PriceKey("price_drop", p)
    BY <2>1
  <2>3. pay(t, p) \in DropPayloads(target, previous, new)
    BY DEF DropPayloads
  <2>4. pay(t, p) \in A
    BY <1>2, <1>6, <2>2, <2>3 DEF DecidedOf, DecideAlerts
  <2> QED
    BY <1>2, <2>2, <2>4
<1> HIDE DEF A, pay
<1>7. ASSUME NEW a \in A
      PROVE  /\ DropSaid(target, previous, new, a) /\ new.inStock
             /\ a.kind = "price_drop" /\ a.dedup_key.kind = "price_drop"
  <2>1. PICK t \in target : \E p \in PriceIn(new, t.currency) : a = pay(t, p)
    BY <1>3, Zenon
  <2>2. PICK p \in PriceIn(new, t.currency) : a = pay(t, p)
    BY <2>1, Zenon
  <2>3. PriceKey("price_drop", p) \in DecideAlerts(target, previous, low, new)
    BY <1>2, <1>5, <2>2
  <2>4. new.inStock /\ p.amount <= t.amount /\ \A q \in previous : ~AtOrBelow(q, t)
    BY <1>4, <2>3
  <2>5. DropSaid(target, previous, new, a)
    BY <2>2, <2>4 DEF DropSaid, pay
  <2> QED
    BY <1>2, <2>2, <2>4, <2>5
<1>8. ASSUME NEW a \in A, NEW b \in A PROVE a = b
  <2>1. PICK t \in target : \E p \in PriceIn(new, t.currency) : a = pay(t, p)
    BY <1>3, Zenon
  <2>2. PICK p \in PriceIn(new, t.currency) : a = pay(t, p)
    BY <2>1, Zenon
  <2>3. PICK u \in target : \E r \in PriceIn(new, u.currency) : b = pay(u, r)
    BY <1>3, Zenon
  <2>4. PICK r \in PriceIn(new, u.currency) : b = pay(u, r)
    BY <2>3, Zenon
  <2>5. u = t
    BY <1>1
  <2>6. r = p
    BY <1>1, <2>5
  <2> QED
    BY <2>2, <2>4, <2>5, <2>6
<1>9. /\ \A a, b \in A : a = b
      /\ \A a \in A : /\ DropSaid(target, previous, new, a) /\ new.inStock
                      /\ a.kind = "price_drop" /\ a.dedup_key.kind = "price_drop"
      /\ new.inStock => \A k \in DropAlerts(target, previous, new) :
                           \E a \in A : a.dedup_key = k
  BY <1>6, <1>7, <1>8
<1> QED
  BY <1>9, Zenon DEF A

\* at most one low,
LEMMA LowDecidedOnce ==
    ASSUME NEW target, NEW previous, NEW low, \A x, y \in low : x = y, NEW new
    PROVE  LET A == DecidedOf(target, previous, low, new, LowPayloads(low, new))
           IN  /\ \A a, b \in A : a = b
               /\ \A a \in A : /\ LowSaid(low, new, a) /\ new.inStock
                               /\ a.kind = "all_time_low" /\ a.dedup_key.kind = "all_time_low"
               /\ new.inStock => \A k \in LowAlerts(low, new) : \E a \in A : a.dedup_key = k
<1> DEFINE A == DecidedOf(target, previous, low, new, LowPayloads(low, new))
           key == PriceKey("all_time_low", new.price)
           pay(m) == Alert(key, new.price, {m}, {}, {})
<1>1. key.kind = "all_time_low" /\ \A m : pay(m).kind = "all_time_low" /\ pay(m).dedup_key = key
  BY DEF Alert, PriceKey
<1>2. \A a \in A : \E m \in low : a = pay(m)
  BY DEF DecidedOf, LowPayloads
<1>3. ASSUME key \in DecideAlerts(target, previous, low, new)
      PROVE  new.inStock /\ \A m \in low : m.currency = new.price.currency /\ new.price.amount < m.amount
  <2>1. \A k \in StockAlerts(previous, new) : k.kind # "all_time_low"
    BY DEF StockAlerts, PlainKey
  <2>2. \A k \in DropAlerts(target, previous, new) : k.kind # "all_time_low"
    BY DEF DropAlerts, PriceKey
  <2>3. new.inStock /\ key \in LowAlerts(low, new)
    BY <1>1, <1>3, <2>1, <2>2 DEF DecideAlerts
  <2> QED
    BY <2>3 DEF LowAlerts
<1>4. \A a \in A : a.dedup_key \in DecideAlerts(target, previous, low, new)
  BY DEF DecidedOf
<1>5. ASSUME new.inStock, NEW k \in LowAlerts(low, new)
      PROVE  \E a \in A : a.dedup_key = k
  <2>1. PICK m \in low : k = key
    BY DEF LowAlerts
  <2>2. pay(m) \in A
    BY <1>1, <1>5, <2>1 DEF DecidedOf, DecideAlerts, LowPayloads
  <2> QED
    BY <1>1, <2>1, <2>2
<1> HIDE DEF A, key
<1>6. \A a \in A : LowSaid(low, new, a) /\ new.inStock
  BY <1>1, <1>2, <1>3, <1>4 DEF LowSaid, key
<1>7. \A a, b \in A : a = b
  BY <1>2
<1>8. /\ \A a, b \in A : a = b
      /\ \A a \in A : /\ LowSaid(low, new, a) /\ new.inStock
                      /\ a.kind = "all_time_low" /\ a.dedup_key.kind = "all_time_low"
      /\ new.inStock => \A k \in LowAlerts(low, new) : \E a \in A : a.dedup_key = k
  <2>1. \A a \in A : a.kind = "all_time_low" /\ a.dedup_key.kind = "all_time_low"
    BY <1>1, <1>2
  <2> QED
    BY <1>5, <1>6, <1>7, <2>1
<1> QED
  BY <1>8, Zenon DEF A

-----------------------------------------------------------------------------
\* Sequences of alerts.

\* The elements of three sets, each once, and none of the first but at the front.
Placed(s, A, B, C) ==
    /\ s \in Seq(A \cup B \cup C)
    /\ \A n, m \in 1 .. Len(s) : s[n] = s[m] => n = m
    /\ \A n \in 1 .. Len(s) : n > 1 => s[n] \notin A
    /\ \A x \in A \cup B \cup C : \E n \in 1 .. Len(s) : s[n] = x

\* Three sets of at most one element each, one after the other.
LEMMA ThreeOptions ==
    ASSUME NEW A, \A x, y \in A : x = y, NEW B, \A x, y \in B : x = y,
           NEW C, \A x, y \in C : x = y,
           A \cap B = {}, A \cap C = {}, B \cap C = {}
    PROVE  Placed(SetToSeq(A) \o SetToSeq(B) \o SetToSeq(C), A, B, C)
<1>1. ASSUME NEW X, NEW Y, \A x, y \in Y : x = y, NEW t \in Seq(X)
      PROVE  /\ Y = {} => t \o SetToSeq(Y) = t
             /\ \A y \in Y : t \o SetToSeq(Y) = Append(t, y)
  <2>1. /\ SetToSeq(Y) = <<>> <=> Y = {}
        /\ \A y \in Y : SetToSeq(Y) = <<y>>
    BY <1>1, SeqOfOption
  <2>2. t \o <<>> = t /\ \A y : t \o <<y>> = Append(t, y)
    OBVIOUS
  <2> QED
    BY <2>1, <2>2
<1> DEFINE a == SetToSeq(A)
           b == a \o SetToSeq(B)
           c == b \o SetToSeq(C)
<1>2. /\ a = <<>> <=> A = {}
      /\ \A x \in A : a = <<x>>
  BY SeqOfOption
<1>3. a \in Seq(A)
  <2> HIDE DEF a
  <2>1. CASE A = {}
    BY <1>2, <2>1
  <2>2. CASE A # {}
    <3>1. PICK x \in A : a = <<x>>
      BY <1>2, <2>2
    <3> QED
      BY <3>1
  <2> QED
    BY <2>1, <2>2
<1> HIDE DEF a
<1>4. /\ B = {} => b = a
      /\ \A y \in B : b = Append(a, y)
  BY <1>1, <1>3
<1>5. b \in Seq(A \cup B)
  <2> HIDE DEF b
  <2>1. a \in Seq(A \cup B)
    BY <1>3
  <2>2. CASE B = {}
    BY <1>4, <2>1, <2>2
  <2>3. CASE B # {}
    <3>1. PICK y \in B : b = Append(a, y)
      BY <1>4, <2>3
    <3> QED
      BY <2>1, <3>1
  <2> QED
    BY <2>2, <2>3
<1> HIDE DEF b
<1>6. /\ C = {} => c = b
      /\ \A z \in C : c = Append(b, z)
  BY <1>1, <1>5
<1> HIDE DEF c
<1>7. Placed(c, A, B, C)
  <2>1. c \in Seq(A \cup B \cup C)
    BY <1>5, <1>6
  <2>2. /\ A = {} => Len(a) = 0
        /\ A # {} => Len(a) = 1 /\ a[1] \in A
        /\ B = {} => Len(b) = Len(a)
        /\ B # {} => Len(b) = Len(a) + 1 /\ b[Len(a) + 1] \in B
        /\ \A n \in 1 .. Len(a) : b[n] = a[n]
    BY <1>2, <1>3, <1>4
  <2>3. /\ C = {} => Len(c) = Len(b)
        /\ C # {} => Len(c) = Len(b) + 1 /\ c[Len(b) + 1] \in C
        /\ \A n \in 1 .. Len(b) : c[n] = b[n]
    BY <1>5, <1>6
  <2>4. CASE A = {}
    <3>1. CASE B = {}
      BY <2>1, <2>2, <2>3, <2>4, <3>1 DEF Placed
    <3>2. CASE B # {}
      BY <2>1, <2>2, <2>3, <2>4, <3>2 DEF Placed
    <3> QED
      BY <3>1, <3>2
  <2>5. CASE A # {}
    <3>1. CASE B = {}
      BY <2>1, <2>2, <2>3, <2>5, <3>1 DEF Placed
    <3>2. CASE B # {}
      BY <2>1, <2>2, <2>3, <2>5, <3>2 DEF Placed
    <3> QED
      BY <3>1, <3>2
  <2> QED
    BY <2>4, <2>5
<1> QED
  BY <1>7, Zenon DEF a, b, c

\* What is left of a list of alerts with different keys when those with a row are
\* skipped: the same keys, each once, and no alert but the first comes first.
LEMMA PersistFacts ==
    ASSUME NEW E, NEW all \in Seq(E), NEW rows,
           \A n, m \in 1 .. Len(all) : all[n].dedup_key = all[m].dedup_key => n = m
    PROVE  LET sent == PersistAlerts(all, rows)
               keys == {all[n].dedup_key : n \in 1 .. Len(all)}
           IN  /\ {a.dedup_key : a \in ToSet(sent)} = keys \ rows
               /\ Len(sent) = Cardinality(keys \ rows)
               /\ \A n \in DOMAIN sent : \E k \in 1 .. Len(all) :
                     sent[n] = all[k] /\ (n > 1 => k > 1)
               /\ Len(sent) \in Nat /\ DOMAIN sent = 1 .. Len(sent)
<1> DEFINE S == {a \in ToSet(all) : a.dedup_key \notin rows}
           sent == PersistAlerts(all, rows)
           keys == {all[n].dedup_key : n \in 1 .. Len(all)}
<1>1. PICK m \in Nat : \E I : /\ Picks(I, m, Len(all), all, S)
                              /\ Only(all, S) = [a \in 1 .. m |-> all[I[a]]]
  <2> HIDE DEF S
  <2> QED
    BY OnlyFacts
<1>2. PICK I : /\ Picks(I, m, Len(all), all, S)
               /\ Only(all, S) = [a \in 1 .. m |-> all[I[a]]]
  BY <1>1, Zenon
<1>3. sent = [a \in 1 .. m |-> all[I[a]]]
  BY <1>2 DEF PersistAlerts
<1>4. Len(all) \in Nat /\ DOMAIN all = 1 .. Len(all)
  OBVIOUS
<1>5. \A n \in 1 .. Len(all) : all[n] \in S <=> all[n].dedup_key \notin rows
  BY <1>4 DEF ToSet
<1> DEFINE Key(a) == all[I[a]].dedup_key
<1> HIDE DEF sent, S
<1>6. /\ \A a \in 1 .. m : I[a] \in 1 .. Len(all) /\ Key(a) \notin rows
      /\ \A a, b \in 1 .. m : a < b => I[a] < I[b]
      /\ \A j \in 1 .. Len(all) : all[j].dedup_key \notin rows => \E a \in 1 .. m : I[a] = j
  BY <1>2, <1>5 DEF Picks
<1>7. keys \ rows = {Key(a) : a \in 1 .. m}
  BY <1>6
<1>8. Len(sent) = m /\ DOMAIN sent = 1 .. m /\ \A a \in 1 .. m : sent[a] = all[I[a]]
  BY <1>3
<1>9. Cardinality(keys \ rows) = m
  <2> DEFINE f == [a \in 1 .. m |-> Key(a)]
  <2>1. \A a, b \in 1 .. m : Key(a) = Key(b) => a = b
    <3>1. \A a, b \in 1 .. m : Key(a) = Key(b) => I[a] = I[b]
      BY <1>6
    <3>2. \A a, b \in 1 .. m : I[a] = I[b] => a = b
      BY <1>4, <1>6
    <3> QED
      BY <3>1, <3>2
  <2>2. f \in Bijection(1 .. m, keys \ rows)
    <3> HIDE DEF Key, keys
    <3> QED
      BY <1>7, <2>1 DEF Bijection, Injection, Surjection, IsInjective
  <2> QED
    BY <2>2, FS_CountingElements, Zenon DEF ExistsBijection
<1>10. {a.dedup_key : a \in ToSet(sent)} = keys \ rows
  BY <1>7, <1>8 DEF ToSet
<1>11. \A n \in DOMAIN sent : \E k \in 1 .. Len(all) : sent[n] = all[k] /\ (n > 1 => k > 1)
  <2>1. \A n \in 1 .. m : n > 1 => 1 \in 1 .. m
    OBVIOUS
  <2>2. \A n \in 1 .. m : n > 1 => I[n] > 1
    BY <1>4, <1>6, <2>1
  <2> QED
    BY <1>6, <1>8, <2>2
<1>12. /\ {a.dedup_key : a \in ToSet(sent)} = keys \ rows
       /\ Len(sent) = Cardinality(keys \ rows)
       /\ \A n \in DOMAIN sent : \E k \in 1 .. Len(all) :
             sent[n] = all[k] /\ (n > 1 => k > 1)
       /\ Len(sent) \in Nat /\ DOMAIN sent = 1 .. Len(sent)
  BY <1>8, <1>9, <1>10, <1>11, Zenon
<1> QED
  BY <1>12, Zenon DEF sent

\* What a decided alert says: that the product came or went, that the price has reached
\* the threshold, or that it was never this low.
Said(target, previous, low, new, a) ==
    \/ StockSaid(previous, new, a)
    \/ DropSaid(target, previous, new, a) /\ a.kind = "price_drop"
    \/ LowSaid(low, new, a) /\ a.kind = "all_time_low"

\* The decided alerts have different keys, those of DecideAlerts; stock comes first.
LEMMA DecidedFacts ==
    ASSUME NEW target \in Option(Money), NEW previous, NEW low, \A x, y \in low : x = y,
           NEW new \in Snapshot
    PROVE  LET all == Decided(target, previous, low, new)
           IN  /\ \E E : all \in Seq(E)
               /\ \A n, m \in 1 .. Len(all) : all[n].dedup_key = all[m].dedup_key => n = m
               /\ \A n \in 1 .. Len(all) : n > 1 => ~StockKeys(all[n])
               /\ \A n \in 1 .. Len(all) : Said(target, previous, low, new, all[n])
               /\ {all[n].dedup_key : n \in 1 .. Len(all)}
                      = DecideAlerts(target, previous, low, new)
<1> DEFINE A == DecidedOf(target, previous, low, new, StockPayloads(previous, new))
           B == DecidedOf(target, previous, low, new, DropPayloads(target, previous, new))
           C == DecidedOf(target, previous, low, new, LowPayloads(low, new))
           all == Decided(target, previous, low, new)
           keys == DecideAlerts(target, previous, low, new)
<1>1. /\ \A a, b \in A : a = b
      /\ \A a \in A : StockSaid(previous, new, a) /\ a.dedup_key.kind = a.kind
      /\ \A k \in StockAlerts(previous, new) : \E a \in A : a.dedup_key = k
  BY StockDecidedOnce
<1>2. /\ \A a, b \in B : a = b
      /\ \A a \in B : /\ DropSaid(target, previous, new, a) /\ new.inStock
                      /\ a.kind = "price_drop" /\ a.dedup_key.kind = "price_drop"
      /\ new.inStock => \A k \in DropAlerts(target, previous, new) :
                           \E a \in B : a.dedup_key = k
  BY DropDecidedOnce, Zenon
<1>3. /\ \A a, b \in C : a = b
      /\ \A a \in C : /\ LowSaid(low, new, a) /\ new.inStock
                      /\ a.kind = "all_time_low" /\ a.dedup_key.kind = "all_time_low"
      /\ new.inStock => \A k \in LowAlerts(low, new) : \E a \in C : a.dedup_key = k
  BY LowDecidedOnce
<1>4. all = SetToSeq(A) \o SetToSeq(B) \o SetToSeq(C)
  BY Zenon DEF Decided, DecidedOf
<1>5. \A a \in A \cup B \cup C : a.dedup_key \in keys
  BY DEF DecidedOf
<1> HIDE DEF A, B, C
<1>6. \A a \in A : a.kind \in {"back_in_stock", "out_of_stock"}
  BY <1>1 DEF StockSaid
<1>7. A \cap B = {} /\ A \cap C = {} /\ B \cap C = {}
  BY <1>2, <1>3, <1>6
<1>8. Placed(all, A, B, C)
  <2> HIDE DEF all
  <2>1. Placed(SetToSeq(A) \o SetToSeq(B) \o SetToSeq(C), A, B, C)
    BY <1>1, <1>2, <1>3, <1>7, ThreeOptions
  <2> QED
    BY <1>4, <2>1
<1> HIDE DEF all
<1>9. \A n \in 1 .. Len(all) : all[n] \in A \cup B \cup C
  BY <1>8 DEF Placed
<1>10. \A a, b \in A \cup B \cup C : a.dedup_key = b.dedup_key => a = b
  BY <1>1, <1>2, <1>3, <1>6
<1>11. \A a \in A \cup B \cup C : Said(target, previous, low, new, a)
  BY <1>1, <1>2, <1>3 DEF Said
<1>12. \A n \in 1 .. Len(all) : n > 1 => ~StockKeys(all[n])
  BY <1>2, <1>3, <1>8, <1>9 DEF StockKeys, Placed
<1>13. \A k \in keys : \E a \in A \cup B \cup C : a.dedup_key = k
  BY <1>1, <1>2, <1>3 DEF DecideAlerts
<1>14. {all[n].dedup_key : n \in 1 .. Len(all)} = keys
  <2> HIDE DEF keys
  <2>1. \A n \in 1 .. Len(all) : all[n].dedup_key \in keys
    BY <1>5, <1>9
  <2>2. \A k \in keys : \E n \in 1 .. Len(all) : all[n].dedup_key = k
    BY <1>8, <1>13 DEF Placed
  <2> QED
    BY <2>1, <2>2
<1>15. \A n, m \in 1 .. Len(all) : all[n].dedup_key = all[m].dedup_key => n = m
  BY <1>8, <1>9, <1>10 DEF Placed
<1>16. /\ \E E : all \in Seq(E)
       /\ \A n, m \in 1 .. Len(all) : all[n].dedup_key = all[m].dedup_key => n = m
       /\ \A n \in 1 .. Len(all) : n > 1 => ~StockKeys(all[n])
       /\ \A n \in 1 .. Len(all) : Said(target, previous, low, new, all[n])
       /\ {all[n].dedup_key : n \in 1 .. Len(all)}
              = DecideAlerts(target, previous, low, new)
  BY <1>8, <1>9, <1>11, <1>12, <1>14, <1>15 DEF Placed
<1> QED
  BY <1>16, Zenon DEF all

-----------------------------------------------------------------------------
\* Messages.

\* The kind of an alert crosses the wire.
LEMMA KindKnown ==
    ASSUME NEW k \in AlertKinds
    PROVE  KindFromProto(KindNames[k]) = k
<1>1. DOMAIN KindNames = AlertKinds
  BY DEF KindNames, AlertKinds
<1>2. \A j \in AlertKinds : KindNames[j] = KindNames[k] => j = k
  BY DEF KindNames, AlertKinds
<1> QED
  BY <1>1, <1>2 DEF KindFromProto

\* The queue and the wire lose nothing of an alert whose amounts have currencies.
LEMMA Carried ==
    ASSUME NEW key, key.kind \in AlertKinds, NEW price, price.currency # NoCurrency,
           NEW was, NEW wished, NEW shop,
           \A m \in was \cup wished \cup shop : m.currency # NoCurrency
    PROVE  FromProto(PendingAlert(Alert(key, price, was, wished, shop)))
             = [kind |-> key.kind, price |-> {price}, previous_price |-> was,
                target_price |-> wished, original_price |-> shop, dedup_key |-> key]
<1>1. /\ MoneyFromProto({price}) = {price} /\ MoneyFromProto(was) = was
      /\ MoneyFromProto(wished) = wished /\ MoneyFromProto(shop) = shop
  BY DEF MoneyFromProto
<1> QED
  BY <1>1, KindKnown DEF FromProto, PendingAlert, Alert

\* The message of an alert about a price.
LEMMA PriceMessage ==
    ASSUME NEW key, key.kind \in {"price_drop", "all_time_low"},
           NEW price, price.currency # NoCurrency, NEW was, NEW wished, NEW shop,
           \A m \in was \cup wished \cup shop : m.currency # NoCurrency
    PROVE  LET m == Message(Alert(key, price, was, wished, shop))
               shown == {q \in was : q.currency = price.currency}
           IN  /\ m.heading = key.kind
               /\ m.lines.price = {price} /\ m.lines.was = shown
               /\ m.lines.shop = shop /\ m.lines.wished = wished
               /\ m.lines.percent = UNION {Drop(q, price) : q \in shown}
<1> DEFINE a == [kind |-> key.kind, price |-> {price}, previous_price |-> was,
                 target_price |-> wished, original_price |-> shop, dedup_key |-> key]
           shown == {q \in was : q.currency = price.currency}
<1>1. key.kind \in AlertKinds
  BY DEF AlertKinds
<1>2. FromProto(PendingAlert(Alert(key, price, was, wished, shop))) = a
  BY <1>1, Carried
<1>3. Message(Alert(key, price, was, wished, shop)) = Render(a)
  BY <1>2 DEF Message
<1>4. /\ a.kind = key.kind /\ a.price = {price} /\ a.previous_price = was
      /\ a.target_price = wished /\ a.original_price = shop
  OBVIOUS
<1> HIDE DEF a
<1>5. {q \in a.previous_price : \E p \in a.price : q.currency = p.currency} = shown
  BY <1>4
<1>6. UNION {Drop(q, p) : q \in shown, p \in a.price} = UNION {Drop(q, price) : q \in shown}
  BY <1>4
<1>7. Lines(a) = [price |-> a.price, was |-> shown,
                  percent |-> UNION {Drop(q, p) : q \in shown, p \in a.price},
                  shop |-> a.original_price, wished |-> a.target_price]
  BY <1>4, <1>5 DEF Lines
<1>8. Render(a).heading = key.kind /\ Render(a).lines = Lines(a)
  BY <1>1, <1>4 DEF Render
<1> QED
  BY <1>3, <1>4, <1>6, <1>7, <1>8

\* The message of an alert about stock.
LEMMA StockMessage ==
    ASSUME NEW key, key.kind \in {"back_in_stock", "out_of_stock"},
           NEW price, price.currency # NoCurrency, NEW was,
           \A m \in was : m.currency # NoCurrency
    PROVE  LET m == Message(Alert(key, price, was, {}, {}))
           IN  /\ m.heading = key.kind
               /\ m.lines = [Silent EXCEPT !.price = {price}]
<1> DEFINE a == [kind |-> key.kind, price |-> {price}, previous_price |-> was,
                 target_price |-> {}, original_price |-> {}, dedup_key |-> key]
<1>1. key.kind \in AlertKinds
  BY DEF AlertKinds
<1>2. FromProto(PendingAlert(Alert(key, price, was, {}, {}))) = a
  BY <1>1, Carried
<1>3. Message(Alert(key, price, was, {}, {})) = Render(a)
  BY <1>2 DEF Message
<1>4. a.kind = key.kind /\ a.price = {price}
  OBVIOUS
<1> HIDE DEF a
<1>5. Lines(a) = [Silent EXCEPT !.price = {price}]
  BY <1>4 DEF Lines
<1>6. Render(a).heading = key.kind /\ Render(a).lines = Lines(a)
  BY <1>1, <1>4 DEF Render
<1> QED
  BY <1>3, <1>5, <1>6

\* A change in tenths of a percent is rounded towards nothing.
LEMMA DropTrue ==
    ASSUME NEW q, NEW p, q.amount \in Nat, p.amount \in Nat, p.amount < q.amount,
           NEW n \in Drop(q, p)
    PROVE  n \in 1 .. 1000 /\ n * q.amount <= 1000 * (q.amount - p.amount)
<1> DEFINE b == q.amount
           d == q.amount - p.amount
<1>1. b \in Nat /\ b > 0 /\ d \in Nat /\ d <= b /\ d * 1000 \in Nat
  OBVIOUS
<1>2. n = (d * 1000) \div b /\ n # 0
  BY DEF Drop
<1> HIDE DEF b, d
<1>3. \A x \in Nat : x \div b \in Nat /\ (x \div b) * b <= x
  BY <1>1
<1>4. n \in Nat /\ n * b <= d * 1000
  BY <1>1, <1>2, <1>3
<1>5. n * b <= 1000 * b
  BY <1>1, <1>4
<1>6. n <= 1000
  BY <1>1, <1>4, <1>5
<1>7. n \in 1 .. 1000 /\ n * b <= 1000 * d
  BY <1>1, <1>2, <1>4, <1>6
<1> QED
  BY <1>7, Zenon DEF b, d

-----------------------------------------------------------------------------
\* What a message says is true.

\* The readings of an item have different stamps: a reading is never reported twice.
StampsApart == \A i \in Items : \A s, t \in snapshots[i] : s.at = t.at => s = t

\* Money is known by its amount and currency.
LEMMA MoneyFacts ==
    \A m \in Money : /\ m.amount \in Nat /\ m.currency # NoCurrency
                     /\ \A n \in Money : m.amount = n.amount /\ m.currency = n.currency => m = n
<1>1. \A m \in Money : m = [amount |-> m.amount, currency |-> m.currency]
  BY DEF Money
<1>2. \A m \in Money : m.amount \in Nat /\ m.currency # NoCurrency
  BY AmountsAssumption, CurrenciesAssumption DEF Money
<1> QED
  BY <1>1, <1>2, Zenon

\* The price of a snapshot in a currency.
LEMMA PriceInFacts ==
    ASSUME NEW s \in Snapshot, NEW c
    PROVE  /\ \A p \in PriceIn(s, c) : /\ p \in Money /\ p.currency = c
                                       /\ p = s.price \/ (p \in s.converted /\ s.price.currency # c)
           /\ \A p, q \in PriceIn(s, c) : p = q
BY DEF PriceIn, Snapshot, Option

\* At most one reading is the latest.
LEMMA KnownFacts ==
    ASSUME TypeOK, StampsApart, NEW i \in Items
    PROVE  /\ Latest(snapshots[i]) \subseteq Snapshot
           /\ \A x, y \in Latest(snapshots[i]) : x = y
<1>1. snapshots[i] \subseteq Snapshot
  BY DEF TypeOK
<1>2. \A x \in Snapshot : x.at \in Nat
  BY StampsAssumption DEF Snapshot
<1> QED
  BY <1>1, <1>2 DEF Latest, StampsApart

\* The minimum of a history is one price, below every other in it.
LEMMA MinimumFacts ==
    ASSUME TypeOK, NEW i \in Items, NEW c
    PROVE  /\ \A x \in AllTimeMinimum(snapshots[i], c) :
                 /\ x \in Money /\ x.currency = c
                 /\ \A r \in snapshots[i] : r.price.currency = c => x.amount <= r.price.amount
           /\ \A x, y \in AllTimeMinimum(snapshots[i], c) : x = y
<1>1. \A r \in snapshots[i] : r.price \in Money
  BY DEF TypeOK, Snapshot
<1>2. \A x \in AllTimeMinimum(snapshots[i], c) :
          /\ \E r \in snapshots[i] : x = r.price
          /\ x.currency = c
          /\ \A r \in snapshots[i] : r.price.currency = c => x.amount <= r.price.amount
  BY DEF AllTimeMinimum
<1>3. \A x, y \in AllTimeMinimum(snapshots[i], c) : x.amount <= y.amount
  BY <1>2
<1>4. \A x \in AllTimeMinimum(snapshots[i], c) : x \in Money /\ x.amount \in Nat
  BY <1>1, <1>2, MoneyFacts
<1>5. \A x, y \in AllTimeMinimum(snapshots[i], c) : x.amount = y.amount
  BY <1>3, <1>4
<1> QED
  BY <1>2, <1>4, <1>5, MoneyFacts

\* The part of True that is about the price line.
PriceTrue(i, s, a, m) ==
    \E p \in m.price :
        /\ \A q \in m.was \cup m.wished \cup m.shop \cup {p} :
              q.currency = p.currency \/ q \in m.shop
        /\ \A q \in m.was : q.amount > p.amount
        /\ \A n \in m.percent : \A q \in m.was :
              n \in 1 .. 1000 /\ n * q.amount <= 1000 * (q.amount - p.amount)
        /\ p # s.price <=> m.shop = {s.price}
        /\ p \in {s.price} \cup s.converted
        /\ a.kind = "price_drop" => \E t \in m.wished : p.amount <= t.amount
        /\ a.kind = "all_time_low" =>
              \E q \in m.was : \A r \in snapshots[i] :
                  r.price.currency = p.currency => q.amount <= r.price.amount

\* A stock alert is true of its reading,
LEMMA StockTrue ==
    ASSUME TypeOK, StampsApart, NEW i \in Items, NEW s \in Snapshot, NEW a,
           StockSaid(Latest(snapshots[i]), s, a)
    PROVE  True(i, s, a)
<1> DEFINE known == Latest(snapshots[i])
<1>1. known \subseteq Snapshot /\ \A x, y \in known : x = y
  BY KnownFacts
<1>2. s.price \in Money /\ \A q \in known : q.price \in Money
  BY <1>1 DEF Snapshot
<1>3. s.price.currency # NoCurrency
      /\ \A m \in {q.price : q \in known} : m.currency # NoCurrency
  BY <1>2, MoneyFacts
<1>4. /\ a = Alert(a.dedup_key, s.price, {q.price : q \in known}, {}, {})
      /\ a.kind = (IF s.inStock THEN "back_in_stock" ELSE "out_of_stock")
      /\ \E q \in known : q.inStock # s.inStock
  BY DEF StockSaid
<1>5. a.kind = a.dedup_key.kind
  BY <1>4 DEF Alert
<1>6. /\ Message(a).heading = a.kind
      /\ Message(a).lines = [Silent EXCEPT !.price = {s.price}]
  <2> HIDE DEF known
  <2>1. a.dedup_key.kind \in {"back_in_stock", "out_of_stock"}
    BY <1>4, <1>5
  <2>2. LET m == Message(Alert(a.dedup_key, s.price, {q.price : q \in known}, {}, {}))
        IN  m.heading = a.dedup_key.kind /\ m.lines = [Silent EXCEPT !.price = {s.price}]
    BY <1>3, <2>1, StockMessage
  <2> QED
    BY <1>4, <1>5, <2>2
<1> DEFINE m == Message(a).lines
<1>7. m.price = {s.price} /\ m.was = {} /\ m.wished = {} /\ m.shop = {} /\ m.percent = {}
  BY <1>6 DEF Silent
<1>8. s.inStock \in BOOLEAN /\ \A q \in known : q.inStock \in BOOLEAN
  BY <1>1 DEF Snapshot
<1>9. /\ a.kind = "back_in_stock" => s.inStock /\ \E l \in known : ~l.inStock
      /\ a.kind = "out_of_stock" => ~s.inStock /\ \E l \in known : l.inStock
      /\ a.kind # "price_drop" /\ a.kind # "all_time_low"
  BY <1>4, <1>8
<1> HIDE DEF m
<1>10. PriceTrue(i, s, a, m)
  BY <1>7, <1>9 DEF PriceTrue
<1> QED
  BY <1>6, <1>9, <1>10, Zenon DEF True, PriceTrue, m

\* so is an alert of a new low,
LEMMA LowTrue ==
    ASSUME TypeOK, NEW i \in Items, NEW s \in Snapshot, NEW a, a.kind = "all_time_low",
           LowSaid(AllTimeMinimum(snapshots[i], s.price.currency), s, a)
    PROVE  True(i, s, a)
<1>1. PICK low \in AllTimeMinimum(snapshots[i], s.price.currency) :
          /\ a = Alert(PriceKey("all_time_low", s.price), s.price, {low}, {}, {})
          /\ low.currency = s.price.currency /\ s.price.amount < low.amount
  BY DEF LowSaid
<1>2. /\ low \in Money /\ s.price \in Money
      /\ \A r \in snapshots[i] : r.price.currency = s.price.currency => low.amount <= r.price.amount
  BY <1>1, MinimumFacts DEF Snapshot
<1>3. low.amount \in Nat /\ s.price.amount \in Nat /\ low.currency # NoCurrency
      /\ s.price.currency # NoCurrency
  BY <1>2, MoneyFacts
<1> DEFINE m == Message(a).lines
<1>4. /\ Message(a).heading = a.kind
      /\ m.price = {s.price} /\ m.was = {low} /\ m.shop = {} /\ m.wished = {}
      /\ m.percent = Drop(low, s.price)
  <2> DEFINE key == PriceKey("all_time_low", s.price)
             shown == {q \in {low} : q.currency = s.price.currency}
  <2>1. key.kind = "all_time_low"
    BY DEF PriceKey
  <2> HIDE DEF key
  <2>2. LET n == Message(Alert(key, s.price, {low}, {}, {}))
        IN  /\ n.heading = key.kind
            /\ n.lines.price = {s.price} /\ n.lines.was = shown
            /\ n.lines.shop = {} /\ n.lines.wished = {}
            /\ n.lines.percent = UNION {Drop(q, s.price) : q \in shown}
    BY <1>3, <2>1, PriceMessage
  <2>3. shown = {low}
    BY <1>1
  <2>4. UNION {Drop(q, s.price) : q \in {low}} = Drop(low, s.price)
    OBVIOUS
  <2>5. a = Alert(key, s.price, {low}, {}, {})
    BY <1>1 DEF key
  <2> QED
    BY <2>1, <2>2, <2>3, <2>4, <2>5
<1>5. \A n \in m.percent : n \in 1 .. 1000 /\ n * low.amount <= 1000 * (low.amount - s.price.amount)
  BY <1>1, <1>3, <1>4, DropTrue
<1> HIDE DEF m
<1>6. PriceTrue(i, s, a, m)
  BY <1>1, <1>2, <1>4, <1>5 DEF PriceTrue
<1> QED
  BY <1>4, <1>6, Zenon DEF True, PriceTrue, m

\* and an alert of a drop to the target.
LEMMA DropAlertTrue ==
    ASSUME TypeOK, StampsApart, NEW i \in Items, NEW s \in Snapshot, NEW a,
           a.kind = "price_drop",
           DropSaid(item[i].target, Latest(snapshots[i]), s, a)
    PROVE  True(i, s, a)
<1> DEFINE known == Latest(snapshots[i])
<1>1. known \subseteq Snapshot /\ \A x, y \in known : x = y
  BY KnownFacts
<1>2. item[i].target \subseteq Money
  BY TargetsAssumption DEF TypeOK, Row, Option
<1>3. PICK t \in item[i].target : \E p \in PriceIn(s, t.currency) :
          /\ a = Alert(PriceKey("price_drop", p), p, PreviousPriceIn(known, t.currency), {t},
                       OriginalPrice(s.price, p))
          /\ p.amount <= t.amount
          /\ \A q \in known : ~AtOrBelow(q, t)
  BY DEF DropSaid
<1>4. PICK p \in PriceIn(s, t.currency) :
          /\ a = Alert(PriceKey("price_drop", p), p, PreviousPriceIn(known, t.currency), {t},
                       OriginalPrice(s.price, p))
          /\ p.amount <= t.amount
          /\ \A q \in known : ~AtOrBelow(q, t)
  BY <1>3
<1> DEFINE was == PreviousPriceIn(known, t.currency)
           shop == OriginalPrice(s.price, p)
           key == PriceKey("price_drop", p)
<1>5. /\ t \in Money /\ p \in Money /\ s.price \in Money /\ p.currency = t.currency
      /\ p = s.price \/ (p \in s.converted /\ s.price.currency # p.currency)
  BY <1>2, PriceInFacts DEF Snapshot
<1>6. \A q \in was : q \in Money /\ q.currency = p.currency /\ p.amount < q.amount
  <2>1. ASSUME NEW q \in was
        PROVE  q \in Money /\ q.currency = p.currency /\ p.amount < q.amount
    <3>1. PICK k \in known : q \in PriceIn(k, t.currency)
      BY <2>1 DEF PreviousPriceIn
    <3>2. q \in Money /\ q.currency = t.currency
      BY <1>1, <3>1, PriceInFacts
    <3>3. ~(q.amount <= t.amount)
      BY <1>4, <3>1 DEF AtOrBelow
    <3>4. q.amount \in Nat /\ t.amount \in Nat /\ p.amount \in Nat
      BY <1>5, <3>2, MoneyFacts
    <3> QED
      BY <1>4, <1>5, <3>2, <3>3, <3>4
  <2> QED
    BY <2>1
<1>7. \A q, r \in was : q = r
  <2>1. ASSUME NEW q \in was, NEW r \in was PROVE q = r
    <3>1. PICK k \in known : q \in PriceIn(k, t.currency)
      BY <2>1 DEF PreviousPriceIn
    <3>2. PICK l \in known : r \in PriceIn(l, t.currency)
      BY <2>1 DEF PreviousPriceIn
    <3>3. k = l /\ k \in Snapshot
      BY <1>1
    <3> QED
      BY <3>1, <3>2, <3>3, PriceInFacts
  <2> QED
    BY <2>1
<1>8. shop \subseteq {s.price} /\ (p # s.price <=> shop = {s.price})
  BY <1>5 DEF OriginalPrice
<1> DEFINE m == Message(a).lines
<1>9. a = Alert(key, p, was, {t}, shop) /\ key.kind = "price_drop"
  BY <1>4 DEF PriceKey
<1> HIDE DEF known, was, shop, key
<1>10. /\ Message(a).heading = a.kind
       /\ m.price = {p} /\ m.was = was /\ m.shop = shop /\ m.wished = {t}
       /\ m.percent = UNION {Drop(q, p) : q \in was}
  <2> DEFINE shown == {q \in was : q.currency = p.currency}
  <2>1. p.currency # NoCurrency /\ \A n \in was \cup {t} \cup shop : n.currency # NoCurrency
    BY <1>5, <1>6, <1>8, MoneyFacts
  <2>2. LET n == Message(Alert(key, p, was, {t}, shop))
        IN  /\ n.heading = key.kind
            /\ n.lines.price = {p} /\ n.lines.was = shown
            /\ n.lines.shop = shop /\ n.lines.wished = {t}
            /\ n.lines.percent = UNION {Drop(q, p) : q \in shown}
    BY <1>9, <2>1, PriceMessage
  <2>3. shown = was
    BY <1>6
  <2> QED
    BY <1>9, <2>2, <2>3
<1>11. \A n \in m.percent : \A q \in m.was :
           n \in 1 .. 1000 /\ n * q.amount <= 1000 * (q.amount - p.amount)
  <2> HIDE DEF m
  <2>1. ASSUME NEW n \in m.percent, NEW q \in was
        PROVE  n \in 1 .. 1000 /\ n * q.amount <= 1000 * (q.amount - p.amount)
    <3>1. PICK r \in was : n \in Drop(r, p)
      BY <1>10, <2>1
    <3>2. n \in Drop(q, p)
      BY <1>7, <2>1, <3>1
    <3>3. q.amount \in Nat /\ p.amount \in Nat /\ p.amount < q.amount
      BY <1>5, <1>6, <2>1, MoneyFacts
    <3> QED
      BY <3>2, <3>3, DropTrue
  <2> QED
    BY <1>10, <2>1
<1> HIDE DEF m
<1>12. PriceTrue(i, s, a, m)
  <2>1. \A q \in m.was : q.amount > p.amount
    <3>1. \A q \in was : q.amount \in Nat /\ p.amount \in Nat
      BY <1>5, <1>6, MoneyFacts
    <3> QED
      BY <1>6, <1>10, <3>1
  <2>2. \A q \in m.was \cup m.wished \cup m.shop \cup {p} :
            q.currency = p.currency \/ q \in m.shop
    BY <1>5, <1>6, <1>10
  <2>3. p # s.price <=> m.shop = {s.price}
    BY <1>8, <1>10
  <2>4. p \in {s.price} \cup s.converted
    BY <1>5
  <2>5. p \in m.price /\ \E u \in m.wished : p.amount <= u.amount
    BY <1>4, <1>10
  <2> QED
    BY <1>11, <2>1, <2>2, <2>3, <2>4, <2>5 DEF PriceTrue
<1> QED
  BY <1>10, <1>12, Zenon DEF True, PriceTrue, m

\* What is said of a reading is true.
LEMMA SaidTrue ==
    ASSUME TypeOK, StampsApart, NEW i \in Items, NEW s \in Snapshot, NEW a,
           Said(item[i].target, Latest(snapshots[i]),
                AllTimeMinimum(snapshots[i], s.price.currency), s, a)
    PROVE  True(i, s, a)
BY StockTrue, DropAlertTrue, LowTrue DEF Said

-----------------------------------------------------------------------------
\* The steps that send messages.

\* There are no stamps at first.
LEMMA StampsInit == Init => StampsApart
BY DEF Init, StampsApart

\* A reading is given a stamp of its own.
LEMMA StampsStep == TypeOK /\ StampsApart /\ [Next]_vars => StampsApart'
<1> SUFFICES ASSUME TypeOK, StampsApart, [Next]_vars, NEW i \in Items,
                    NEW s \in snapshots'[i], NEW t \in snapshots'[i], s.at = t.at
             PROVE  s = t
  BY DEF StampsApart
<1>1. CASE snapshots'[i] \subseteq snapshots[i]
  BY <1>1 DEF StampsApart
<1>2. CASE ~(snapshots'[i] \subseteq snapshots[i])
  <2>1. PICK j \in Items, o \in Observation : RecordSnapshot(j, o)
    BY <1>2 DEF Next, CreateItem, UpdateItem, DeleteItem, AlertsWithout, RecordFailure,
                ClaimDueItems, Tick, vars, TypeOK
  <2>2. PICK new \in Snapshot :
            /\ new.at = o.at
            /\ snapshots' = [snapshots EXCEPT ![j] = @ \cup {new}]
    BY <2>1, RecordedSnapshot
  <2>3. \A r \in snapshots[j] : r.at # new.at
    BY <2>1, <2>2 DEF RecordSnapshot, Arrives
  <2>4. j = i /\ snapshots'[i] = snapshots[i] \cup {new}
    BY <1>2, <2>2 DEF TypeOK
  <2> QED
    BY <2>3, <2>4 DEF StampsApart
<1> QED
  BY <1>1, <1>2

\* A reading is reported by what its transaction inserted, and truly.
LEMMA SnapshotReport ==
    ASSUME TypeOK, StampsApart, [Next]_vars, NEW i \in Items, NEW s \in Recorded(i)
    PROVE  LET sent == RaisedBySnapshot(i, s)
           IN  /\ {a.dedup_key : a \in ToSet(sent)} = Raised(i)
               /\ Len(sent) = Cardinality(Raised(i))
               /\ Ordered(sent)
               /\ \A a \in ToSet(sent) : True(i, s, a)
<1>1. PICK o \in Observation : RecordSnapshot(i, o)
  <2>1. snapshots'[i] # snapshots[i] /\ snapshots'[i] # {}
    BY DEF Recorded
  <2>2. PICK j \in Items, o \in Observation : RecordSnapshot(j, o)
    BY <2>1 DEF Next, CreateItem, UpdateItem, DeleteItem, AlertsWithout, RecordFailure,
                ClaimDueItems, Tick, vars, TypeOK
  <2>3. j = i
    BY <2>1, <2>2, RecordedSnapshot DEF TypeOK
  <2> QED
    BY <2>2, <2>3
<1>2. PICK new \in Snapshot :
        /\ snapshots' = [snapshots EXCEPT ![i] = @ \cup {new}]
        /\ alerts' = [alerts EXCEPT ![i] = @ \cup
               DecideAlerts(item[i].target, Latest(snapshots[i]),
                   AllTimeMinimum(snapshots[i], new.price.currency), new)]
  BY <1>1, RecordedSnapshot
<1>3. s = new
  BY <1>2 DEF Recorded, TypeOK
<1> DEFINE target == item[i].target
           known == Latest(snapshots[i])
           low == AllTimeMinimum(snapshots[i], s.price.currency)
           rows == alerts[i]
<1>4. Raised(i) = DecideAlerts(target, known, low, s) \ rows
  BY <1>2, <1>3 DEF Raised, TypeOK
<1>5. target \in Option(Money) /\ s \in Snapshot
  BY <1>3, TargetsAssumption DEF TypeOK, Row, Option
<1>6. \A x, y \in low : x = y
  BY MinimumFacts
<1>7. \A a : Said(target, known, low, s, a) => True(i, s, a)
  BY <1>5, SaidTrue
<1>8. RaisedBySnapshot(i, s) = PersistAlerts(Decided(target, known, low, s), rows)
  BY DEF RaisedBySnapshot
<1> DEFINE all == Decided(target, known, low, s)
<1> HIDE DEF target, known, low, rows
<1>9. /\ \E E : all \in Seq(E)
      /\ \A n, m \in 1 .. Len(all) : all[n].dedup_key = all[m].dedup_key => n = m
      /\ \A n \in 1 .. Len(all) : n > 1 => ~StockKeys(all[n])
      /\ \A n \in 1 .. Len(all) : Said(target, known, low, s, all[n])
      /\ {all[n].dedup_key : n \in 1 .. Len(all)} = DecideAlerts(target, known, low, s)
  BY <1>5, <1>6, DecidedFacts
<1> DEFINE sent == PersistAlerts(all, rows)
           keys == {all[n].dedup_key : n \in 1 .. Len(all)}
<1> HIDE DEF all
<1>10. PICK E : all \in Seq(E)
  BY <1>9
<1>11. /\ {a.dedup_key : a \in ToSet(sent)} = keys \ rows
       /\ Len(sent) = Cardinality(keys \ rows)
       /\ \A n \in DOMAIN sent : \E k \in 1 .. Len(all) :
             sent[n] = all[k] /\ (n > 1 => k > 1)
       /\ Len(sent) \in Nat /\ DOMAIN sent = 1 .. Len(sent)
  BY <1>9, <1>10, PersistFacts
<1>12. keys \ rows = Raised(i)
  BY <1>4, <1>9
<1> HIDE DEF sent, keys
<1>13. Ordered(sent)
  <2>1. ASSUME NEW n \in DOMAIN sent, NEW m \in 1 .. n - 1
        PROVE  ~StockKeys(sent[n])
    <3>1. n > 1
      BY <1>11
    <3> QED
      BY <1>9, <1>11, <3>1
  <2> QED
    BY <2>1 DEF Ordered, StockKeys
<1>14. \A a \in ToSet(sent) : True(i, s, a)
  <2>1. \A n \in 1 .. Len(all) : True(i, s, all[n])
    BY <1>7, <1>9
  <2>2. \A n \in DOMAIN sent : True(i, s, sent[n])
    BY <1>11, <2>1
  <2> QED
    BY <2>2 DEF ToSet
<1>15. sent = RaisedBySnapshot(i, s)
  BY <1>8 DEF sent, all
<1> QED
  BY <1>11, <1>12, <1>13, <1>14, <1>15

\* A degraded scrape is named without a price.
LEMMA FailureMessage ==
    ASSUME NEW key, key.kind = "scrape_degraded"
    PROVE  Message(Alert(key, NoMoney, {}, {}, {}))
             = [heading |-> "scrape_degraded", lines |-> Silent]
<1> DEFINE a == FromProto(PendingAlert(Alert(key, NoMoney, {}, {}, {})))
<1>1. "scrape_degraded" \in AlertKinds
  BY DEF AlertKinds
<1>2. a.kind = "scrape_degraded"
  BY <1>1, KindKnown DEF FromProto, PendingAlert, Alert
<1> HIDE DEF a
<1>3. Lines(a) = Silent
  BY <1>2 DEF Lines
<1>4. Render(a) = [heading |-> "scrape_degraded", lines |-> Silent]
  BY <1>1, <1>2, <1>3 DEF Render
<1> QED
  BY <1>4 DEF Message, a

\* A failure tells what it raises, with no lines.
LEMMA FailureReport ==
    ASSUME TypeOK, [Next]_vars, NEW i \in Items, item'[i].streak > item[i].streak
    PROVE  LET sent == RaisedByFailure(i)
           IN  /\ {a.dedup_key : a \in ToSet(sent)} = Raised(i)
               /\ \A a \in ToSet(sent) :
                     Message(a) = [heading |-> "scrape_degraded", lines |-> Silent]
<1>1. RecordFailure(i)
  <2>1. item[i].streak \in Nat /\ item'[i].streak # item[i].streak /\ item'[i].streak # 0
    BY DEF TypeOK, Row
  <2>2. PICK j \in Items : RecordFailure(j)
    <3>1. \A j \in Items, t \in Targets, d \in Intervals :
             CreateItem(j, t, d) => item'[i].streak = item[i].streak
      BY DEF CreateItem, TypeOK, Row
    <3>2. \A j \in Items, t \in Targets, d \in Intervals, named, active \in BOOLEAN :
             UpdateItem(j, t, d, named, active) => item'[i].streak = item[i].streak
      BY DEF UpdateItem, TypeOK, Row
    <3>3. \A j \in Items, o \in Observation :
             RecordSnapshot(j, o) => item'[i].streak \in {0, item[i].streak}
      BY DEF RecordSnapshot, TypeOK, Row
    <3>4. \A batch : ClaimDueItems(batch) => item'[i].streak = item[i].streak
      BY DEF ClaimDueItems, TypeOK, Row
    <3>5. Tick => item'[i].streak = item[i].streak
      BY DEF Tick, TypeOK, Row
    <3>6. \A j \in Items : DeleteItem(j) => item'[i].streak = item[i].streak
      BY DEF DeleteItem
    <3>7. UNCHANGED vars => item'[i].streak = item[i].streak
      BY DEF vars
    <3> QED
      BY <2>1, <3>1, <3>2, <3>3, <3>4, <3>5, <3>6, <3>7 DEF Next
  <2>3. j = i
    BY <2>1, <2>2 DEF RecordFailure, TypeOK, Row
  <2> QED
    BY <2>2, <2>3
<1> DEFINE streak == item[i].streak + 1
           key == PlainKey("scrape_degraded", streak)
           keys == DecideFailureAlert(streak, FailureStreakThreshold)
           payloads == {Alert(k, NoMoney, {}, {}, {}) : k \in keys}
           all == SetToSeq(payloads)
           rows == alerts[i]
           sent == PersistAlerts(all, rows)
<1>2. item'[i].streak = streak /\ alerts'[i] = alerts[i] \cup keys
  BY <1>1 DEF RecordFailure, TypeOK, Row
<1>3. Raised(i) = keys \ alerts[i]
  BY <1>2 DEF Raised
<1>4. RaisedByFailure(i) = sent
  BY <1>2 DEF RaisedByFailure, DecidedFailure
<1>5. \A k \in keys : k = key
  BY DEF DecideFailureAlert
<1>6. key.kind = "scrape_degraded"
  BY DEF PlainKey
<1> HIDE DEF key, keys, rows
<1>7. /\ \A x, y \in payloads : x = y
      /\ \A a \in payloads : a.dedup_key \in keys
      /\ \A k \in keys : \E a \in payloads : a.dedup_key = k
  <2>1. \A k : Alert(k, NoMoney, {}, {}, {}).dedup_key = k
    BY DEF Alert
  <2> QED
    BY <1>5, <2>1
<1>8. \A a \in payloads : Message(a) = [heading |-> "scrape_degraded", lines |-> Silent]
  BY <1>5, <1>6, FailureMessage
<1> HIDE DEF payloads
<1>9. /\ all = <<>> <=> payloads = {}
      /\ \A x \in payloads : all = <<x>>
  BY <1>7, SeqOfOption
<1> HIDE DEF all
<1>10. all \in Seq(payloads)
  <2>1. CASE payloads = {}
    BY <1>9, <2>1
  <2>2. CASE payloads # {}
    <3>1. PICK x \in payloads : all = <<x>>
      BY <1>9, <2>2
    <3> QED
      BY <3>1
  <2> QED
    BY <2>1, <2>2
<1>11. Len(all) <= 1 /\ Len(all) \in Nat /\ \A x \in payloads : Len(all) = 1 /\ all[1] = x
  <2>1. CASE payloads = {}
    BY <1>9, <2>1
  <2>2. CASE payloads # {}
    <3>1. PICK x \in payloads : all = <<x>>
      BY <1>9, <2>2
    <3> QED
      BY <1>7, <3>1
  <2> QED
    BY <2>1, <2>2
<1>12. \A n, m \in 1 .. Len(all) : all[n].dedup_key = all[m].dedup_key => n = m
  BY <1>11
<1>13. {all[n].dedup_key : n \in 1 .. Len(all)} = keys
  <2>1. \A n \in 1 .. Len(all) : all[n] \in payloads
    BY <1>10
  <2>2. \A k \in keys : \E n \in 1 .. Len(all) : all[n].dedup_key = k
    BY <1>7, <1>11
  <2> QED
    BY <1>7, <2>1, <2>2
<1> DEFINE kept == {all[n].dedup_key : n \in 1 .. Len(all)}
<1>14. /\ {a.dedup_key : a \in ToSet(sent)} = kept \ rows
       /\ Len(sent) = Cardinality(kept \ rows)
       /\ \A n \in DOMAIN sent : \E k \in 1 .. Len(all) :
             sent[n] = all[k] /\ (n > 1 => k > 1)
       /\ Len(sent) \in Nat /\ DOMAIN sent = 1 .. Len(sent)
  BY <1>10, <1>12, PersistFacts
<1> HIDE DEF sent
<1>15. \A a \in ToSet(sent) : Message(a) = [heading |-> "scrape_degraded", lines |-> Silent]
  <2>1. \A n \in DOMAIN sent : sent[n] \in payloads
    BY <1>10, <1>14
  <2> QED
    BY <1>8, <2>1 DEF ToSet
<1>16. {a.dedup_key : a \in ToSet(sent)} = Raised(i)
  BY <1>3, <1>13, <1>14 DEF rows
<1> QED
  BY <1>4, <1>15, <1>16

\* alert.go:29: the messages of a report are made of nothing but core's replies, and the
\* user is told of every row that a transaction inserted, once each, stock first, and of
\* no amount that the history does not bear out.
THEOREM MessagesAlwaysTrue == Spec => MessagesTrue
<1> DEFINE Fine == \A i \in Items :
        /\ \A s \in Recorded(i) :
              LET sent == RaisedBySnapshot(i, s)
              IN  /\ {a.dedup_key : a \in ToSet(sent)} = Raised(i)
                  /\ Len(sent) = Cardinality(Raised(i))
                  /\ Ordered(sent)
                  /\ \A a \in ToSet(sent) : True(i, s, a)
        /\ item'[i].streak > item[i].streak =>
              LET sent == RaisedByFailure(i)
              IN  /\ {a.dedup_key : a \in ToSet(sent)} = Raised(i)
                  /\ \A a \in ToSet(sent) :
                        Message(a) = [heading |-> "scrape_degraded", lines |-> Silent]
<1>1. TypeOK /\ StampsApart /\ [Next]_vars => [Fine]_vars
  BY SnapshotReport, FailureReport, Zenon
<1>2. Spec => []StampsApart
  BY StampsInit, StampsStep, TypeCorrect, PTL DEF Spec
<1> QED
  BY <1>1, <1>2, TypeCorrect, PTL DEF Spec, MessagesTrue

-----------------------------------------------------------------------------
\* Histories in the order of time.

\* Finitely many snapshots, of different times.
Timed(S) == /\ IsFiniteSet(S)
            /\ \A s \in S : s.at \in Nat
            /\ \A s, t \in S : s.at = t.at => s = t
Before(s, S) == {t \in S : t.at < s.at}

\* h has the snapshots of S, oldest first.
Lists(h, S) ==
    /\ h \in Seq(S) /\ Len(h) = Cardinality(S)
    /\ \A j, k \in 1 .. Len(h) : j < k => h[j].at < h[k].at
    /\ \A s \in S : \E k \in 1 .. Len(h) : h[k] = s

\* Of snapshots there is a first, and a last.
LEMMA EndsExist ==
    ASSUME NEW S, Timed(S), NEW T \in SUBSET S, T # {}
    PROVE  /\ \E s \in T : \A t \in T : s.at <= t.at
           /\ \E s \in T : \A t \in T : t.at <= s.at
<1> DEFINE A == {t.at : t \in T}
           f == [t \in T |-> t.at]
<1>1. A \in SUBSET Int /\ A # {} /\ f \in Surjection(T, A)
  BY DEF Timed, Surjection
<1>2. \A a \in A : \E t \in T : a = t.at
  OBVIOUS
<1>3. \A t \in T : t.at \in A
  OBVIOUS
<1> HIDE DEF A, f
<1>4. IsFiniteSet(A)
  BY <1>1, FS_Subset, FS_Surjection DEF Timed
<1>5. /\ Min(A) \in A /\ \A y \in A : Min(A) <= y
      /\ Max(A) \in A /\ \A y \in A : y <= Max(A)
  BY <1>1, <1>4, EndsOfInts
<1> QED
  BY <1>2, <1>3, <1>5

\* The number of earlier snapshots grows with time.
LEMMA RankFacts ==
    ASSUME NEW S, Timed(S)
    PROVE  /\ \A s \in S : Cardinality(Before(s, S)) \in 0 .. Cardinality(S) - 1
           /\ \A s, t \in S : s.at < t.at => Cardinality(Before(s, S)) < Cardinality(Before(t, S))
<1>1. \A s \in S : Before(s, S) \in SUBSET S /\ s \notin Before(s, S) /\ s.at \in Nat
  BY DEF Before, Timed
<1>2. IsFiniteSet(S)
  BY DEF Timed
<1>3. \A T \in SUBSET S : IsFiniteSet(T) /\ Cardinality(T) \in Nat
  BY <1>2, FS_Subset, FS_CardinalityType
<1>4. ASSUME NEW T \in SUBSET S, NEW U \in SUBSET S, NEW x \in U, x \notin T, T \subseteq U
      PROVE  Cardinality(T) < Cardinality(U)
  <2>1. Cardinality(T) <= Cardinality(U) /\ (Cardinality(U) = Cardinality(T) => U = T)
    BY <1>3, <1>4, FS_Subset
  <2> QED
    BY <1>3, <1>4, <2>1
<1>5. ASSUME NEW s \in S, NEW t \in S, s.at < t.at
      PROVE  Cardinality(Before(s, S)) < Cardinality(Before(t, S))
  <2>1. s \in Before(t, S) /\ Before(s, S) \subseteq Before(t, S)
    BY <1>1, <1>5 DEF Before, Timed
  <2> QED
    BY <1>1, <1>4, <2>1
<1>6. ASSUME NEW s \in S PROVE Cardinality(Before(s, S)) < Cardinality(S)
  BY <1>1, <1>4, S \in SUBSET S
<1> QED
  BY <1>1, <1>3, <1>5, <1>6

\* Each place in the order of time is taken,
LEMMA RankTaken ==
    ASSUME NEW S, Timed(S)
    PROVE  \A n \in 1 .. Cardinality(S) : \E s \in S : Cardinality(Before(s, S)) = n - 1
<1> DEFINE c == Cardinality(S)
           P == {k \in 0 .. c : \A n \in 1 .. k : \E s \in S : Cardinality(Before(s, S)) = n - 1}
<1>1. IsFiniteSet(S) /\ c \in Nat
  BY FS_CardinalityType DEF Timed
<1>2. 0 \in P
  BY <1>1
<1>3. ASSUME NEW k \in 0 .. c, k \in P, k < c PROVE k + 1 \in P
  <2>1. PICK T \in SUBSET S : /\ Cardinality(T) = k
                              /\ \A t \in T, s \in S : s.at <= t.at => s \in T
    <3>1. CASE k = 0
      BY <3>1, FS_EmptySet
    <3>2. CASE k # 0
      <4>1. PICK s \in S : Cardinality(Before(s, S)) = k - 1
        BY <1>3, <3>2, k \in 1 .. k
      <4> DEFINE T == Before(s, S) \cup {s}
      <4>2. Before(s, S) \in SUBSET S /\ s \notin Before(s, S)
        BY DEF Before, Timed
      <4>3. IsFiniteSet(Before(s, S))
        BY <1>1, <4>2, FS_Subset
      <4>4. Cardinality(T) = k
        BY <4>1, <4>2, <4>3, FS_AddElement
      <4>5. \A t \in T, u \in S : u.at <= t.at => u \in T
        BY DEF Before, Timed
      <4> HIDE DEF T
      <4>6. T \in SUBSET S
        BY <4>2 DEF T
      <4> QED
        BY <4>4, <4>5, <4>6
    <3> QED
      BY <3>1, <3>2
  <2>2. S \ T # {}
    <3>1. S \ T = {} => S = T
      OBVIOUS
    <3> QED
      BY <1>3, <2>1, <3>1
  <2>3. PICK s \in S \ T : \A t \in S \ T : s.at <= t.at
    BY <2>2, EndsExist, S \ T \in SUBSET S
  <2>4. Before(s, S) = T
    BY <2>1, <2>3 DEF Before, Timed
  <2>5. \A n \in 1 .. k + 1 : n \in 1 .. k \/ n - 1 = k
    BY <1>3
  <2>6. \A n \in 1 .. k : \E u \in S : Cardinality(Before(u, S)) = n - 1
    BY <1>3
  <2>7. \A n \in 1 .. k + 1 : \E u \in S : Cardinality(Before(u, S)) = n - 1
    BY <2>1, <2>4, <2>5, <2>6
  <2>8. k + 1 \in 0 .. c
    BY <1>1, <1>3
  <2> HIDE DEF c
  <2> QED
    BY <2>7, <2>8
<1>4. c \in P
  <2>1. 0 .. c \subseteq P
    <3> HIDE DEF P, c
    <3> QED
      BY <1>1, <1>2, <1>3, Upwards
  <2> QED
    BY <1>1, <2>1
<1> QED
  BY <1>4

\* so the snapshots stand in the order of time.
LEMMA OldestFirstLists ==
    ASSUME NEW S, Timed(S)
    PROVE  Lists(OldestFirst(S), S)
<1> DEFINE c == Cardinality(S)
           h == OldestFirst(S)
<1>1. IsFiniteSet(S) /\ c \in Nat
  BY FS_CardinalityType DEF Timed
<1>2. h = [n \in 1 .. c |-> CHOOSE s \in S : Cardinality(Before(s, S)) = n - 1]
  BY DEF OldestFirst, Before
<1>3. \A n \in 1 .. c : h[n] \in S /\ Cardinality(Before(h[n], S)) = n - 1
  <2> HIDE DEF h
  <2> QED
    BY <1>2, RankTaken
<1>4. \A s \in S : Cardinality(Before(s, S)) \in 0 .. c - 1 /\ s.at \in Nat
  BY RankFacts DEF Timed
<1> HIDE DEF h
<1>5. h \in Seq(S) /\ Len(h) = c
  BY <1>1, <1>2, <1>3
<1>6. ASSUME NEW j \in 1 .. c, NEW k \in 1 .. c, j < k PROVE h[j].at < h[k].at
  <2>1. /\ Cardinality(Before(h[j], S)) < Cardinality(Before(h[k], S))
        /\ Cardinality(Before(h[j], S)) \in Nat /\ Cardinality(Before(h[k], S)) \in Nat
    BY <1>3, <1>6
  <2>2. ~(h[k].at < h[j].at)
    BY <1>3, <2>1, RankFacts
  <2>3. h[j].at # h[k].at
    BY <1>3, <2>1 DEF Timed
  <2> QED
    BY <1>3, <1>4, <2>2, <2>3
<1>7. ASSUME NEW s \in S PROVE \E k \in 1 .. c : h[k] = s
  <2> DEFINE k == Cardinality(Before(s, S)) + 1
  <2>1. k \in 1 .. c /\ k - 1 = Cardinality(Before(s, S))
    BY <1>1, <1>4
  <2> HIDE DEF k
  <2>2. h[k] \in S /\ Cardinality(Before(h[k], S)) = Cardinality(Before(s, S))
    BY <1>3, <2>1
  <2>3. ~(h[k].at < s.at) /\ ~(s.at < h[k].at)
    BY <1>4, <2>2, RankFacts
  <2>4. h[k] = s
    BY <1>4, <2>2, <2>3 DEF Timed
  <2> QED
    BY <2>1, <2>4
<1> QED
  <2>1. Lists(h, S)
    BY <1>5, <1>6, <1>7 DEF Lists
  <2> QED
    BY <2>1 DEF h

\* What of an ordered history is in a set, in the same order.
LEMMA OnlyLists ==
    ASSUME NEW S, Timed(S), NEW h, Lists(h, S), NEW T
    PROVE  Lists(Only(h, T), S \cap T)
<1> DEFINE n == Len(h)
           U == S \cap T
<1>1. n \in Nat /\ h \in Seq(S) /\ \A k \in 1 .. n : h[k] \in S
  BY DEF Lists
<1>2. PICK m \in Nat : \E I : Picks(I, m, n, h, T) /\ Only(h, T) = [a \in 1 .. m |-> h[I[a]]]
  BY <1>1, OnlyFacts
<1>3. PICK I : Picks(I, m, n, h, T) /\ Only(h, T) = [a \in 1 .. m |-> h[I[a]]]
  BY <1>2, Zenon
<1> DEFINE u == [a \in 1 .. m |-> h[I[a]]]
<1> HIDE DEF n
<1>4. \A a \in 1 .. m : I[a] \in 1 .. n /\ u[a] = h[I[a]] /\ u[a] \in U
  BY <1>1, <1>3 DEF Picks
<1>5. u \in Seq(U) /\ Len(u) = m
  BY <1>4
<1>6. \A a, b \in 1 .. m : a < b => u[a].at < u[b].at
  BY <1>3, <1>4 DEF Picks, Lists, n
<1>7. ASSUME NEW s \in U PROVE \E a \in 1 .. m : u[a] = s
  <2>1. PICK k \in 1 .. n : h[k] = s
    BY DEF Lists, n
  <2>2. PICK a \in 1 .. m : I[a] = k
    BY <1>3, <2>1 DEF Picks
  <2> QED
    BY <1>4, <2>1, <2>2
<1> HIDE DEF u
<1>8. \A a, b \in 1 .. m : u[a] = u[b] => a = b
  <2>1. \A a, b \in 1 .. m : a < b \/ b < a \/ a = b
    OBVIOUS
  <2>2. \A a, b \in 1 .. m : a < b => u[a] # u[b]
    <3> SUFFICES ASSUME NEW a \in 1 .. m, NEW b \in 1 .. m, a < b, u[a] = u[b] PROVE FALSE
      OBVIOUS
    <3>1. u[a].at < u[a].at /\ u[a].at \in Nat
      BY <1>4, <1>6 DEF Timed
    <3> QED
      BY <3>1
  <2> QED
    BY <2>1, <2>2
<1>9. Cardinality(U) = m
  <2>1. u \in Bijection(1 .. m, U)
    <3> HIDE DEF U
    <3>1. u \in [1 .. m -> U]
      BY <1>5
    <3> QED
      BY <3>1, <1>7, <1>8 DEF Bijection, Injection, Surjection, IsInjective
  <2> QED
    BY <2>1, FS_CountingElements, Zenon DEF ExistsBijection
<1>10. Only(h, T) = u
  BY <1>3 DEF u
<1> HIDE DEF U
<1>11. Lists(u, U)
  BY <1>5, <1>6, <1>7, <1>9 DEF Lists
<1> QED
  BY <1>10, <1>11 DEF U

\* A list of snapshots starts with the oldest and ends with the newest.
LEMMA ListEnds ==
    ASSUME NEW S, Timed(S), NEW q, Lists(q, S), S # {}
    PROVE  /\ Len(q) \in Nat \ {0} /\ q \in Seq(S) /\ q # <<>>
           /\ \A k \in 1 .. Len(q) : q[k] \in S
           /\ \A s \in S : (\A t \in S : s.at <= t.at) => q[1] = s
           /\ \A s \in S : (\A t \in S : t.at <= s.at) => q[Len(q)] = s
<1> DEFINE n == Len(q)
<1>1. q \in Seq(S) /\ n \in Nat \ {0} /\ q # <<>> /\ \A k \in 1 .. n : q[k] \in S
  BY DEF Lists
<1>2. \A s \in S : s.at \in Nat /\ \E k \in 1 .. n : q[k] = s
  BY DEF Lists, Timed
<1>3. \A j, k \in 1 .. n : j < k => q[j].at < q[k].at
  BY DEF Lists
<1> HIDE DEF n
<1>4. ASSUME NEW s \in S, \A t \in S : s.at <= t.at PROVE q[1] = s
  <2>1. PICK k \in 1 .. n : q[k] = s
    BY <1>2
  <2>2. ~(1 < k)
    <3>1. 1 < k => q[1].at < s.at
      BY <1>1, <1>3, <2>1
    <3>2. s.at <= q[1].at /\ q[1].at \in Nat /\ s.at \in Nat
      BY <1>1, <1>2, <1>4
    <3> QED
      BY <3>1, <3>2
  <2> QED
    BY <2>1, <2>2
<1>5. ASSUME NEW s \in S, \A t \in S : t.at <= s.at PROVE q[n] = s
  <2>1. PICK k \in 1 .. n : q[k] = s
    BY <1>2
  <2>2. ~(k < n)
    <3>1. k < n => s.at < q[n].at
      BY <1>1, <1>3, <2>1
    <3>2. q[n].at <= s.at /\ q[n].at \in Nat /\ s.at \in Nat
      BY <1>1, <1>2, <1>5
    <3> QED
      BY <3>1, <3>2
  <2> QED
    BY <1>1, <2>1, <2>2
<1> QED
  BY <1>1, <1>4, <1>5 DEF n

\* A part of the history is in order, too.
LEMMA PartTimed ==
    ASSUME NEW S, Timed(S), NEW T \in SUBSET S
    PROVE  Timed(T)
BY FS_Subset DEF Timed

-----------------------------------------------------------------------------
\* The running values of aggregateStats.

\* The cheapest price of a sequence, as the memory store finds it.
LEMMA LowestFold ==
    ASSUME NEW E, NEW q \in Seq(E), q # <<>>,
           \A k \in 1 .. Len(q) : q[k].price.amount \in Nat
    PROVE  LET m == Lowest(q)
           IN  \E k \in 1 .. Len(q) : /\ m = q[k].price
                                      /\ \A j \in 1 .. Len(q) : m.amount <= q[j].price.amount
<1> DEFINE n == Len(q)
           C == {q[k].price : k \in 1 .. n}
           base == q[1].price
           Step(c, x) == IF x.price.amount < c.amount THEN x.price ELSE c
           Eq(g) == g = [t \in SUBSET (1 .. n) |->
                            IF t = {} THEN base ELSE Step(g[t \ {Max(t)}], q[Max(t)])]
           G == CHOOSE g : Eq(g)
           op == [k \in 1 .. n |-> [c \in C |-> Step(c, q[k])]]
<1>1. Lowest(q) = G[1 .. n]
  <2>1. DOMAIN q = 1 .. n /\ base = Head(q).price
    OBVIOUS
  <2> QED
    BY <2>1 DEF Lowest, FoldLeft, MapThenFoldSet
<1>2. n \in Nat /\ base \in C /\ \A k \in 1 .. n, c \in C : Step(c, q[k]) \in C
  OBVIOUS
<1>3. \A k \in 1 .. n, c \in C : op[k][c] = Step(c, q[k])
  OBVIOUS
<1> HIDE DEF op, n, C, base, Step
<1>4. StaysIn(op, n, C)
  BY <1>2, <1>3 DEF StaysIn
<1>5. ASSUME NEW g, NEW t \in SUBSET (1 .. n), t # {}, g[t \ {Max(t)}] \in C
      PROVE  op[Max(t)][g[t \ {Max(t)}]] = Step(g[t \ {Max(t)}], q[Max(t)])
  <2>1. Max(t) \in 1 .. n
    BY <1>2, <1>5, MaxOfNats
  <2> QED
    BY <1>3, <1>5, <2>1
<1>6. Eq(G)
  <2>1. PICK g \in [SUBSET (1 .. n) -> C] : IsFold(g, n, base, op)
    BY <1>2, <1>4, FoldExists
  <2>2. \A t \in SUBSET (1 .. n) : g[t \ {Max(t)}] \in C
    BY \A t \in SUBSET (1 .. n) : t \ {Max(t)} \in SUBSET (1 .. n)
  <2>3. Eq(g)
    BY <1>5, <2>1, <2>2 DEF IsFold
  <2> HIDE DEF Eq
  <2> QED
    BY <2>3
<1> HIDE DEF G
<1>7. /\ G[{}] = base
      /\ \A t \in SUBSET (1 .. n) : t # {} => G[t] = Step(G[t \ {Max(t)}], q[Max(t)])
  BY <1>6, {} \in SUBSET (1 .. n)
<1> HIDE DEF Eq
<1>8. PICK h : Runs(h, n, C, base, op) /\ h[n] = G[1 .. n]
  <2>1. \A t \in SUBSET (1 .. n) :
           t # {} /\ G[t \ {Max(t)}] \in C => G[t] = op[Max(t)][G[t \ {Max(t)}]]
    BY <1>5, <1>7
  <2>2. G[{}] = base
    BY <1>7
  <2>3. Unfolds(G, n, C, base, op)
    BY <2>1, <2>2, Zenon DEF Unfolds
  <2> QED
    BY <1>2, <1>4, <2>3, FoldRuns
<1>9. /\ \A k \in 0 .. n : h[k] \in C
      /\ h[0] = base
      /\ \A k \in 1 .. n : k - 1 \in 0 .. n /\ h[k] = Step(h[k - 1], q[k])
  BY <1>3, <1>8 DEF Runs
<1> DEFINE P == {k \in 0 .. n : \A j \in 1 .. k : h[k].amount <= q[j].price.amount}
<1>10. 0 \in P
  BY <1>2
<1>11. ASSUME NEW k \in 0 .. n, k \in P, k < n PROVE k + 1 \in P
  <2>1. k + 1 \in 1 .. n /\ k + 1 \in 0 .. n /\ (k + 1) - 1 = k
    BY <1>2, <1>11
  <2>2. h[k + 1] = Step(h[k], q[k + 1])
    BY <1>9, <2>1
  <2>3. h[k] \in C /\ h[k + 1] \in C
    BY <1>9, <1>11, <2>1
  <2>4. /\ h[k].amount \in Nat /\ h[k + 1].amount \in Nat
        /\ \A j \in 1 .. k + 1 : q[j].price.amount \in Nat /\ (j = k + 1 \/ j \in 1 .. k)
    BY <1>2, <1>11, <2>3 DEF C, n
  <2>5. /\ h[k + 1].amount <= h[k].amount
        /\ h[k + 1].amount <= q[k + 1].price.amount
    BY <2>2, <2>4 DEF Step
  <2>6. \A j \in 1 .. k : h[k].amount <= q[j].price.amount
    BY <1>11
  <2>7. \A j \in 1 .. k + 1 : h[k + 1].amount <= q[j].price.amount
    BY <2>4, <2>5, <2>6
  <2> QED
    BY <2>1, <2>7
<1>12. n \in P
  <2>1. 0 .. n \subseteq P
    <3> HIDE DEF P
    <3> QED
      BY <1>2, <1>10, <1>11, Upwards
  <2> QED
    BY <1>2, <2>1
<1>13. h[n] \in C
  BY <1>2, <1>9
<1> QED
  BY <1>1, <1>8, <1>12, <1>13 DEF n, C, base, Step

\* The dearest.
LEMMA HighestFold ==
    ASSUME NEW E, NEW q \in Seq(E), q # <<>>,
           \A k \in 1 .. Len(q) : q[k].price.amount \in Nat
    PROVE  LET m == Highest(q)
           IN  \E k \in 1 .. Len(q) : /\ m = q[k].price
                                      /\ \A j \in 1 .. Len(q) : m.amount >= q[j].price.amount
<1> DEFINE n == Len(q)
           C == {q[k].price : k \in 1 .. n}
           base == q[1].price
           Step(c, x) == IF x.price.amount > c.amount THEN x.price ELSE c
           Eq(g) == g = [t \in SUBSET (1 .. n) |->
                            IF t = {} THEN base ELSE Step(g[t \ {Max(t)}], q[Max(t)])]
           G == CHOOSE g : Eq(g)
           op == [k \in 1 .. n |-> [c \in C |-> Step(c, q[k])]]
<1>1. Highest(q) = G[1 .. n]
  <2>1. DOMAIN q = 1 .. n /\ base = Head(q).price
    OBVIOUS
  <2> QED
    BY <2>1 DEF Highest, FoldLeft, MapThenFoldSet
<1>2. n \in Nat /\ base \in C /\ \A k \in 1 .. n, c \in C : Step(c, q[k]) \in C
  OBVIOUS
<1>3. \A k \in 1 .. n, c \in C : op[k][c] = Step(c, q[k])
  OBVIOUS
<1> HIDE DEF op, n, C, base, Step
<1>4. StaysIn(op, n, C)
  BY <1>2, <1>3 DEF StaysIn
<1>5. ASSUME NEW g, NEW t \in SUBSET (1 .. n), t # {}, g[t \ {Max(t)}] \in C
      PROVE  op[Max(t)][g[t \ {Max(t)}]] = Step(g[t \ {Max(t)}], q[Max(t)])
  <2>1. Max(t) \in 1 .. n
    BY <1>2, <1>5, MaxOfNats
  <2> QED
    BY <1>3, <1>5, <2>1
<1>6. Eq(G)
  <2>1. PICK g \in [SUBSET (1 .. n) -> C] : IsFold(g, n, base, op)
    BY <1>2, <1>4, FoldExists
  <2>2. \A t \in SUBSET (1 .. n) : g[t \ {Max(t)}] \in C
    BY \A t \in SUBSET (1 .. n) : t \ {Max(t)} \in SUBSET (1 .. n)
  <2>3. Eq(g)
    BY <1>5, <2>1, <2>2 DEF IsFold
  <2> HIDE DEF Eq
  <2> QED
    BY <2>3
<1> HIDE DEF G
<1>7. /\ G[{}] = base
      /\ \A t \in SUBSET (1 .. n) : t # {} => G[t] = Step(G[t \ {Max(t)}], q[Max(t)])
  BY <1>6, {} \in SUBSET (1 .. n)
<1> HIDE DEF Eq
<1>8. PICK h : Runs(h, n, C, base, op) /\ h[n] = G[1 .. n]
  <2>1. \A t \in SUBSET (1 .. n) :
           t # {} /\ G[t \ {Max(t)}] \in C => G[t] = op[Max(t)][G[t \ {Max(t)}]]
    BY <1>5, <1>7
  <2>2. G[{}] = base
    BY <1>7
  <2>3. Unfolds(G, n, C, base, op)
    BY <2>1, <2>2, Zenon DEF Unfolds
  <2> QED
    BY <1>2, <1>4, <2>3, FoldRuns
<1>9. /\ \A k \in 0 .. n : h[k] \in C
      /\ h[0] = base
      /\ \A k \in 1 .. n : k - 1 \in 0 .. n /\ h[k] = Step(h[k - 1], q[k])
  BY <1>3, <1>8 DEF Runs
<1> DEFINE P == {k \in 0 .. n : \A j \in 1 .. k : h[k].amount >= q[j].price.amount}
<1>10. 0 \in P
  BY <1>2
<1>11. ASSUME NEW k \in 0 .. n, k \in P, k < n PROVE k + 1 \in P
  <2>1. k + 1 \in 1 .. n /\ k + 1 \in 0 .. n /\ (k + 1) - 1 = k
    BY <1>2, <1>11
  <2>2. h[k + 1] = Step(h[k], q[k + 1])
    BY <1>9, <2>1
  <2>3. h[k] \in C /\ h[k + 1] \in C
    BY <1>9, <1>11, <2>1
  <2>4. /\ h[k].amount \in Nat /\ h[k + 1].amount \in Nat
        /\ \A j \in 1 .. k + 1 : q[j].price.amount \in Nat /\ (j = k + 1 \/ j \in 1 .. k)
    BY <1>2, <1>11, <2>3 DEF C, n
  <2>5. /\ h[k + 1].amount >= h[k].amount
        /\ h[k + 1].amount >= q[k + 1].price.amount
    BY <2>2, <2>4 DEF Step
  <2>6. \A j \in 1 .. k : h[k].amount >= q[j].price.amount
    BY <1>11
  <2>7. \A j \in 1 .. k + 1 : h[k + 1].amount >= q[j].price.amount
    BY <2>4, <2>5, <2>6
  <2> QED
    BY <2>1, <2>7
<1>12. n \in P
  <2>1. 0 .. n \subseteq P
    <3> HIDE DEF P
    <3> QED
      BY <1>2, <1>10, <1>11, Upwards
  <2> QED
    BY <1>2, <2>1
<1>13. h[n] \in C
  BY <1>2, <1>9
<1> QED
  BY <1>1, <1>8, <1>12, <1>13 DEF n, C, base, Step

\* h has the sums of a sequence's prefixes.
AddsUp(h, q) ==
    /\ \A k \in 0 .. Len(q) : h[k] \in Int
    /\ h[0] = 0
    /\ \A k \in 1 .. Len(q) : h[k] = h[k - 1] + q[k].price.amount
    /\ h[Len(q)] = SumOf(q)

\* The amounts of a sequence, added up from the first.
LEMMA SumFold ==
    ASSUME NEW E, NEW q \in Seq(E), q # <<>>,
           \A k \in 1 .. Len(q) : q[k].price.amount \in Nat
    PROVE  \E h : AddsUp(h, q)
<1> DEFINE n == Len(q)
           C == Int
           base == 0
           Step(c, x) == c + x.price.amount
           Eq(g) == g = [t \in SUBSET (1 .. n) |->
                            IF t = {} THEN base ELSE Step(g[t \ {Max(t)}], q[Max(t)])]
           G == CHOOSE g : Eq(g)
           op == [k \in 1 .. n |-> [c \in C |-> Step(c, q[k])]]
<1>1. SumOf(q) = G[1 .. n]
  <2>1. DOMAIN q = 1 .. n
    OBVIOUS
  <2> QED
    BY <2>1 DEF SumOf, FoldLeft, MapThenFoldSet
<1>2. n \in Nat /\ base \in C /\ \A k \in 1 .. n, c \in C : Step(c, q[k]) \in C
  OBVIOUS
<1>3. \A k \in 1 .. n, c \in C : op[k][c] = Step(c, q[k])
  OBVIOUS
<1> HIDE DEF op, n, C, base, Step
<1>4. StaysIn(op, n, C)
  BY <1>2, <1>3 DEF StaysIn
<1>5. ASSUME NEW g, NEW t \in SUBSET (1 .. n), t # {}, g[t \ {Max(t)}] \in C
      PROVE  op[Max(t)][g[t \ {Max(t)}]] = Step(g[t \ {Max(t)}], q[Max(t)])
  <2>1. Max(t) \in 1 .. n
    BY <1>2, <1>5, MaxOfNats
  <2> QED
    BY <1>3, <1>5, <2>1
<1>6. Eq(G)
  <2>1. PICK g \in [SUBSET (1 .. n) -> C] : IsFold(g, n, base, op)
    BY <1>2, <1>4, FoldExists
  <2>2. \A t \in SUBSET (1 .. n) : g[t \ {Max(t)}] \in C
    BY \A t \in SUBSET (1 .. n) : t \ {Max(t)} \in SUBSET (1 .. n)
  <2>3. Eq(g)
    BY <1>5, <2>1, <2>2 DEF IsFold
  <2> HIDE DEF Eq
  <2> QED
    BY <2>3
<1> HIDE DEF G
<1>7. /\ G[{}] = base
      /\ \A t \in SUBSET (1 .. n) : t # {} => G[t] = Step(G[t \ {Max(t)}], q[Max(t)])
  BY <1>6, {} \in SUBSET (1 .. n)
<1> HIDE DEF Eq
<1>8. PICK h : Runs(h, n, C, base, op) /\ h[n] = G[1 .. n]
  <2>1. \A t \in SUBSET (1 .. n) :
           t # {} /\ G[t \ {Max(t)}] \in C => G[t] = op[Max(t)][G[t \ {Max(t)}]]
    BY <1>5, <1>7
  <2>2. G[{}] = base
    BY <1>7
  <2>3. Unfolds(G, n, C, base, op)
    BY <2>1, <2>2, Zenon DEF Unfolds
  <2> QED
    BY <1>2, <1>4, <2>3, FoldRuns
<1>9. /\ \A k \in 0 .. n : h[k] \in C
      /\ h[0] = base
      /\ \A k \in 1 .. n : k - 1 \in 0 .. n /\ h[k] = Step(h[k - 1], q[k])
  BY <1>3, <1>8 DEF Runs
<1> QED
  BY <1>1, <1>8, <1>9 DEF AddsUp, n, C, base, Step

-----------------------------------------------------------------------------
\* Statistics of a window.

\* Prices in minor units.
Priced(S) == \A s \in S : s.price.amount \in Nat

\* The total of some snapshots is a sum of their amounts.
LEMMA TotalSums ==
    ASSUME NEW S, IsFiniteSet(S), \A s \in S : s.price.amount \in Nat
    PROVE  \E g : Sums(g, [s \in S |-> s.price.amount], S) /\ Total(S) = g[S]
<1> DEFINE f == [s \in S |-> s.price.amount]
           Eq(g) == g = [t \in SUBSET S |->
                            IF t = {} THEN 0 ELSE Pick(t).price.amount + g[t \ {Pick(t)}]]
           G == CHOOSE g : Eq(g)
<1>1. Total(S) = G[S]
  BY DEF Total, MapThenSumSet, MapThenFoldSet, Pick
<1>2. \A t \in SUBSET S : t # {} => Pick(t) \in S /\ f[Pick(t)] = Pick(t).price.amount
  BY DEF Pick
<1>3. f \in [S -> Int]
  OBVIOUS
<1> HIDE DEF f
<1>4. \A g : Adds(g, f, S) <=> Eq(g)
  <2> TAKE g
  <2>1. [t \in SUBSET S |-> IF t = {} THEN 0 ELSE f[Pick(t)] + g[t \ {Pick(t)}]]
          = [t \in SUBSET S |-> IF t = {} THEN 0 ELSE Pick(t).price.amount + g[t \ {Pick(t)}]]
    BY <1>2
  <2> QED
    BY <2>1 DEF Adds
<1>5. Eq(G)
  <2>1. \E g : Eq(g)
    BY <1>4, SumExists
  <2> HIDE DEF Eq
  <2> QED
    BY <2>1
<1>6. Sums(G, f, S)
  BY <1>3, <1>4, <1>5, SumAny
<1> HIDE DEF G
<1> QED
  BY <1>1, <1>6 DEF f

\* Adding up a list of snapshots gives their total.
LEMMA ListTotal ==
    ASSUME NEW S, Timed(S), \A s \in S : s.price.amount \in Nat, NEW q, Lists(q, S), S # {}
    PROVE  SumOf(q) = Total(S)
<1> DEFINE n == Len(q)
           upTo(k) == {q[j] : j \in 1 .. k}
<1>1. PICK g : Sums(g, [s \in S |-> s.price.amount], S) /\ Total(S) = g[S]
  BY TotalSums DEF Timed
<1>2. /\ n \in Nat \ {0} /\ DOMAIN q = 1 .. n
      /\ \A k \in 1 .. n : q[k] \in S /\ q[k].price.amount \in Nat
  BY DEF Lists
<1>3. PICK h : AddsUp(h, q)
  BY <1>2, SumFold DEF Lists
<1>4. \A j, k \in 1 .. n : q[j] = q[k] => j = k
  <2> SUFFICES ASSUME NEW j \in 1 .. n, NEW k \in 1 .. n, q[j] = q[k], j < k PROVE FALSE
    BY <1>2
  <2>1. q[j].at < q[k].at /\ q[j].at \in Nat
    BY <1>2 DEF Lists, Timed
  <2> QED
    BY <2>1
<1>5. upTo(n) = S /\ upTo(0) = {}
  BY <1>2 DEF Lists
<1> HIDE DEF n
<1> DEFINE P == {k \in 0 .. n : h[k] = g[upTo(k)]}
<1>6. 0 \in P
  <2>1. g[{}] = 0
    BY <1>1 DEF Sums
  <2> HIDE DEF upTo
  <2>2. h[0] = g[upTo(0)]
    BY <1>3, <1>5, <2>1, Zenon DEF AddsUp
  <2> QED
    BY <1>2, <2>2
<1>7. ASSUME NEW k \in 0 .. n, k \in P, k < n PROVE k + 1 \in P
  <2>1. k + 1 \in 1 .. n /\ k + 1 \in 0 .. n /\ (k + 1) - 1 = k /\ 1 .. k \subseteq 1 .. n
    BY <1>2, <1>7
  <2>2. upTo(k + 1) \in SUBSET S /\ q[k + 1] \in upTo(k + 1)
    BY <1>2, <2>1
  <2>3. upTo(k + 1) \ {q[k + 1]} = upTo(k)
    <3>1. \A j \in 1 .. k + 1 : j \in 1 .. n /\ (j = k + 1 \/ j \in 1 .. k)
      BY <2>1
    <3>2. \A j \in 1 .. k : j \in 1 .. k + 1 /\ j # k + 1 /\ q[j] # q[k + 1]
      BY <1>4, <2>1
    <3> QED
      BY <3>1, <3>2
  <2>4. g[upTo(k + 1)] = q[k + 1].price.amount + g[upTo(k)] /\ g[upTo(k + 1)] \in Int
    <3>1. [s \in S |-> s.price.amount][q[k + 1]] = q[k + 1].price.amount
      BY <1>2, <2>1
    <3> DEFINE f == [s \in S |-> s.price.amount]
    <3>2. Sums(g, f, S) /\ f[q[k + 1]] = q[k + 1].price.amount
      BY <1>1, <3>1
    <3> DEFINE t == upTo(k + 1)
    <3>3. t \in SUBSET S /\ q[k + 1] \in t /\ t \ {q[k + 1]} = upTo(k)
      BY <2>2, <2>3
    <3> HIDE DEF f, t
    <3>4. g[t] \in Int /\ g[t] = f[q[k + 1]] + g[t \ {q[k + 1]}]
      BY <3>2, <3>3, Zenon DEF Sums
    <3> QED
      BY <3>2, <3>3, <3>4, Zenon DEF t
  <2>5. h[k + 1] = h[k] + q[k + 1].price.amount /\ h[k] = g[upTo(k)] /\ h[k] \in Int
    BY <1>3, <1>7, <2>1 DEF AddsUp, n
  <2>6. q[k + 1].price.amount \in Int
    BY <1>2, <2>1
  <2> HIDE DEF upTo
  <2> QED
    BY <2>1, <2>4, <2>5, <2>6
<1>8. n \in P
  <2>1. 0 .. n \subseteq P
    <3> HIDE DEF P
    <3> QED
      BY <1>2, <1>6, <1>7, Upwards
  <2> QED
    BY <1>2, <2>1
<1> QED
  BY <1>1, <1>3, <1>5, <1>8 DEF AddsUp, n

\* The lowest and the highest amount of some snapshots.
LEMMA AmountEnds ==
    ASSUME NEW T, IsFiniteSet(T), T # {}, \A s \in T : s.price.amount \in Nat
    PROVE  /\ \E s \in T : Min(AmountsOf(T)) = s.price.amount
           /\ \E s \in T : Max(AmountsOf(T)) = s.price.amount
           /\ \A s \in T : /\ Min(AmountsOf(T)) <= s.price.amount
                           /\ s.price.amount <= Max(AmountsOf(T))
<1> DEFINE A == AmountsOf(T)
           f == [s \in T |-> s.price.amount]
<1>1. f \in Surjection(T, A)
  BY DEF Surjection, AmountsOf
<1>2. A \in SUBSET Int /\ A # {} /\ \A x \in A : \E s \in T : x = s.price.amount
  BY DEF AmountsOf
<1>3. \A s \in T : s.price.amount \in A
  BY DEF AmountsOf
<1> HIDE DEF A, f
<1>4. IsFiniteSet(A)
  BY <1>1, FS_Surjection
<1>5. /\ Min(A) \in A /\ \A y \in A : Min(A) <= y
      /\ Max(A) \in A /\ \A y \in A : y <= Max(A)
  BY <1>2, <1>4, EndsOfInts
<1> QED
  BY <1>2, <1>3, <1>5 DEF A

\* An average is between bounds on what it averages, and rounding it to the nearest
\* makes it one greater than truncating it at most.
LEMMA AverageFacts ==
    ASSUME NEW n \in Nat \ {0}, NEW sum \in Int, NEW lo \in Nat, NEW hi \in Nat,
           lo * n <= sum, sum <= hi * n
    PROVE  /\ Nearest(sum, n) \in lo .. hi
           /\ Nearest(sum, n) - sum \div n \in 0 .. 1
<1>1. sum \in Nat
  <2>1. lo * n \in Nat
    OBVIOUS
  <2> QED
    BY <2>1
<1>2. 2 * sum + n \in Nat /\ 2 * n \in Nat \ {0}
  BY <1>1
<1>3. PICK q \in Nat, p \in Nat :
          /\ Nearest(sum, n) = q /\ p = (2 * n) * q
          /\ p <= 2 * sum + n /\ 2 * sum + n < p + 2 * n
          /\ \A k \in Int : k < q => (2 * n) * k <= p - 2 * n
          /\ \A j \in Int : j > q => (2 * n) * j >= p + 2 * n
  <2> DEFINE m == 2 * sum + n
             d == 2 * n
  <2>1. m \in Nat /\ d \in Nat \ {0} /\ Nearest(sum, n) = m \div d
    BY <1>2 DEF Nearest
  <2> HIDE DEF m, d
  <2>2. PICK q \in Nat, p \in Nat : /\ m \div d = q /\ p = d * q
                                     /\ p <= m /\ m < p + d
                                     /\ \A k \in Int : k < q => d * k <= p - d
                                     /\ \A j \in Int : j > q => d * j >= p + d
    BY <2>1, Parts
  <2> QED
    BY <2>1, <2>2 DEF m, d
<1>4. (2 * n) * lo = 2 * (lo * n) /\ (2 * n) * hi = 2 * (hi * n) /\ lo * n \in Nat /\ hi * n \in Nat
  OBVIOUS
<1>5. lo <= q
  <2>1. lo > q => (2 * n) * lo >= p + 2 * n
    BY <1>3
  <2> QED
    BY <1>1, <1>3, <1>4, <2>1
<1>6. q <= hi
  <2>1. hi < q => (2 * n) * hi <= p - 2 * n
    BY <1>3
  <2> QED
    BY <1>1, <1>3, <1>4, <2>1
<1>7. PICK t \in Nat, u \in Nat : /\ sum \div n = t /\ u = n * t /\ u <= sum /\ sum < u + n
  BY <1>1, Parts
<1>8. (2 * n) * t = 2 * u /\ (2 * n) * (t + 1) = 2 * u + 2 * n
  BY <1>7
<1>9. t <= q
  <2>1. t > q => (2 * n) * t >= p + 2 * n
    BY <1>3
  <2> QED
    BY <1>1, <1>3, <1>7, <1>8, <2>1
<1>10. q <= t + 1
  <2>1. t + 1 < q => (2 * n) * (t + 1) <= p - 2 * n
    BY <1>3
  <2> QED
    BY <1>1, <1>3, <1>7, <1>8, <2>1
<1> QED
  BY <1>3, <1>5, <1>6, <1>7, <1>9, <1>10

\* The newest snapshot is in every window that has one, and says which snapshots count.
LEMMA SeenFacts ==
    ASSUME NEW S, Timed(S), NEW from \in Int
    PROVE  /\ InWindow(S, from) \in SUBSET S
           /\ InWindow(S, from) = {} => WindowRows(S, from) = {}
           /\ InWindow(S, from) # {} =>
                 \E l \in InWindow(S, from) :
                    /\ Newest(S) = {l} /\ \A t \in S : t.at <= l.at
                    /\ WindowRows(S, from) =
                          {s \in InWindow(S, from) : s.price.currency = l.price.currency}
<1>1. InWindow(S, from) \in SUBSET S /\ WindowRows(S, from) \subseteq InWindow(S, from)
  BY DEF InWindow, WindowRows
<1>2. ASSUME InWindow(S, from) # {}
      PROVE  \E l \in InWindow(S, from) :
                /\ Newest(S) = {l} /\ \A t \in S : t.at <= l.at
                /\ WindowRows(S, from) =
                      {s \in InWindow(S, from) : s.price.currency = l.price.currency}
  <2>1. PICK k \in S : k.at >= from
    BY <1>2 DEF InWindow
  <2>2. PICK l \in S : \A t \in S : t.at <= l.at
    BY <2>1, EndsExist
  <2>3. l.at \in Nat /\ k.at \in Nat /\ k.at <= l.at
    BY <2>2 DEF Timed
  <2>4. l \in InWindow(S, from)
    BY <2>1, <2>3 DEF InWindow
  <2>5. \A s \in Newest(S) : s = l
    <3> SUFFICES ASSUME NEW s \in Newest(S) PROVE s = l
      OBVIOUS
    <3>1. s \in S /\ l.at <= s.at /\ s.at <= l.at /\ s.at \in Nat
      BY <2>2 DEF Newest, Timed
    <3>2. s.at = l.at
      BY <2>3, <3>1
    <3> QED
      BY <3>1, <3>2 DEF Timed
  <2>6. Newest(S) = {l}
    BY <2>2, <2>5 DEF Newest
  <2> QED
    BY <2>2, <2>4, <2>6 DEF WindowRows
<1> QED
  BY <1>1, <1>2

\* The statistics of some snapshots of a currency: l is the newest, o the oldest.
StatsOf(rows, o, l) ==
    [current |-> l.price, inStock |-> l.inStock, samples |-> Cardinality(rows),
     min |-> In(Min(AmountsOf(rows)), l.price.currency),
     max |-> In(Max(AmountsOf(rows)), l.price.currency),
     avg |-> In(Nearest(Total(rows), Cardinality(rows)), l.price.currency),
     first |-> o.price, windowFrom |-> o.at, windowTo |-> l.at]

\* What the query of Stats returns.
LEMMA RepoFacts ==
    ASSUME NEW S, Timed(S), NEW from \in Int
    PROVE  /\ InWindow(S, from) = {} => RepoStats(S, from) = {}
           /\ InWindow(S, from) # {} =>
                 \E l \in InWindow(S, from) : \E o \in WindowRows(S, from) :
                    /\ Newest(S) = {l} /\ \A t \in S : t.at <= l.at
                    /\ WindowRows(S, from) =
                          {s \in InWindow(S, from) : s.price.currency = l.price.currency}
                    /\ \A t \in WindowRows(S, from) : o.at <= t.at
                    /\ RepoStats(S, from) = {StatsOf(WindowRows(S, from), o, l)}
<1> DEFINE seen == InWindow(S, from)
           rows == WindowRows(S, from)
           o == CHOOSE s \in rows : \A t \in rows : s.at <= t.at
<1>1. ASSUME seen = {} PROVE RepoStats(S, from) = {}
  <2>1. rows = {}
    BY <1>1, SeenFacts
  <2> QED
    BY <2>1 DEF RepoStats
<1>2. ASSUME seen # {}
      PROVE  \E l \in seen : \E q \in rows :
                 /\ Newest(S) = {l} /\ \A t \in S : t.at <= l.at
                 /\ rows = {s \in seen : s.price.currency = l.price.currency}
                 /\ \A t \in rows : q.at <= t.at
                 /\ RepoStats(S, from) = {StatsOf(rows, q, l)}
  <2>1. PICK l \in seen : /\ Newest(S) = {l} /\ \A t \in S : t.at <= l.at
                          /\ rows = {s \in seen : s.price.currency = l.price.currency}
    BY <1>2, SeenFacts
  <2>2. l \in rows /\ rows \in SUBSET S /\ rows # {}
    BY <2>1, SeenFacts
  <2>3. o \in rows /\ \A t \in rows : o.at <= t.at
    <3> HIDE DEF rows
    <3>1. \E s \in rows : \A t \in rows : s.at <= t.at
      BY <2>2, EndsExist
    <3> QED
      BY <3>1
  <2>4. Max({s.at : s \in rows}) = l.at
    <3> DEFINE A == {s.at : s \in rows}
    <3>1. l.at \in A /\ \A y \in A : y \in Nat /\ l.at >= y /\ (y >= l.at => y = l.at)
      BY <2>1, <2>2 DEF Timed
    <3> HIDE DEF A, rows
    <3>2. \E x \in A : \A y \in A : x >= y
      BY <3>1
    <3>3. Max(A) \in A /\ \A y \in A : Max(A) >= y
      BY <3>2 DEF Max
    <3> QED
      BY <3>1, <3>3 DEF A
  <2>5. RepoStats(S, from) = {StatsOf(rows, o, l)}
    <3>1. RepoStats(S, from) =
            {[current |-> k.price, inStock |-> k.inStock, samples |-> Cardinality(rows),
              min |-> In(Min(AmountsOf(rows)), k.price.currency),
              max |-> In(Max(AmountsOf(rows)), k.price.currency),
              avg |-> In(Nearest(Total(rows), Cardinality(rows)), k.price.currency),
              first |-> o.price, windowFrom |-> o.at,
              windowTo |-> Max({s.at : s \in rows})] : k \in {l}}
      BY <2>1, <2>2 DEF RepoStats
    <3> HIDE DEF rows, o
    <3> QED
      BY <2>4, <3>1 DEF StatsOf
  <2> HIDE DEF rows, o, seen
  <2> QED
    BY <2>1, <2>3, <2>5
<1> QED
  BY <1>1, <1>2

\* The change goes with the trend.
LEMMA TrendFits ==
    ASSUME NEW s, s.current.amount \in Nat, s.first.amount \in Nat, s.samples \in Nat
    PROVE  /\ Trend(s) = "down" => ChangePercent(s) <= 0
           /\ Trend(s) = "up" => ChangePercent(s) >= 0
<1> DEFINE c == s.current.amount
           a == s.first.amount
           n == 2000 * (c - a) + a
<1>1. CASE s.samples < 2 \/ a = 0
  BY <1>1 DEF ChangePercent
<1>2. CASE ~(s.samples < 2 \/ a = 0)
  <2>1. ChangePercent(s) = n \div (2 * a)
    BY <1>2 DEF ChangePercent
  <2>2. n \in Int /\ 2 * a \in Nat \ {0} /\ (c < a => n < 2 * a) /\ (c > a => n >= 0)
    BY <1>2
  <2>3. (Trend(s) = "down" => c < a) /\ (Trend(s) = "up" => c > a)
    BY DEF Trend, Moved
  <2> HIDE DEF n
  <2>4. /\ n < 2 * a => n \div (2 * a) <= 0
        /\ n >= 0 => n \div (2 * a) >= 0
    BY <2>2, QuotientSign
  <2> QED
    BY <2>1, <2>2, <2>3, <2>4
<1> QED
  BY <1>1, <1>2

\* The wire changes nothing, and what was found fits together.
LEMMA StatsFit ==
    ASSUME NEW rows, IsFiniteSet(rows), Priced(rows), NEW o \in rows, NEW l \in rows,
           \A s \in rows : s.price.currency = l.price.currency
    PROVE  LET s == StatsOf(rows, o, l)
           IN  /\ StatsFromProto(StatsToProto(s)) = s
               /\ Consistent(s)
<1> DEFINE s == StatsOf(rows, o, l)
           lo == Min(AmountsOf(rows))
           hi == Max(AmountsOf(rows))
           n == Cardinality(rows)
           avg == Nearest(Total(rows), n)
<1>1. rows # {} /\ n \in Nat \ {0}
  BY FS_CardinalityType, FS_EmptySet
<1>2. /\ \E r \in rows : lo = r.price.amount
      /\ \E r \in rows : hi = r.price.amount
      /\ \A r \in rows : lo <= r.price.amount /\ r.price.amount <= hi
  BY <1>1, AmountEnds DEF Priced
<1>3. lo \in Nat /\ hi \in Nat
  BY <1>2 DEF Priced
<1> HIDE DEF lo, hi
<1>4. avg \in lo .. hi
  <2> DEFINE f == [r \in rows |-> r.price.amount]
  <2>1. PICK g : Sums(g, f, rows) /\ Total(rows) = g[rows]
    BY TotalSums DEF Priced
  <2>2. f \in [rows -> Int] /\ \A r \in rows : lo <= f[r] /\ f[r] <= hi
    BY <1>2 DEF Priced
  <2> HIDE DEF f
  <2>3. lo * n <= Total(rows) /\ Total(rows) <= hi * n
    BY <1>3, <2>1, <2>2, SumBetween
  <2>4. Total(rows) \in Int
    BY <2>1, rows \in SUBSET rows DEF Sums
  <2> QED
    BY <1>1, <1>3, <2>3, <2>4, AverageFacts
<1>5. /\ s.current = l.price /\ s.first = o.price /\ s.samples = n
      /\ s.min = In(lo, l.price.currency) /\ s.max = In(hi, l.price.currency)
      /\ s.avg = In(avg, l.price.currency)
  BY DEF StatsOf, lo, hi
<1>6. StatsFromProto(StatsToProto(s)) = s
  BY DEF StatsFromProto, StatsToProto, StatsOf
<1> HIDE DEF s, avg, n
<1>7. \A m \in {s.min, s.max, s.avg, s.first} : m.currency = s.current.currency
  BY <1>5 DEF In
<1>8. \A m \in {s.current, s.avg, s.first} : m.amount \in s.min.amount .. s.max.amount
  <2>1. s.min.amount = lo /\ s.max.amount = hi /\ s.avg.amount = avg
    BY <1>5 DEF In
  <2>2. l.price.amount \in lo .. hi /\ o.price.amount \in lo .. hi
    BY <1>2, <1>3 DEF Priced
  <2> QED
    BY <1>4, <1>5, <2>1, <2>2
<1>9. /\ Trend(s) = "down" => ChangePercent(s) <= 0
      /\ Trend(s) = "up" => ChangePercent(s) >= 0
  <2>1. s.current.amount \in Nat /\ s.first.amount \in Nat /\ s.samples \in Nat
    BY <1>1, <1>5 DEF Priced
  <2> QED
    BY <2>1, TrendFits
<1>10. Consistent(s)
  BY <1>7, <1>8, <1>9 DEF Consistent
<1> QED
  BY <1>6, <1>10 DEF s

\* A window of one currency.
LEMMA CurrencyFacts ==
    ASSUME NEW T, IsFiniteSet(T), OneCurrency(T)
    PROVE  \A s, t \in T : s.price.currency = t.price.currency
<1> DEFINE C == {s.price.currency : s \in T}
           f == [s \in T |-> s.price.currency]
<1>1. f \in Surjection(T, C) /\ Cardinality(C) = 1 /\ \A s \in T : s.price.currency \in C
  BY DEF Surjection, OneCurrency
<1> HIDE DEF C, f
<1>2. PICK c : C = {c}
  BY <1>1, FS_Surjection, FS_Singleton
<1> QED
  BY <1>1, <1>2

\* The memory store aggregates a list of the same snapshots to the same.
LEMMA AggregateAgrees ==
    ASSUME NEW S, Timed(S), Priced(S), NEW q, Lists(q, S),
           \A s \in S : s.price = In(s.price.amount, s.price.currency),
           NEW l \in S, \A t \in S : t.at <= l.at /\ t.price.currency = l.price.currency,
           NEW o \in S, \A t \in S : o.at <= t.at
    PROVE  SameAsMemory(StatsOf(S, o, l), AggregateStats(q))
<1> DEFINE n == Len(q)
           c == l.price.currency
           lo == Min(AmountsOf(S))
           hi == Max(AmountsOf(S))
<1>1. /\ n \in Nat \ {0} /\ q \in Seq(S) /\ q # <<>> /\ \A k \in 1 .. n : q[k] \in S
      /\ q[1] = o /\ q[n] = l
  BY ListEnds
<1>2. n = Cardinality(S) /\ IsFiniteSet(S) /\ \A s \in S : \E k \in 1 .. n : q[k] = s
  BY DEF Lists, Timed
<1>3. /\ \E r \in S : lo = r.price.amount
      /\ \E r \in S : hi = r.price.amount
      /\ \A r \in S : lo <= r.price.amount /\ r.price.amount <= hi
  BY <1>2, AmountEnds DEF Priced
<1>4. lo \in Nat /\ hi \in Nat /\ \A k \in 1 .. n : q[k].price.amount \in Nat
  BY <1>1, <1>3 DEF Priced
<1> HIDE DEF lo, hi
<1>5. Lowest(q) = In(lo, c)
  <2>1. PICK k \in 1 .. n : /\ Lowest(q) = q[k].price
                            /\ \A j \in 1 .. n : q[k].price.amount <= q[j].price.amount
    BY <1>1, <1>4, LowestFold
  <2>2. q[k].price.amount = lo
    <3>1. PICK j \in 1 .. n : q[j].price.amount = lo
      BY <1>2, <1>3
    <3>2. q[k].price.amount <= lo /\ lo <= q[k].price.amount /\ q[k].price.amount \in Nat
      BY <1>1, <1>3, <1>4, <2>1, <3>1
    <3> QED
      BY <1>4, <3>2
  <2>3. q[k] \in S
    BY <1>1
  <2> HIDE DEF n
  <2> QED
    BY <2>1, <2>2, <2>3
<1>6. Highest(q) = In(hi, c)
  <2>1. PICK k \in 1 .. n : /\ Highest(q) = q[k].price
                            /\ \A j \in 1 .. n : q[k].price.amount >= q[j].price.amount
    BY <1>1, <1>4, HighestFold
  <2>2. q[k].price.amount = hi
    <3>1. PICK j \in 1 .. n : q[j].price.amount = hi
      BY <1>2, <1>3
    <3>2. q[k].price.amount >= hi /\ q[k].price.amount <= hi /\ q[k].price.amount \in Nat
      BY <1>1, <1>3, <1>4, <2>1, <3>1
    <3> QED
      BY <1>4, <3>2
  <2>3. q[k] \in S
    BY <1>1
  <2> HIDE DEF n
  <2> QED
    BY <2>1, <2>2, <2>3
<1>7. SumOf(q) = Total(S)
  BY ListTotal DEF Priced
<1>8. Nearest(Total(S), n) - Total(S) \div n \in 0 .. 1
  <2> DEFINE f == [r \in S |-> r.price.amount]
  <2>1. PICK g : Sums(g, f, S) /\ Total(S) = g[S]
    BY <1>2, TotalSums DEF Priced
  <2>2. f \in [S -> Int] /\ \A r \in S : lo <= f[r] /\ f[r] <= hi
    BY <1>3 DEF Priced
  <2> HIDE DEF f
  <2>3. lo * n <= Total(S) /\ Total(S) <= hi * n
    BY <1>2, <1>4, <2>1, <2>2, SumBetween
  <2>4. Total(S) \in Int
    BY <2>1, S \in SUBSET S DEF Sums
  <2> HIDE DEF n
  <2> QED
    BY <1>1, <1>4, <2>3, <2>4, AverageFacts
<1>9. Head(q) = o /\ Last(q) = l /\ o.price.currency = c
  BY <1>1 DEF Last
<1>10. AggregateStats(q)
         = [current |-> l.price, inStock |-> l.inStock, samples |-> n,
            min |-> In(lo, c), max |-> In(hi, c), avg |-> In(Total(S) \div n, c),
            first |-> o.price, windowFrom |-> o.at, windowTo |-> l.at]
  BY <1>5, <1>6, <1>7, <1>9 DEF AggregateStats
<1>11. StatsOf(S, o, l)
         = [current |-> l.price, inStock |-> l.inStock, samples |-> n,
            min |-> In(lo, c), max |-> In(hi, c), avg |-> In(Nearest(Total(S), n), c),
            first |-> o.price, windowFrom |-> o.at, windowTo |-> l.at]
  BY <1>2 DEF StatsOf, lo, hi
<1> HIDE DEF n, c
<1>12. StatsOf(S, o, l).avg.amount - AggregateStats(q).avg.amount \in 0 .. 1
  BY <1>8, <1>10, <1>11 DEF In
<1>13. [StatsOf(S, o, l) EXCEPT !.avg = AggregateStats(q).avg] = AggregateStats(q)
  BY <1>10, <1>11
<1> QED
  BY <1>12, <1>13 DEF SameAsMemory

\* The memory store finds the same window.
LEMMA MemFacts ==
    ASSUME NEW S, Timed(S), NEW from \in Int, NEW m \in MemStats(OldestFirst(S), from)
    PROVE  \E q : Lists(q, InWindow(S, from)) /\ m = AggregateStats(q)
<1> DEFINE H == OldestFirst(S)
           q == MemHistory(H, from)
<1>1. Lists(H, S)
  BY OldestFirstLists
<1> HIDE DEF H
<1>2. ToSet(H) = S
  <2>1. DOMAIN H = 1 .. Len(H) /\ \A k \in 1 .. Len(H) : H[k] \in S
    BY <1>1 DEF Lists
  <2> QED
    BY <1>1, <2>1 DEF Lists, ToSet
<1>3. S \cap InWindow(ToSet(H), from) = InWindow(S, from)
  BY <1>2 DEF InWindow
<1>4. Lists(q, InWindow(S, from))
  BY <1>1, <1>3, OnlyLists DEF MemHistory
<1>5. m = AggregateStats(q)
  BY DEF MemStats, H
<1> QED
  BY <1>4, <1>5

-----------------------------------------------------------------------------
\* Charts.

\* The amounts at some places of a history, added up.
TotalAt(q, places) == MapThenSumSet(LAMBDA k : q[k].price.amount, places)

\* The total of the snapshots at some places of a history is a number, of one snapshot
\* its amount.
LEMMA PlacesTotal ==
    ASSUME NEW S, IsFiniteSet(S), NEW q, \A k \in S : q[k].price.amount \in Nat
    PROVE  /\ TotalAt(q, S) \in Int
           /\ \A k : S = {k} => TotalAt(q, S) = q[k].price.amount
<1> DEFINE f == [k \in S |-> q[k].price.amount]
           Eq(g) == g = [t \in SUBSET S |->
                            IF t = {} THEN 0 ELSE q[Pick(t)].price.amount + g[t \ {Pick(t)}]]
           G == CHOOSE g : Eq(g)
<1>1. TotalAt(q, S) = G[S]
  BY DEF TotalAt, MapThenSumSet, MapThenFoldSet, Pick
<1>2. \A t \in SUBSET S : t # {} => Pick(t) \in S /\ f[Pick(t)] = q[Pick(t)].price.amount
  BY DEF Pick
<1>3. f \in [S -> Int] /\ \A k \in S : f[k] = q[k].price.amount
  OBVIOUS
<1> HIDE DEF f
<1>4. \A g : Adds(g, f, S) <=> Eq(g)
  <2> TAKE g
  <2>1. [t \in SUBSET S |-> IF t = {} THEN 0 ELSE f[Pick(t)] + g[t \ {Pick(t)}]]
          = [t \in SUBSET S |->
                IF t = {} THEN 0 ELSE q[Pick(t)].price.amount + g[t \ {Pick(t)}]]
    BY <1>2
  <2> QED
    BY <2>1 DEF Adds
<1>5. Eq(G)
  <2>1. \E g : Eq(g)
    BY <1>4, SumExists
  <2> HIDE DEF Eq
  <2> QED
    BY <2>1
<1>6. Sums(G, f, S)
  BY <1>3, <1>4, <1>5, SumAny
<1> HIDE DEF G
<1>7. G[S] \in Int /\ \A k \in S : G[S] = f[k] + G[S \ {k}]
  BY <1>6, S \in SUBSET S DEF Sums
<1>8. \A k : S = {k} => G[S] = q[k].price.amount
  <2> SUFFICES ASSUME NEW k, S = {k} PROVE G[S] = q[k].price.amount
    OBVIOUS
  <2>1. k \in S /\ S \ {k} = {} /\ G[{}] = 0
    BY <1>6 DEF Sums
  <2>2. G[S] = f[k] + 0 /\ f[k] \in Int
    BY <1>3, <1>7, <2>1
  <2> QED
    BY <1>3, <2>1, <2>2
<1> QED
  BY <1>1, <1>7, <1>8

\* The samples up to the end of column c.
Edge(n, w, c) == (c * n) \div w

\* Edges run from 0 to the length; those of a short history are never two samples apart.
LEMMA EdgeFacts ==
    ASSUME NEW n \in Nat \ {0}, NEW w \in Nat \ {0}
    PROVE  /\ \A c \in 0 .. w : Edge(n, w, c) \in 0 .. n
           /\ Edge(n, w, 0) = 0 /\ Edge(n, w, w) = n /\ Edge(n, w, w - 1) < n
           /\ n <= w => \A c \in 1 .. w : Edge(n, w, c) <= Edge(n, w, c - 1) + 1
<1>1. ASSUME NEW c \in 0 .. w
      PROVE  \E q \in Nat, p \in Nat : /\ Edge(n, w, c) = q /\ p = w * q
                                       /\ p <= c * n /\ c * n < p + w
                                       /\ \A k \in Int : k < q => w * k <= p - w
                                       /\ \A k \in Int : k > q => w * k >= p + w
  <2> DEFINE m == c * n
  <2>1. m \in Nat
    OBVIOUS
  <2> HIDE DEF m
  <2>2. \E q \in Nat, p \in Nat : /\ m \div w = q /\ p = w * q
                                  /\ p <= m /\ m < p + w
                                  /\ \A k \in Int : k < q => w * k <= p - w
                                  /\ \A k \in Int : k > q => w * k >= p + w
    BY <2>1, Parts
  <2> QED
    BY <2>2 DEF m, Edge
<1>2. ASSUME NEW c \in 0 .. w PROVE Edge(n, w, c) \in 0 .. n /\ (c = 0 => Edge(n, w, c) = 0)
  <2>1. PICK q \in Nat, p \in Nat : /\ Edge(n, w, c) = q /\ p = w * q
                                    /\ p <= c * n /\ c * n < p + w
                                    /\ \A k \in Int : k < q => w * k <= p - w
    BY <1>1
  <2>2. c * n \in Nat /\ w * n = c * n + (w - c) * n /\ (w - c) * n \in Nat /\ w * n \in Nat
    OBVIOUS
  <2>3. q <= n
    <3>1. n < q => w * n <= p - w
      BY <2>1
    <3> QED
      BY <2>1, <2>2, <3>1
  <2>4. c = 0 => q = 0
    <3>1. 0 < q => w * 0 <= p - w
      BY <2>1
    <3>2. c = 0 => c * n = 0
      OBVIOUS
    <3> QED
      BY <2>1, <3>1, <3>2
  <2> QED
    BY <2>1, <2>3, <2>4
<1>3. Edge(n, w, w) = n
  <2>1. PICK q \in Nat, p \in Nat : /\ Edge(n, w, w) = q /\ p = w * q
                                    /\ p <= w * n /\ w * n < p + w
                                    /\ \A k \in Int : k < q => w * k <= p - w
                                    /\ \A k \in Int : k > q => w * k >= p + w
    BY <1>1
  <2>2. w * n \in Nat
    OBVIOUS
  <2>3. (n < q => w * n <= p - w) /\ (n > q => w * n >= p + w)
    BY <2>1
  <2> QED
    BY <2>1, <2>2, <2>3
<1>4. Edge(n, w, w - 1) < n
  <2>1. PICK q \in Nat, p \in Nat : /\ Edge(n, w, w - 1) = q /\ p = w * q
                                    /\ p <= (w - 1) * n
                                    /\ \A k \in Int : k < q => w * k <= p - w
    BY <1>1
  <2>2. (w - 1) * n = w * n - n /\ w * n \in Nat
    OBVIOUS
  <2>3. (n < q => w * n <= p - w) /\ (n = q => p = w * n)
    BY <2>1
  <2> QED
    BY <2>1, <2>2, <2>3
<1>5. ASSUME n <= w, NEW c \in 1 .. w PROVE Edge(n, w, c) <= Edge(n, w, c - 1) + 1
  <2>1. PICK q \in Nat, p \in Nat : /\ Edge(n, w, c - 1) = q /\ p = w * q
                                    /\ (c - 1) * n < p + w
    BY <1>1, c - 1 \in 0 .. w
  <2>2. PICK e \in Nat, x \in Nat : /\ Edge(n, w, c) = e /\ x = w * e
                                    /\ x <= c * n
                                    /\ \A k \in Int : k < e => w * k <= x - w
    BY <1>1
  <2>3. c * n = (c - 1) * n + n /\ (c - 1) * n \in Int /\ w * (q + 1) = w * q + w
    OBVIOUS
  <2>4. q + 1 < e => w * (q + 1) <= x - w
    BY <2>2
  <2> QED
    BY <1>5, <2>1, <2>2, <2>3, <2>4
<1> QED
  BY <1>2, <1>3, <1>4, <1>5

\* Every sample has a column, the first is in the first and the last in the last; a short
\* history has a sample to a column.
LEMMA BucketFacts ==
    ASSUME NEW n \in Nat \ {0}, NEW w \in Nat \ {0}
    PROVE  /\ \A c \in 1 .. w : Bucket(n, w, c) \in SUBSET (1 .. n) /\ Bucket(n, w, c) # {}
           /\ 1 \in Bucket(n, w, 1) /\ n \in Bucket(n, w, w)
           /\ \A k \in 1 .. n : \E c \in 1 .. w : k \in Bucket(n, w, c)
           /\ n <= w => \A c \in 1 .. w : \E k \in 1 .. n : Bucket(n, w, c) = {k}
<1> DEFINE E(c) == Edge(n, w, c)
<1>1. /\ \A c \in 0 .. w : E(c) \in 0 .. n
      /\ E(0) = 0 /\ E(w) = n /\ E(w - 1) < n
      /\ n <= w => \A c \in 1 .. w : E(c) <= E(c - 1) + 1
  BY EdgeFacts
<1>2. \A c \in 1 .. w : c - 1 \in 0 .. w /\ c \in 0 .. w
  OBVIOUS
<1>3. \A c : Bucket(n, w, c) = IF E(c - 1) < E(c) THEN E(c - 1) + 1 .. E(c)
                               ELSE {Min({E(c - 1), n - 1}) + 1}
  BY DEF Bucket, Edge
<1> HIDE DEF E
<1>4. ASSUME NEW c \in 1 .. w PROVE Min({E(c - 1), n - 1}) \in 0 .. n - 1
  <2>1. E(c - 1) \in 0 .. n
    BY <1>1, <1>2
  <2>2. \E x \in {E(c - 1), n - 1} : \A y \in {E(c - 1), n - 1} : x =< y
    <3>1. CASE E(c - 1) <= n - 1
      BY <2>1, <3>1
    <3>2. CASE ~(E(c - 1) <= n - 1)
      BY <2>1, <3>2
    <3> QED
      BY <3>1, <3>2
  <2>3. Min({E(c - 1), n - 1}) \in {E(c - 1), n - 1} /\ Min({E(c - 1), n - 1}) =< n - 1
    BY <2>2 DEF Min
  <2> QED
    BY <2>1, <2>3
<1>5. ASSUME NEW c \in 1 .. w
      PROVE  /\ Bucket(n, w, c) \in SUBSET (1 .. n) /\ Bucket(n, w, c) # {}
             /\ n <= w => \E k \in 1 .. n : Bucket(n, w, c) = {k}
  <2>1. E(c - 1) \in 0 .. n /\ E(c) \in 0 .. n /\ (n <= w => E(c) <= E(c - 1) + 1)
    BY <1>1, <1>2
  <2>2. CASE E(c - 1) < E(c)
    <3>1. Bucket(n, w, c) = E(c - 1) + 1 .. E(c)
      BY <1>3, <2>2
    <3>2. n <= w => E(c) = E(c - 1) + 1
      BY <2>1, <2>2
    <3>3. E(c) \in 1 .. n /\ E(c) \in E(c - 1) + 1 .. E(c)
      BY <2>1, <2>2
    <3>4. E(c) .. E(c) = {E(c)}
      BY <2>1
    <3>5. E(c - 1) + 1 .. E(c) \in SUBSET (1 .. n)
      BY <2>1
    <3> QED
      BY <3>1, <3>2, <3>3, <3>4, <3>5
  <2>3. CASE ~(E(c - 1) < E(c))
    <3>1. Bucket(n, w, c) = {Min({E(c - 1), n - 1}) + 1}
      BY <1>3, <2>3
    <3>2. Min({E(c - 1), n - 1}) + 1 \in 1 .. n
      BY <1>4
    <3> QED
      BY <3>1, <3>2
  <2> QED
    BY <2>2, <2>3
<1>6. 1 \in Bucket(n, w, 1)
  <2>1. Bucket(n, w, 1) = IF E(0) < E(1) THEN E(0) + 1 .. E(1)
                          ELSE {Min({E(0), n - 1}) + 1}
    BY <1>3, 1 - 1 = 0, Zenon
  <2>2. E(0) = 0 /\ E(1) \in 0 .. n
    BY <1>1, 1 \in 0 .. w
  <2>3. Min({0, n - 1}) = 0
    <3>1. 0 \in {0, n - 1} /\ \A y \in {0, n - 1} : 0 =< y /\ (y =< 0 => y = 0)
      OBVIOUS
    <3>2. Min({0, n - 1}) \in {0, n - 1} /\ Min({0, n - 1}) =< 0
      BY <3>1 DEF Min
    <3> QED
      BY <3>1, <3>2
  <2>4. CASE E(0) < E(1)
    <3>1. Bucket(n, w, 1) = E(0) + 1 .. E(1)
      BY <2>1, <2>4
    <3> QED
      BY <2>2, <2>4, <3>1
  <2>5. CASE ~(E(0) < E(1))
    <3>1. Bucket(n, w, 1) = {Min({E(0), n - 1}) + 1}
      BY <2>1, <2>5
    <3> QED
      BY <2>2, <2>3, <3>1
  <2> QED
    BY <2>4, <2>5
<1>7. n \in Bucket(n, w, w)
  <2>1. E(w - 1) < E(w) /\ E(w - 1) \in 0 .. n /\ E(w) = n
    BY <1>1, w - 1 \in 0 .. w
  <2>2. Bucket(n, w, w) = E(w - 1) + 1 .. n
    BY <1>3, <2>1
  <2> QED
    BY <2>1, <2>2
<1>8. ASSUME NEW k \in 1 .. n PROVE \E c \in 1 .. w : k \in Bucket(n, w, c)
  <2> DEFINE T == {c \in 0 .. w : k <= E(c)}
  <2>1. T \subseteq Nat /\ w \in T
    BY <1>1
  <2>2. PICK c \in T : \A d \in T : c <= d
    <3> HIDE DEF T
    <3> QED
      BY <2>1, LeastOfNats
  <2>3. c \in 1 .. w /\ k <= E(c)
    BY <1>1, <2>2
  <2>4. c - 1 \in 0 .. w /\ ~(k <= E(c - 1))
    BY <2>2, <2>3
  <2>5. E(c - 1) \in 0 .. n /\ E(c) \in 0 .. n
    BY <1>1, <2>3, <2>4
  <2>6. k \in E(c - 1) + 1 .. E(c) /\ E(c - 1) < E(c)
    BY <2>3, <2>4, <2>5
  <2> QED
    BY <1>3, <2>3, <2>6
<1> QED
  BY <1>5, <1>6, <1>7, <1>8

\* The bar of a column between the lowest and the highest.
Bar(x, lo, hi) == IF hi - lo = 0 THEN 0 ELSE ((x - lo) * 7) \div (hi - lo)

\* Bars are in the order of the columns, from 0 for the lowest.
LEMMA BarFacts ==
    ASSUME NEW lo \in Int, NEW hi \in Int, NEW x \in lo .. hi
    PROVE  /\ Bar(x, lo, hi) \in 0 .. 7
           /\ Bar(lo, lo, hi) = 0
           /\ \A y \in lo .. hi : x <= y => Bar(x, lo, hi) <= Bar(y, lo, hi)
<1> DEFINE d == hi - lo
<1>1. CASE d = 0
  BY <1>1 DEF Bar
<1>2. CASE d # 0
  <2>1. d \in Nat \ {0}
    BY <1>2
  <2>2. ASSUME NEW z \in lo .. hi
        PROVE  \E q \in Nat, p \in Nat : /\ Bar(z, lo, hi) = q /\ p = d * q
                                         /\ p <= (z - lo) * 7 /\ (z - lo) * 7 < p + d
                                         /\ \A k \in Int : k < q => d * k <= p - d
                                         /\ \A k \in Int : k > q => d * k >= p + d
    <3> DEFINE m == (z - lo) * 7
    <3>1. m \in Nat /\ Bar(z, lo, hi) = m \div d
      BY <1>2 DEF Bar
    <3> HIDE DEF m, d
    <3>2. \E q \in Nat, p \in Nat : /\ m \div d = q /\ p = d * q
                                    /\ p <= m /\ m < p + d
                                    /\ \A k \in Int : k < q => d * k <= p - d
                                    /\ \A k \in Int : k > q => d * k >= p + d
      BY <2>1, <3>1, Parts
    <3> QED
      BY <3>1, <3>2 DEF m
  <2>3. PICK q \in Nat, p \in Nat : /\ Bar(x, lo, hi) = q /\ p = d * q
                                    /\ p <= (x - lo) * 7
                                    /\ \A k \in Int : k < q => d * k <= p - d
    BY <2>2
  <2>4. q <= 7
    <3>1. 7 < q => d * 7 <= p - d
      BY <2>3
    <3>2. (x - lo) * 7 <= d * 7
      OBVIOUS
    <3> QED
      BY <2>1, <2>3, <3>1, <3>2
  <2>5. Bar(lo, lo, hi) = 0
    <3>1. lo \in lo .. hi
      OBVIOUS
    <3>2. PICK r \in Nat, s \in Nat : /\ Bar(lo, lo, hi) = r /\ s = d * r
                                      /\ s <= (lo - lo) * 7
                                      /\ \A k \in Int : k < r => d * k <= s - d
      BY <2>2, <3>1
    <3>3. 0 < r => d * 0 <= s - d
      BY <3>2
    <3> QED
      BY <2>1, <3>2, <3>3
  <2>6. ASSUME NEW y \in lo .. hi, x <= y PROVE q <= Bar(y, lo, hi)
    <3>1. PICK r \in Nat, s \in Nat : /\ Bar(y, lo, hi) = r /\ s = d * r
                                      /\ (y - lo) * 7 < s + d
                                      /\ \A k \in Int : k > r => d * k >= s + d
      BY <2>2
    <3>2. q > r => p >= s + d
      BY <2>3, <3>1
    <3> QED
      BY <2>1, <2>3, <2>6, <3>1, <3>2
  <2> QED
    BY <2>3, <2>4, <2>5, <2>6
<1> QED
  BY <1>1, <1>2

\* Columns are numbers; the column of one sample is its amount.
LEMMA ColumnFacts ==
    ASSUME NEW S, Priced(S), NEW q \in Seq(S), q # <<>>, NEW w \in Nat \ {0}, NEW c \in 1 .. w
    PROVE  /\ Column(q, w, c) \in Int
           /\ \A k : Bucket(Len(q), w, c) = {k} => Column(q, w, c) = q[k].price.amount
<1> DEFINE B == Bucket(Len(q), w, c)
           T == TotalAt(q, B)
<1>1. B \in SUBSET (1 .. Len(q)) /\ B # {} /\ Len(q) \in Nat \ {0}
  <2>1. Len(q) \in Nat \ {0}
    OBVIOUS
  <2> DEFINE n == Len(q)
  <2> HIDE DEF n
  <2>2. \A b \in 1 .. w : Bucket(n, w, b) \in SUBSET (1 .. n) /\ Bucket(n, w, b) # {}
    BY <2>1, BucketFacts DEF n
  <2> QED
    BY <2>1, <2>2 DEF n
<1>2. IsFiniteSet(B) /\ Cardinality(B) \in Nat \ {0}
  <2>1. IsFiniteSet(1 .. Len(q))
    BY <1>1, FS_Interval
  <2> HIDE DEF B
  <2> QED
    BY <1>1, <2>1, FS_Subset, FS_CardinalityType, FS_EmptySet
<1>3. Column(q, w, c) = T \div Cardinality(B)
  BY DEF Column, TotalAt
<1> HIDE DEF B
<1>4. \A k \in B : q[k].price.amount \in Nat
  BY <1>1 DEF Priced
<1>5. /\ T \in Int
      /\ \A k : B = {k} => T = q[k].price.amount
  BY <1>2, <1>4, PlacesTotal
<1> HIDE DEF T
<1>6. T \div Cardinality(B) \in Int
  BY <1>2, <1>5, QuotientSign
<1>7. ASSUME NEW k, B = {k} PROVE Column(q, w, c) = q[k].price.amount
  <2>1. Cardinality(B) = 1 /\ T = q[k].price.amount /\ q[k].price.amount \in Nat
    BY <1>4, <1>5, <1>7, FS_Singleton
  <2> QED
    BY <1>3, <2>1
<1> QED
  BY <1>3, <1>6, <1>7 DEF B

\* A chart of two samples or more has a bar of eight to a column, the lowest among them.
LEMMA SparklineFacts ==
    ASSUME NEW S, Priced(S), NEW q \in Seq(S), q # <<>>, NEW w \in Nat \ {0, 1}
    PROVE  LET chart == Sparkline(q, w)
           IN  /\ chart = <<>> <=> Len(q) < 2
               /\ chart # <<>> =>
                     /\ ToSet(chart) \subseteq 0 .. 7 /\ 0 \in ToSet(chart)
                     /\ \A b, c \in 1 .. w : Column(q, w, b) <= Column(q, w, c) =>
                                                chart[b] <= chart[c]
<1> DEFINE chart == Sparkline(q, w)
           columns == [i \in 1 .. w |-> Column(q, w, i)]
           lo == Min(ToSet(columns))
           hi == Max(ToSet(columns))
           bars == [i \in 1 .. w |-> Bar(columns[i], lo, hi)]
<1>1. Len(q) < 2 => chart = <<>>
  BY DEF Sparkline
<1>2. ~(Len(q) < 2) => chart = bars
  BY DEF Sparkline, Bar
<1>3. columns \in [1 .. w -> Int]
  BY ColumnFacts
<1>4. /\ lo \in Int /\ hi \in Int
      /\ \A c \in 1 .. w : columns[c] \in lo .. hi
      /\ \E c \in 1 .. w : columns[c] = lo
  <2> DEFINE T == ToSet(columns)
  <2>1. T = {columns[c] : c \in 1 .. w} /\ columns \in Surjection(1 .. w, T)
    BY <1>3 DEF ToSet, Surjection
  <2> HIDE DEF columns
  <2>2. T \in SUBSET Int /\ T # {}
    BY <1>3, <2>1, 1 \in 1 .. w
  <2>3. IsFiniteSet(1 .. w)
    BY FS_Interval
  <2> HIDE DEF T
  <2>4. IsFiniteSet(T)
    BY <2>1, <2>3, FS_Surjection
  <2>5. /\ Min(T) \in T /\ \A y \in T : Min(T) <= y
        /\ Max(T) \in T /\ \A y \in T : y <= Max(T)
    BY <2>2, <2>4, EndsOfInts
  <2>6. /\ Min(T) \in Int /\ Max(T) \in Int
        /\ \A c \in 1 .. w : columns[c] \in T /\ columns[c] \in Int
        /\ \E c \in 1 .. w : columns[c] = Min(T)
    BY <1>3, <2>1, <2>2, <2>5
  <2> QED
    BY <2>5, <2>6 DEF T
<1> HIDE DEF columns, lo, hi, chart
<1>5. \A c \in 1 .. w : /\ bars[c] = Bar(columns[c], lo, hi)
                        /\ bars[c] \in 0 .. 7
                        /\ columns[c] = lo => bars[c] = 0
                        /\ \A b \in 1 .. w : columns[b] <= columns[c] => bars[b] <= bars[c]
  BY <1>4, BarFacts
<1>6. ToSet(bars) = {bars[c] : c \in 1 .. w} /\ bars # <<>>
  BY DEF ToSet
<1> HIDE DEF bars
<1>7. ToSet(bars) \subseteq 0 .. 7 /\ 0 \in ToSet(bars)
  BY <1>4, <1>5, <1>6
<1>8. \A c \in 1 .. w : columns[c] = Column(q, w, c)
  BY DEF columns
<1>9. \A b, c \in 1 .. w : Column(q, w, b) <= Column(q, w, c) => bars[b] <= bars[c]
  BY <1>5, <1>8
<1> QED
  <2>1. CASE Len(q) < 2
    BY <1>1, <2>1 DEF chart
  <2>2. CASE ~(Len(q) < 2)
    BY <1>2, <1>6, <1>7, <1>9, <2>2 DEF chart
  <2> QED
    BY <2>1, <2>2

\* The chart of a list of snapshots.
LEMMA ListDrawn ==
    ASSUME NEW S, Priced(S), NEW q \in Seq(S), q # <<>>, NEW w \in Nat \ {0, 1},
           NEW s, s.first = q[1].price, s.current = q[Len(q)].price
    PROVE  Drawn(s, q, w)
<1> DEFINE n == Len(q)
           m == RenderStats(s, q, w)
           bucket == [c \in 1 .. w |-> Bucket(n, w, c)]
           shown == [k \in 1 .. n |-> CHOOSE c \in 1 .. w : k \in bucket[c]]
<1>1. m.chart = Sparkline(q, w) /\ (m.chart # <<>> => m.caption = <<q[1].price, q[n].price>>)
  BY DEF RenderStats
<1>2. /\ m.chart = <<>> <=> n < 2
      /\ m.chart # <<>> =>
            /\ ToSet(m.chart) \subseteq 0 .. 7 /\ 0 \in ToSet(m.chart)
            /\ \A b, c \in 1 .. w : Column(q, w, b) <= Column(q, w, c) =>
                                       m.chart[b] <= m.chart[c]
  BY <1>1, SparklineFacts
<1> HIDE DEF m
<1>3. n \in Nat \ {0}
  OBVIOUS
<1>4. /\ \A c \in 1 .. w : Bucket(n, w, c) \in SUBSET (1 .. n)
      /\ 1 \in Bucket(n, w, 1) /\ n \in Bucket(n, w, w)
      /\ \A k \in 1 .. n : \E c \in 1 .. w : k \in Bucket(n, w, c)
      /\ n <= w => \A c \in 1 .. w : \E k \in 1 .. n : Bucket(n, w, c) = {k}
  BY <1>3, BucketFacts
<1>5. \A c \in 1 .. w : bucket[c] = Bucket(n, w, c)
  OBVIOUS
<1>6. UNION {bucket[c] : c \in 1 .. w} = 1 .. n
  <2> HIDE DEF bucket, n
  <2> QED
    BY <1>4, <1>5
<1>7. 1 \in bucket[1] /\ n \in bucket[w]
  BY <1>4, <1>5, 1 \in 1 .. w, w \in 1 .. w
<1>8. ASSUME m.chart # <<>>, n <= w, NEW j \in 1 .. n, NEW k \in 1 .. n,
             q[j].price.amount <= q[k].price.amount
      PROVE  m.chart[shown[j]] <= m.chart[shown[k]]
  <2>1. ASSUME NEW i \in 1 .. n
        PROVE  shown[i] \in 1 .. w /\ Column(q, w, shown[i]) = q[i].price.amount
    <3>1. \E c \in 1 .. w : i \in bucket[c]
      BY <1>4, <1>5
    <3>2. shown[i] = CHOOSE c \in 1 .. w : i \in bucket[c]
      OBVIOUS
    <3> HIDE DEF bucket, shown
    <3>3. shown[i] \in 1 .. w /\ i \in bucket[shown[i]]
      BY <3>1, <3>2
    <3>4. Bucket(n, w, shown[i]) = {i}
      <4> HIDE DEF n
      <4>1. PICK x \in 1 .. n : Bucket(n, w, shown[i]) = {x}
        BY <1>4, <1>8, <3>3
      <4>2. i \in Bucket(n, w, shown[i])
        BY <1>5, <3>3
      <4> QED
        BY <4>1, <4>2
    <3> DEFINE c == shown[i]
    <3>5. w \in Nat \ {0} /\ c \in 1 .. w /\ Bucket(Len(q), w, c) = {i}
      BY <3>3, <3>4
    <3> HIDE DEF c
    <3>6. Column(q, w, c) = q[i].price.amount
      <4>1. \A x : Bucket(Len(q), w, c) = {x} => Column(q, w, c) = q[x].price.amount
        BY <3>5, ColumnFacts
      <4> QED
        BY <3>5, <4>1
    <3> QED
      BY <3>5, <3>6 DEF c
  <2> HIDE DEF shown
  <2> QED
    BY <1>2, <1>8, <2>1
<1> QED
  <2>1. /\ m.chart = <<>> <=> n < 2
        /\ UNION {bucket[c] : c \in 1 .. w} = 1 .. n
        /\ m.chart # <<>> =>
              /\ m.caption = <<q[1].price, q[n].price>>
              /\ 1 \in bucket[1] /\ n \in bucket[w]
              /\ ToSet(m.chart) \subseteq 0 .. 7 /\ 0 \in ToSet(m.chart)
              /\ n <= w => \A j, k \in 1 .. n :
                    q[j].price.amount <= q[k].price.amount =>
                        m.chart[shown[j]] <= m.chart[shown[k]]
    <3> HIDE DEF bucket, shown, n
    <3> QED
      BY <1>1, <1>2, <1>6, <1>7, <1>8
  <2> QED
    BY <2>1 DEF Drawn, m

\* Within the limit, History returns the whole window.
LEMMA HistoryFacts ==
    ASSUME NEW S, Timed(S), NEW from \in Int, Cardinality(InWindow(S, from)) <= HistoryLimit
    PROVE  Lists(RepoHistory(S, from), InWindow(S, from))
<1> DEFINE T == InWindow(S, from)
           rows == OldestFirst(T)
           n == Len(rows)
<1>1. Timed(T)
  BY PartTimed DEF InWindow
<1>2. Lists(rows, T)
  BY <1>1, OldestFirstLists
<1>3. RepoHistory(S, from) = SubSeq(rows, 1, Min({n, HistoryLimit}))
  BY DEF RepoHistory
<1> HIDE DEF T, rows
<1>4. rows \in Seq(T) /\ n \in Nat /\ n <= HistoryLimit
  BY <1>2 DEF Lists, T
<1> HIDE DEF n
<1>5. Min({n, HistoryLimit}) = n
  <2>1. HistoryLimit \in Nat
    BY HistoryLimitAssumption
  <2>2. n \in {n, HistoryLimit} /\ \A y \in {n, HistoryLimit} : n =< y /\ (y =< n => y = n)
    BY <1>4, <2>1
  <2>3. Min({n, HistoryLimit}) \in {n, HistoryLimit} /\ Min({n, HistoryLimit}) =< n
    BY <2>2 DEF Min
  <2> QED
    BY <2>2, <2>3
<1>6. SubSeq(rows, 1, n) = rows
  BY <1>4 DEF n
<1> QED
  BY <1>2, <1>3, <1>5, <1>6 DEF T

-----------------------------------------------------------------------------
\* Every answer to /stats.

\* What is told of a history with its times apart.
LEMMA HistoryTold ==
    ASSUME NEW S, Timed(S), Priced(S),
           \A s \in S : s.price = In(s.price.amount, s.price.currency),
           NEW from \in Int
    PROVE  LET seen == InWindow(S, from)
               told == {StatsFromProto(StatsToProto(s)) : s \in RepoStats(S, from)}
           IN  /\ told = {} <=> seen = {}
               /\ \A s \in told :
                  /\ Consistent(s)
                  /\ \E l \in Newest(S) : s.current = l.price /\ s.inStock = l.inStock
                  /\ OneCurrency(seen) =>
                        /\ \A m \in MemStats(OldestFirst(S), from) : SameAsMemory(s, m)
                        /\ Cardinality(seen) <= HistoryLimit =>
                              \A w \in Widths : Drawn(s, RepoHistory(S, from), w)
<1> DEFINE seen == InWindow(S, from)
           rows == WindowRows(S, from)
           told == {StatsFromProto(StatsToProto(s)) : s \in RepoStats(S, from)}
<1>1. CASE seen = {}
  BY <1>1, RepoFacts
<1>2. CASE seen # {}
  <2>1. PICK l \in seen, o \in rows :
            /\ Newest(S) = {l} /\ \A t \in S : t.at <= l.at
            /\ rows = {s \in seen : s.price.currency = l.price.currency}
            /\ \A t \in rows : o.at <= t.at
            /\ RepoStats(S, from) = {StatsOf(rows, o, l)}
    BY <1>2, RepoFacts
  <2>2. seen \in SUBSET S /\ rows \in SUBSET seen /\ l \in rows
    BY <2>1 DEF InWindow
  <2> DEFINE s == StatsOf(rows, o, l)
  <2> HIDE DEF rows, seen
  <2>3. IsFiniteSet(rows) /\ Timed(seen) /\ IsFiniteSet(seen) /\ Priced(rows) /\ Priced(seen)
    BY <2>2, PartTimed DEF Timed, Priced
  <2>4. StatsFromProto(StatsToProto(s)) = s /\ Consistent(s)
    <3>1. \A r \in rows : r.price.currency = l.price.currency
      BY <2>1
    <3> QED
      BY <2>2, <2>3, <3>1, StatsFit
  <2>5. told = {s}
    BY <2>1, <2>4
  <2>6. s.current = l.price /\ s.inStock = l.inStock /\ s.first = o.price
    BY DEF StatsOf
  <2>7. ASSUME OneCurrency(seen)
        PROVE  /\ \A m \in MemStats(OldestFirst(S), from) : SameAsMemory(s, m)
               /\ Cardinality(seen) <= HistoryLimit =>
                     \A w \in Widths : Drawn(s, RepoHistory(S, from), w)
    <3>1. rows = seen
      BY <2>1, <2>2, <2>3, <2>7, CurrencyFacts
    <3>2. /\ \A t \in seen : t.at <= l.at /\ t.price.currency = l.price.currency
          /\ o \in seen /\ \A t \in seen : o.at <= t.at
          /\ \A t \in seen : t.price = In(t.price.amount, t.price.currency)
      BY <2>1, <2>2, <3>1
    <3>3. ASSUME NEW m \in MemStats(OldestFirst(S), from) PROVE SameAsMemory(s, m)
      <4>1. PICK q : Lists(q, seen) /\ m = AggregateStats(q)
        BY MemFacts DEF seen
      <4>2. SameAsMemory(StatsOf(seen, o, l), AggregateStats(q))
        BY <2>3, <3>2, <4>1, AggregateAgrees
      <4> QED
        BY <3>1, <4>1, <4>2
    <3>4. ASSUME Cardinality(seen) <= HistoryLimit, NEW w \in Widths
          PROVE  Drawn(s, RepoHistory(S, from), w)
      <4> DEFINE q == RepoHistory(S, from)
      <4>1. Lists(q, seen)
        BY <3>4, HistoryFacts DEF seen
      <4> HIDE DEF q, s
      <4>2. q \in Seq(seen) /\ q # <<>> /\ q[1] = o /\ q[Len(q)] = l
        BY <2>3, <3>2, <4>1, ListEnds
      <4>3. w \in Nat \ {0, 1}
        BY WidthsAssumption
      <4>4. Drawn(s, q, w)
        BY <2>3, <2>6, <4>2, <4>3, ListDrawn
      <4> QED
        BY <4>4 DEF q
    <3> QED
      BY <3>3, <3>4
  <2> HIDE DEF s, told
  <2>8. /\ told = {} <=> seen = {}
        /\ \A t \in told :
            /\ Consistent(t)
            /\ \E k \in Newest(S) : t.current = k.price /\ t.inStock = k.inStock
            /\ OneCurrency(seen) =>
                  /\ \A m \in MemStats(OldestFirst(S), from) : SameAsMemory(t, m)
                  /\ Cardinality(seen) <= HistoryLimit =>
                        \A w \in Widths : Drawn(t, RepoHistory(S, from), w)
    BY <1>2, <2>1, <2>4, <2>5, <2>6, <2>7
  <2> QED
    BY <2>8 DEF seen, told
<1> QED
  BY <1>1, <1>2

\* Histories are finite.
HistoriesFinite == \A i \in Items : IsFiniteSet(snapshots[i])

\* There are no histories at first.
LEMMA FiniteInit == Init => HistoriesFinite
BY FS_EmptySet DEF Init, HistoriesFinite

\* A transaction inserts one snapshot at most.
LEMMA FiniteStep == TypeOK /\ HistoriesFinite /\ [Next]_vars => HistoriesFinite'
<1> SUFFICES ASSUME TypeOK, HistoriesFinite, [Next]_vars, NEW i \in Items
             PROVE  IsFiniteSet(snapshots'[i])
  BY DEF HistoriesFinite
<1>1. CASE snapshots'[i] \in SUBSET snapshots[i]
  BY <1>1, FS_Subset DEF HistoriesFinite
<1>2. CASE ~(snapshots'[i] \in SUBSET snapshots[i])
  <2>1. PICK j \in Items, o \in Observation : RecordSnapshot(j, o)
    BY <1>2 DEF Next, CreateItem, UpdateItem, DeleteItem, AlertsWithout, RecordFailure,
                ClaimDueItems, Tick, vars, TypeOK
  <2>2. PICK new \in Snapshot :
            /\ new.at = o.at
            /\ snapshots' = [snapshots EXCEPT ![j] = @ \cup {new}]
    BY <2>1, RecordedSnapshot
  <2>3. j = i /\ snapshots'[i] = snapshots[i] \cup {new}
    BY <1>2, <2>2 DEF TypeOK
  <2> QED
    BY <2>3, FS_AddElement DEF HistoriesFinite
<1> QED
  BY <1>1, <1>2

\* Any history of the tables is told as it is.
LEMMA TableTold == TypeOK /\ StampsApart /\ HistoriesFinite => TablesTold
<1> SUFFICES ASSUME TypeOK, StampsApart, HistoriesFinite, NEW i \in Items, NEW from \in Stamps
             PROVE
        LET snaps == snapshots[i]
            seen == InWindow(snaps, from)
            history == RepoHistory(snaps, from)
            told == Answers(snaps, from)
        IN  /\ told = {} <=> seen = {}
            /\ \A s \in told :
                  /\ Consistent(s)
                  /\ \E l \in Newest(snaps) : s.current = l.price /\ s.inStock = l.inStock
                  /\ OneCurrency(seen) =>
                        /\ \A m \in MemStats(OldestFirst(snaps), from) : SameAsMemory(s, m)
                        /\ Cardinality(seen) <= HistoryLimit =>
                              \A w \in Widths : Drawn(s, history, w)
  BY DEF TablesTold
<1> DEFINE S == snapshots[i]
<1>1. S \in SUBSET Snapshot /\ from \in Int
  BY StampsAssumption DEF TypeOK
<1>2. Timed(S)
  <2>1. \A s \in S : s.at \in Nat
    BY <1>1, StampsAssumption DEF Snapshot
  <2> QED
    BY <2>1 DEF Timed, StampsApart, HistoriesFinite
<1>3. Priced(S) /\ \A s \in S : s.price = In(s.price.amount, s.price.currency)
  BY <1>1, AmountsAssumption DEF Priced, Snapshot, Money, In
<1> HIDE DEF S
<1>4. LET seen == InWindow(S, from)
          told == {StatsFromProto(StatsToProto(s)) : s \in RepoStats(S, from)}
      IN  /\ told = {} <=> seen = {}
          /\ \A s \in told :
                /\ Consistent(s)
                /\ \E l \in Newest(S) : s.current = l.price /\ s.inStock = l.inStock
                /\ OneCurrency(seen) =>
                      /\ \A m \in MemStats(OldestFirst(S), from) : SameAsMemory(s, m)
                      /\ Cardinality(seen) <= HistoryLimit =>
                            \A w \in Widths : Drawn(s, RepoHistory(S, from), w)
  BY <1>1, <1>2, <1>3, HistoryTold
<1> QED
  BY <1>4, Zenon DEF Answers, S

-----------------------------------------------------------------------------
\* Answers that are kept while the tables move on.

\* The amounts of an answer are prices of the rows it was computed from.
LEMMA AmountsOfRows ==
    ASSUME NEW rows, IsFiniteSet(rows), Priced(rows), NEW o \in rows, NEW l \in rows,
           \A r \in rows : /\ r.price.currency = l.price.currency
                           /\ r.price = In(r.price.amount, r.price.currency)
    PROVE  LET s == StatsOf(rows, o, l)
           IN  \A m \in {s.min, s.max, s.first, s.current} : \E r \in rows : r.price = m
<1> DEFINE s == StatsOf(rows, o, l)
           lo == Min(AmountsOf(rows))
           hi == Max(AmountsOf(rows))
<1>1. /\ \E r \in rows : lo = r.price.amount
      /\ \E r \in rows : hi = r.price.amount
  BY AmountEnds DEF Priced
<1>2. /\ s.current = l.price /\ s.first = o.price
      /\ s.min = In(lo, l.price.currency) /\ s.max = In(hi, l.price.currency)
  BY DEF StatsOf
<1> HIDE DEF s, lo, hi
<1>3. (\E r \in rows : r.price = s.min) /\ (\E r \in rows : r.price = s.max)
  BY <1>1, <1>2
<1> QED
  BY <1>2, <1>3 DEF s

\* An answer computed from a part S of what the tables T have now.
LEMMA ReplyHolds ==
    ASSUME NEW T, Timed(T), Priced(T),
           \A r \in T : r.price = In(r.price.amount, r.price.currency),
           NEW S \in SUBSET T, NEW since \in Int, NEW s \in Answers(S, since)
    PROVE  /\ Consistent(s)
           /\ \A m \in {s.min, s.max, s.first, s.current} : \E r \in T : r.price = m
           /\ \A from \in Int :
                 LET seen == InWindow(T, from)
                 IN  OneCurrency(seen) /\ Counts(s, seen, from) => s \in Answers(T, from)
<1> DEFINE then == WindowRows(S, since)
<1>1. Timed(S) /\ Priced(S)
  BY PartTimed DEF Priced
<1>2. InWindow(S, since) # {}
  BY <1>1, RepoFacts DEF Answers
<1>3. PICK l \in InWindow(S, since), o \in then :
          /\ then = {r \in InWindow(S, since) : r.price.currency = l.price.currency}
          /\ \A t \in S : t.at <= l.at
          /\ \A t \in then : o.at <= t.at
          /\ RepoStats(S, since) = {StatsOf(then, o, l)}
  BY <1>1, <1>2, RepoFacts
<1>4. then \in SUBSET S /\ l \in then
  BY <1>3 DEF InWindow
<1> HIDE DEF then
<1>5. /\ IsFiniteSet(then) /\ Timed(then) /\ Priced(then)
      /\ \A r \in then : /\ r.price.currency = l.price.currency
                         /\ r.price = In(r.price.amount, r.price.currency)
  BY <1>1, <1>3, <1>4, PartTimed DEF Priced, Timed
<1>6. /\ StatsFromProto(StatsToProto(StatsOf(then, o, l))) = StatsOf(then, o, l)
      /\ Consistent(StatsOf(then, o, l))
  BY <1>4, <1>5, StatsFit
<1>7. s = StatsOf(then, o, l)
  BY <1>3, <1>6 DEF Answers
<1>8. \A m \in {s.min, s.max, s.first, s.current} : \E r \in T : r.price = m
  <2>1. \A m \in {s.min, s.max, s.first, s.current} : \E r \in then : r.price = m
    BY <1>4, <1>5, <1>7, AmountsOfRows
  <2> QED
    BY <1>4, <2>1
<1>9. ASSUME NEW from \in Int, OneCurrency(InWindow(T, from)),
             Counts(s, InWindow(T, from), from)
      PROVE  s \in Answers(T, from)
  <2> DEFINE seen == InWindow(T, from)
             rows == WindowRows(T, from)
  <2>1. s.samples = Cardinality(then) /\ s.windowFrom = o.at
    BY <1>7 DEF StatsOf
  <2>2. then \in SUBSET seen
    <3> SUFFICES ASSUME NEW r \in then PROVE r.at >= from
      BY <1>4 DEF InWindow
    <3>1. o.at \in Nat /\ r.at \in Nat /\ o.at <= r.at
      BY <1>3, <1>5 DEF Timed
    <3>2. o.at >= from
      BY <1>9, <2>1 DEF Counts
    <3> QED
      BY <3>1, <3>2
  <2>3. seen \in SUBSET T /\ Timed(seen) /\ IsFiniteSet(seen)
    BY PartTimed DEF InWindow, Timed
  <2>4. Cardinality(then) = Cardinality(seen)
    BY <1>9, <2>1 DEF Counts
  <2> HIDE DEF seen
  <2>5. then = seen
    BY <2>2, <2>3, <2>4, FS_Subset, Zenon
  <2>6. seen # {}
    BY <1>4, <2>5
  <2>7. PICK k \in seen, q \in rows :
            /\ \A t \in T : t.at <= k.at
            /\ rows = {r \in seen : r.price.currency = k.price.currency}
            /\ \A t \in rows : q.at <= t.at
            /\ RepoStats(T, from) = {StatsOf(rows, q, k)}
    BY <2>6, RepoFacts DEF seen
  <2>8. rows = seen
    BY <1>9, <2>3, <2>7, CurrencyFacts DEF seen
  <2> HIDE DEF rows
  <2>9. k = l
    <3>1. k \in S /\ l \in T /\ k \in seen /\ l \in seen
      BY <1>4, <2>5
    <3>2. k.at <= l.at /\ l.at <= k.at /\ k.at \in Nat /\ l.at \in Nat
      BY <1>3, <2>3, <2>7, <3>1 DEF Timed
    <3>3. k.at = l.at
      BY <3>2
    <3> QED
      BY <2>3, <3>1, <3>3 DEF Timed
  <2>10. q = o
    <3>1. q \in seen /\ o \in seen
      BY <2>5, <2>8
    <3>2. q.at <= o.at /\ o.at <= q.at /\ q.at \in Nat /\ o.at \in Nat
      BY <1>3, <2>3, <2>5, <2>7, <2>8, <3>1 DEF Timed
    <3>3. q.at = o.at
      BY <3>2
    <3> QED
      BY <2>3, <3>1, <3>3 DEF Timed
  <2>11. RepoStats(T, from) = {s}
    BY <1>7, <2>5, <2>7, <2>8, <2>9, <2>10
  <2> QED
    BY <1>6, <1>7, <2>11 DEF Answers
<1> QED
  BY <1>6, <1>7, <1>8, <1>9

\* No item is born twice, and while it lives its history only grows.
LEMMA HistoryGrows ==
    ASSUME TypeOK, [Next]_vars, NEW i \in Items
    PROVE  /\ status'[i] = "unborn" => status[i] = "unborn"
           /\ status'[i] = "live" => /\ status[i] \in {"unborn", "live"}
                                     /\ snapshots[i] \in SUBSET snapshots'[i]
<1>1. CASE UNCHANGED vars
  BY <1>1 DEF vars, TypeOK
<1>2. ASSUME NEW j \in Items, NEW t \in Targets, NEW d \in Intervals, CreateItem(j, t, d)
      PROVE  /\ status'[i] = "unborn" => status[i] = "unborn"
             /\ status'[i] = "live" => /\ status[i] \in {"unborn", "live"}
                                       /\ snapshots[i] \in SUBSET snapshots'[i]
  BY <1>2 DEF CreateItem, TypeOK
<1>3. ASSUME NEW j \in Items, DeleteItem(j)
      PROVE  /\ status'[i] = "unborn" => status[i] = "unborn"
             /\ status'[i] = "live" => /\ status[i] \in {"unborn", "live"}
                                       /\ snapshots[i] \in SUBSET snapshots'[i]
  BY <1>3 DEF DeleteItem, TypeOK
<1>4. ASSUME NEW j \in Items, NEW o \in Observation, RecordSnapshot(j, o)
      PROVE  /\ status'[i] = "unborn" => status[i] = "unborn"
             /\ status'[i] = "live" => /\ status[i] \in {"unborn", "live"}
                                       /\ snapshots[i] \in SUBSET snapshots'[i]
  <2>1. PICK new \in Snapshot : snapshots' = [snapshots EXCEPT ![j] = @ \cup {new}]
    BY <1>4, RecordedSnapshot
  <2>2. UNCHANGED status
    BY <1>4 DEF RecordSnapshot
  <2> QED
    BY <2>1, <2>2 DEF TypeOK
<1>5. CASE UNCHANGED <<status, snapshots>>
  BY <1>5 DEF TypeOK
<1>6. \/ UNCHANGED <<status, snapshots>>
      \/ \E j \in Items, t \in Targets, d \in Intervals : CreateItem(j, t, d)
      \/ \E j \in Items : DeleteItem(j)
      \/ \E j \in Items, o \in Observation : RecordSnapshot(j, o)
  BY DEF Next, UpdateItem, RecordFailure, ClaimDueItems, Tick, vars
<1> QED
  BY <1>2, <1>3, <1>4, <1>5, <1>6

\* What Cached rests on: the tables an answer was computed from (grpc.go's GetStats) are
\* still there when it is given from Redis, since rows are only added to a live item.
THEOREM RowsStay ==
    Spec => [][\A i \in Items : status[i] = "live" /\ status'[i] = "live" =>
                  snapshots[i] \in SUBSET snapshots'[i]]_vars
<1>1. TypeOK /\ [Next]_vars =>
        [\A i \in Items : status[i] = "live" /\ status'[i] = "live" =>
            snapshots[i] \in SUBSET snapshots'[i]]_vars
  BY HistoryGrows
<1> QED
  BY <1>1, TypeCorrect, PTL DEF Spec

\* What was kept still fits the tables.
LEMMA KeptHolds == TypeOK /\ StampsApart /\ HistoriesFinite => RepliesHold
<1> SUFFICES ASSUME TypeOK, StampsApart, HistoriesFinite,
                    NEW i \in Items, NEW s \in Cached(snapshots[i])
             PROVE  /\ Consistent(s)
                    /\ \A m \in {s.min, s.max, s.first, s.current} :
                          \E r \in snapshots[i] : r.price = m
                    /\ \A from \in Stamps :
                          OneCurrency(InWindow(snapshots[i], from))
                          /\ Counts(s, InWindow(snapshots[i], from), from)
                              => s \in Answers(snapshots[i], from)
  BY DEF RepliesHold
<1> DEFINE T == snapshots[i]
<1>1. T \in SUBSET Snapshot /\ Stamps \subseteq Int
  BY StampsAssumption DEF TypeOK
<1>2. Timed(T)
  <2>1. \A r \in T : r.at \in Nat
    BY <1>1, StampsAssumption DEF Snapshot
  <2> QED
    BY <2>1 DEF Timed, StampsApart, HistoriesFinite
<1>3. Priced(T) /\ \A r \in T : r.price = In(r.price.amount, r.price.currency)
  BY <1>1, AmountsAssumption DEF Priced, Snapshot, Money, In
<1>4. PICK S \in SUBSET T : s \in Answers(S, 0)
  BY DEF Cached
<1> HIDE DEF T
<1>5. /\ Consistent(s)
      /\ \A m \in {s.min, s.max, s.first, s.current} : \E r \in T : r.price = m
      /\ \A from \in Int :
            LET seen == InWindow(T, from)
            IN  OneCurrency(seen) /\ Counts(s, seen, from) => s \in Answers(T, from)
  <2>1. 0 \in Int
    OBVIOUS
  <2> QED
    BY <1>2, <1>3, <1>4, <2>1, ReplyHolds
<1> QED
  BY <1>1, <1>5 DEF T

\* Every answer to /stats, however many readings there are and in whatever order they
\* came: what is computed is in the newest reading's currency and fits together, the
\* memory store tells the same and the chart is the history's; and what was computed
\* earlier and is still in Redis, next to a history that has grown since, is made of
\* prices of the item and is the answer of now if it counts the readings of now.
THEOREM StatsAlwaysTold == Spec => []StatsTold
<1> DEFINE Known == TypeOK /\ StampsApart /\ HistoriesFinite
<1>1. Init => Known
  BY TypeInit, StampsInit, FiniteInit
<1>2. Known /\ [Next]_vars => Known'
  BY TypeStep, StampsStep, FiniteStep
<1>3. Known => StatsTold
  BY TableTold, KeptHolds DEF StatsTold
<1> QED
  BY <1>1, <1>2, <1>3, PTL DEF Spec
=============================================================================
