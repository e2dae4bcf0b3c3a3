---------------------------- MODULE PricingProofs ----------------------------
(***************************************************************************)
(* Safety of the core tables for every choice of the constants.            *)
(***************************************************************************)
EXTENDS PricingRefinement, FoldFacts

\* The keys a snapshot decides on are well formed.
LEMMA DecideAlertsType ==
    ASSUME NEW target \in Targets \cup {{}}, NEW previous \in SUBSET Snapshot,
           NEW low, low \subseteq Money, NEW new \in Snapshot
    PROVE  DecideAlerts(target, previous, low, new) \subseteq DedupKey
<1>1. StockAlerts(previous, new) \subseteq DedupKey
  <2>1. new.at \in Nat
    BY StampsAssumption DEF Snapshot
  <2>2. PlainKey("back_in_stock", new.at) \in DedupKey
    BY <2>1 DEF PlainKey, DedupKey, AlertKinds
  <2>3. PlainKey("out_of_stock", new.at) \in DedupKey
    BY <2>1 DEF PlainKey, DedupKey, AlertKinds
  <2> QED
    BY <2>2, <2>3 DEF StockAlerts
<1>2. \A t \in target : PriceIn(new, t.currency) \subseteq Money
  BY DEF PriceIn, Snapshot, Option
<1>3. DropAlerts(target, previous, new) \subseteq DedupKey
  <2>1. \A m \in Money : PriceKey("price_drop", m) \in DedupKey
    BY AmountsAssumption DEF PriceKey, DedupKey, AlertKinds, Money
  <2> DEFINE reached(t) == {p \in PriceIn(new, t.currency) :
                           /\ p.amount <= t.amount
                           /\ \A q \in previous : ~AtOrBelow(q, t)}
  <2>2. UNION {reached(t) : t \in target} \subseteq Money
    BY <1>2
  <2> QED
    BY <2>1, <2>2 DEF DropAlerts
<1>4. LowAlerts(low, new) \subseteq DedupKey
  BY AmountsAssumption DEF LowAlerts, PriceKey, DedupKey, AlertKinds, Snapshot, Money
<1> QED
  BY <1>1, <1>3, <1>4 DEF DecideAlerts

LEMMA DecideFailureAlertType ==
    ASSUME NEW streak \in Nat
    PROVE  DecideFailureAlert(streak, FailureStreakThreshold) \subseteq DedupKey
BY DEF DecideFailureAlert, PlainKey, DedupKey, AlertKinds

LEMMA BackoffBound ==
    ASSUME NEW interval, NEW streak
    PROVE  Backoff(interval, streak) \in 0 .. MaxFailureBackoff
BY TicksAssumption DEF Backoff
-----------------------------------------------------------------------------

\* What a recorded snapshot is, pulled out of RecordSnapshot once.
LEMMA RecordedSnapshot ==
    ASSUME TypeOK, NEW i \in Items, NEW o \in Observation, RecordSnapshot(i, o)
    PROVE  \E new \in Snapshot :
               /\ \/ o.price # {} /\ new.price \in o.price
                  \/ /\ o.price = {}
                     /\ \E p \in snapshots[i] : new.price = p.price
               /\ new.at = o.at
               /\ snapshots' = [snapshots EXCEPT ![i] = @ \cup {new}]
               /\ alerts' = [alerts EXCEPT ![i] = @ \cup
                      DecideAlerts(item[i].target, Latest(snapshots[i]),
                          AllTimeMinimum(snapshots[i], new.price.currency), new)]
<1>1. PICK price \in PriceOf(o, Latest(snapshots[i])) :
        LET new == [at |-> o.at, price |-> price, converted |-> o.converted,
                    inStock |-> o.inStock]
            decided == DecideAlerts(item[i].target, Latest(snapshots[i]),
                           AllTimeMinimum(snapshots[i], price.currency), new)
        IN  /\ snapshots' = [snapshots EXCEPT ![i] = @ \cup {new}]
            /\ alerts' = [alerts EXCEPT ![i] = @ \cup decided]
  BY DEF RecordSnapshot
<1> DEFINE new == [at |-> o.at, price |-> price, converted |-> o.converted,
                   inStock |-> o.inStock]
<1>2. snapshots[i] \in SUBSET Snapshot
  BY DEF TypeOK
<1>3. \/ o.price # {} /\ price \in o.price
      \/ o.price = {} /\ \E p \in snapshots[i] : price = p.price
  BY <1>1 DEF PriceOf, Latest
<1>4. price \in Money
  BY <1>2, <1>3 DEF Observation, Snapshot, Option
<1>5. new \in Snapshot
  BY <1>4 DEF Observation, Snapshot
<1> QED
  BY <1>1, <1>3, <1>5

LEMMA TypeInit == Init => TypeOK
BY IntervalsAssumption DEF Init, TypeOK, Row

LEMMA TypeStep == TypeOK /\ [Next]_vars => TypeOK'
<1> SUFFICES ASSUME TypeOK, [Next]_vars PROVE TypeOK'
  OBVIOUS
<1> USE DEF TypeOK
<1>1. ASSUME NEW i \in Items, NEW t \in Targets, NEW d \in Intervals,
             CreateItem(i, t, d)
      PROVE  TypeOK'
  <2> DEFINE row == [item[i] EXCEPT !.target = t, !.interval = d]
  <2>1. row \in Row
    BY DEF Row
  <2> HIDE DEF row
  <2>2. item' = [item EXCEPT ![i] = row]
    BY <1>1 DEF CreateItem, row
  <2> QED
    BY <1>1, <2>1, <2>2 DEF CreateItem
<1>2. ASSUME NEW i \in Items, NEW t \in Targets, NEW d \in Intervals,
             NEW named \in BOOLEAN, NEW active \in BOOLEAN,
             UpdateItem(i, t, d, named, active)
      PROVE  TypeOK'
  <2> DEFINE row == [item[i] EXCEPT !.target = t, !.active = active,
                         !.interval = d,
                         !.next = IF named THEN Least(item[i].next, d)
                                  ELSE item[i].next]
  <2>1. item[i].next \in Nat /\ d \in Nat
    BY IntervalsAssumption DEF Row
  <2>2. Least(item[i].next, d) \in Nat
    BY <2>1 DEF Least
  <2>3. row \in Row
    BY <2>1, <2>2 DEF Row
  <2>4. item' = [item EXCEPT ![i] = row]
    BY <1>2 DEF UpdateItem, NextCheck
  <2>5. item' \in [Items -> Row]
    BY <2>3, <2>4
  <2>6. retargeted' \subseteq Items
    BY <1>2 DEF UpdateItem, NextCheck
  <2> QED
    BY <1>2, <2>5, <2>6 DEF UpdateItem, NextCheck
<1>3. ASSUME NEW i \in Items, DeleteItem(i) PROVE TypeOK'
  BY <1>3 DEF DeleteItem, AlertsWithout
<1>4. ASSUME NEW i \in Items, NEW o \in Observation, RecordSnapshot(i, o)
      PROVE  TypeOK'
  <2>1. item' \in [Items -> Row]
    <3> DEFINE row == [item[i] EXCEPT !.streak = 0, !.lease = 0,
                                      !.next = item[i].interval]
    <3>1. row \in Row
      BY IntervalsAssumption DEF Row
    <3>2. item' = [item EXCEPT ![i] = row]
      BY <1>4 DEF RecordSnapshot
    <3> QED
      BY <3>1, <3>2
  <2>2. PICK new \in Snapshot :
             /\ snapshots' = [snapshots EXCEPT ![i] = @ \cup {new}]
             /\ alerts' = [alerts EXCEPT ![i] = @ \cup
                    DecideAlerts(item[i].target, Latest(snapshots[i]),
                        AllTimeMinimum(snapshots[i], new.price.currency), new)]
    BY <1>4, RecordedSnapshot
  <2>3. DecideAlerts(item[i].target, Latest(snapshots[i]),
            AllTimeMinimum(snapshots[i], new.price.currency), new) \subseteq DedupKey
    BY DecideAlertsType DEF Latest, AllTimeMinimum, Row, Snapshot
  <2>4. UNCHANGED <<status, retargeted>>
    BY <1>4 DEF RecordSnapshot
  <2> QED
    BY <2>1, <2>2, <2>3, <2>4
<1>5. ASSUME NEW i \in Items, RecordFailure(i) PROVE TypeOK'
  <2>1. item[i].streak + 1 \in Nat
    BY DEF Row
  <2>2. item' \in [Items -> Row]
    <3> DEFINE backoff == Backoff(item[i].interval, item[i].streak + 1)
               row == [item[i] EXCEPT !.streak = item[i].streak + 1,
                                      !.lease = 0, !.next = backoff]
    <3>1. backoff \in Nat
      BY BackoffBound, TicksAssumption
    <3> HIDE DEF backoff
    <3>2. row \in Row
      BY <2>1, <3>1 DEF Row
    <3>3. item' = [item EXCEPT ![i] = row]
      BY <1>5 DEF RecordFailure, backoff
    <3> QED
      BY <3>2, <3>3
  <2>3. alerts' \in [Items -> SUBSET DedupKey]
    BY <1>5, <2>1, DecideFailureAlertType DEF RecordFailure
  <2> QED
    BY <1>5, <2>2, <2>3 DEF RecordFailure
<1>6. ASSUME NEW batch \in SUBSET Items, ClaimDueItems(batch) PROVE TypeOK'
  <2>1. \A i \in Items : [item[i] EXCEPT !.lease = LeaseTicks] \in Row
    BY TicksAssumption DEF Row
  <2> QED
    BY <1>6, <2>1 DEF ClaimDueItems
<1>7. CASE Tick
  <2>1. \A n \in Nat : OneLess(n) \in Nat
    BY DEF OneLess
  <2>2. \A i \in Items : [item[i] EXCEPT !.next = OneLess(item[i].next),
                             !.lease = OneLess(item[i].lease)] \in Row
    BY <2>1 DEF Row
  <2> QED
    BY <1>7, <2>2 DEF Tick
<1>8. CASE UNCHANGED vars
  BY <1>8 DEF vars
<1> QED
  BY <1>1, <1>2, <1>3, <1>4, <1>5, <1>6, <1>7, <1>8 DEF Next

\* Every table keeps its shape: no transaction writes a row or a key that the
\* schema would reject.
THEOREM TypeCorrect == Spec => []TypeOK
BY TypeInit, TypeStep, PTL DEF Spec
-----------------------------------------------------------------------------
(***************************************************************************)
(* The schedule and the failure streak.  A row that was never inserted has *)
(* its initial counters, which is what CreateItem relies on.               *)
(***************************************************************************)

Untouched ==
    \A i \in Items : status[i] = "unborn" =>
        /\ item[i].streak = 0 /\ item[i].next = 0 /\ item[i].lease = 0
        /\ snapshots[i] = {} /\ alerts[i] = {}

ScheduleInv == Untouched /\ ScheduleBound /\ LeasedIsDue

LEMMA ScheduleStep == TypeOK /\ ScheduleInv /\ [Next]_vars => ScheduleInv'
<1> SUFFICES ASSUME TypeOK, ScheduleInv, [Next]_vars PROVE ScheduleInv'
  OBVIOUS
<1> USE DEF ScheduleInv, Untouched, ScheduleBound, LeasedIsDue
<1>0. \A j \in Items : item[j] \in Row /\ item[j].interval \in Nat \ {0}
  BY IntervalsAssumption DEF TypeOK, Row
<1>1. ASSUME NEW i \in Items, NEW t \in Targets, NEW d \in Intervals,
             CreateItem(i, t, d)
      PROVE  ScheduleInv'
  BY <1>0, <1>1, IntervalsAssumption, TicksAssumption DEF CreateItem, TypeOK, Row
<1>2. ASSUME NEW i \in Items, NEW t \in Targets, NEW d \in Intervals,
             NEW named \in BOOLEAN, NEW active \in BOOLEAN,
             UpdateItem(i, t, d, named, active)
      PROVE  ScheduleInv'
  <2>1. /\ item' \in [Items -> Row]
        /\ item'[i].streak = item[i].streak
        /\ item'[i].lease = item[i].lease
        /\ item'[i].interval = d
        /\ item'[i].next = IF named THEN Least(item[i].next, d) ELSE item[i].next
        /\ \A j \in Items \ {i} : item'[j] = item[j]
    <3>1. item' \in [Items -> Row]
      BY TypeStep DEF TypeOK
    <3> QED
      BY <1>2, <3>1 DEF UpdateItem, NextCheck, TypeOK, Row
  <2>2. d \in Nat \ {0}
    BY IntervalsAssumption
  <2>3. item'[i].next <= item[i].next /\ (named => item'[i].next <= d)
    BY <1>0, <2>1, <2>2 DEF Least, Row
  <2>4. /\ status[i] = "live"
        /\ named \/ d = item[i].interval
        /\ UNCHANGED <<status, snapshots, alerts>>
    BY <1>2 DEF UpdateItem, NextCheck
  <2>5. item'[i].next <= IF item'[i].streak = 0 THEN item'[i].interval
                         ELSE MaxFailureBackoff
    BY <1>0, <2>1, <2>2, <2>3, <2>4, TicksAssumption DEF Row
  <2>6. item'[i].lease > 0 => item'[i].next = 0
    BY <1>0, <2>1, <2>3 DEF Row
  <2> QED
    BY <2>1, <2>4, <2>5, <2>6
<1>3. ASSUME NEW i \in Items, DeleteItem(i) PROVE ScheduleInv'
  BY <1>3 DEF DeleteItem, AlertsWithout, TypeOK
<1>4. ASSUME NEW i \in Items, NEW o \in Observation, RecordSnapshot(i, o)
      PROVE  ScheduleInv'
  <2>1. /\ item'[i].streak = 0 /\ item'[i].lease = 0
        /\ item'[i].next = item'[i].interval
        /\ item'[i].interval = item[i].interval
        /\ \A j \in Items \ {i} : item'[j] = item[j]
    BY <1>4 DEF RecordSnapshot, TypeOK, Row
  <2>2. /\ status[i] = "live" /\ status' = status
        /\ \A j \in Items \ {i} : snapshots'[j] = snapshots[j] /\ alerts'[j] = alerts[j]
    <3>1. status[i] = "live" /\ status' = status
      BY <1>4 DEF RecordSnapshot
    <3>2. PICK new \in Snapshot :
              /\ snapshots' = [snapshots EXCEPT ![i] = @ \cup {new}]
              /\ alerts' = [alerts EXCEPT ![i] = @ \cup
                     DecideAlerts(item[i].target, Latest(snapshots[i]),
                         AllTimeMinimum(snapshots[i], new.price.currency), new)]
      <4>1. TypeOK
        BY DEF TypeOK
      <4> QED
        BY <1>4, <4>1, RecordedSnapshot
    <3>3. DOMAIN snapshots = Items /\ DOMAIN alerts = Items
      BY DEF TypeOK
    <3> QED
      BY <3>1, <3>2, <3>3
  <2> QED
    BY <1>0, <2>1, <2>2, TicksAssumption
<1>5. ASSUME NEW i \in Items, RecordFailure(i) PROVE ScheduleInv'
  <2> DEFINE streak == item[i].streak + 1
             backoff == Backoff(item[i].interval, streak)
  <2>1. backoff \in 0 .. MaxFailureBackoff
    BY BackoffBound
  <2> HIDE DEF backoff
  <2>2. /\ item'[i].streak = streak /\ item'[i].lease = 0
        /\ item'[i].next = backoff
        /\ \A j \in Items \ {i} : item'[j] = item[j]
    BY <1>5 DEF RecordFailure, TypeOK, Row, backoff
  <2>3. /\ status[i] = "live" /\ status' = status /\ snapshots' = snapshots
        /\ alerts' = [alerts EXCEPT ![i] =
                         @ \cup DecideFailureAlert(streak, FailureStreakThreshold)]
    BY <1>5 DEF RecordFailure
  <2>4. streak \in Nat \ {0}
    BY <1>0 DEF Row
  <2> QED
    BY <1>0, <2>1, <2>2, <2>3, <2>4, TicksAssumption DEF TypeOK
<1>6. ASSUME NEW batch \in SUBSET Items, ClaimDueItems(batch) PROVE ScheduleInv'
  <2>1. \A j \in Items : /\ item'[j].streak = item[j].streak
                         /\ item'[j].next = item[j].next
                         /\ item'[j].interval = item[j].interval
                         /\ \/ item'[j].lease = item[j].lease
                            \/ status[j] = "live" /\ item'[j].next = 0
    BY <1>0, <1>6 DEF ClaimDueItems, Due, Row
  <2> QED
    BY <1>6, <2>1 DEF ClaimDueItems
<1>7. CASE Tick
  <2>1. \A j \in Items : /\ item'[j].streak = item[j].streak
                         /\ item'[j].next = OneLess(item[j].next)
                         /\ item'[j].interval = item[j].interval
                         /\ item'[j].lease = OneLess(item[j].lease)
    BY <1>0, <1>7 DEF Tick, Row
  <2>2. \A n \in Nat : OneLess(n) \in Nat /\ OneLess(n) <= n
    BY DEF OneLess
  <2>3. \A j \in Items : /\ item'[j].next \in Nat /\ item'[j].next <= item[j].next
                         /\ item'[j].lease \in Nat /\ item'[j].lease <= item[j].lease
    BY <1>0, <2>1, <2>2 DEF Row
  <2>4. status' = status /\ snapshots' = snapshots /\ alerts' = alerts
    BY <1>7 DEF Tick
  <2>5. Untouched'
    BY <1>0, <2>1, <2>3, <2>4 DEF Row
  <2>6. ScheduleBound' /\ LeasedIsDue'
    BY <1>0, <2>1, <2>3, <2>4, TicksAssumption DEF Row
  <2> QED
    BY <2>5, <2>6
<1>8. CASE UNCHANGED vars
  BY <1>8 DEF vars
<1> QED
  BY <1>1, <1>2, <1>3, <1>4, <1>5, <1>6, <1>7, <1>8 DEF Next
-----------------------------------------------------------------------------
(***************************************************************************)
(* The history and the alerts.  Only RecordSnapshot lets either grow.      *)
(***************************************************************************)

\* What DecideAlerts raises, kind by kind.
LEMMA LowKeyDecided ==
    ASSUME NEW target, NEW previous, NEW low, NEW new \in Snapshot,
           NEW k \in DecideAlerts(target, previous, low, new),
           k.kind = "all_time_low"
    PROVE  k.n = new.price.amount /\ k.currency = new.price.currency
<1>1. k \notin StockAlerts(previous, new)
  BY DEF StockAlerts, PlainKey
<1>2. k \notin DropAlerts(target, previous, new)
  BY DEF DropAlerts, PriceKey
<1> QED
  BY <1>1, <1>2 DEF DecideAlerts, LowAlerts, PriceKey

\* A reading in stock at or below the threshold raises a price drop unless the
\* previous reading was already there.
LEMMA DropDecided ==
    ASSUME NEW target, NEW t \in target, NEW previous, NEW low, NEW new,
           new.inStock, AtOrBelow(new, t), \A q \in previous : ~AtOrBelow(q, t)
    PROVE  \E m \in PriceIn(new, t.currency) :
               /\ m.amount <= t.amount
               /\ PriceKey("price_drop", m) \in DecideAlerts(target, previous, low, new)
<1>1. PICK m \in PriceIn(new, t.currency) : m.amount <= t.amount
  BY DEF AtOrBelow
<1>2. PriceKey("price_drop", m) \in DropAlerts(target, previous, new)
  BY <1>1 DEF DropAlerts
<1> QED
  BY <1>1, <1>2 DEF DecideAlerts

LEMMA PriceInCurrency ==
    ASSUME NEW s, NEW c, NEW m \in PriceIn(s, c) PROVE m.currency = c
BY DEF PriceIn

AlertInv == LowKeysWitnessed /\ TargetReached

LEMMA AlertRecordStep ==
    ASSUME TypeOK, AlertInv, NEW i \in Items, NEW o \in Observation,
           RecordSnapshot(i, o)
    PROVE  AlertInv'
<1>1. PICK new \in Snapshot :
        /\ snapshots' = [snapshots EXCEPT ![i] = @ \cup {new}]
        /\ alerts' = [alerts EXCEPT ![i] = @ \cup
               DecideAlerts(item[i].target, Latest(snapshots[i]),
                   AllTimeMinimum(snapshots[i], new.price.currency), new)]
  BY RecordedSnapshot
<1> DEFINE decided == DecideAlerts(item[i].target, Latest(snapshots[i]),
                          AllTimeMinimum(snapshots[i], new.price.currency), new)
<1>2. /\ snapshots'[i] = snapshots[i] \cup {new}
      /\ alerts'[i] = alerts[i] \cup decided
      /\ \A j \in Items \ {i} : snapshots'[j] = snapshots[j] /\ alerts'[j] = alerts[j]
  BY <1>1 DEF TypeOK
<1>3. /\ \A j \in Items : item'[j].target = item[j].target
      /\ retargeted' = retargeted
  BY DEF RecordSnapshot, TypeOK, Row
<1>4. LowKeysWitnessed'
  <2> SUFFICES ASSUME NEW j \in Items, NEW k \in alerts'[j], k.kind = "all_time_low"
               PROVE  \E s \in snapshots'[j] : s.price.amount = k.n
                                               /\ s.price.currency = k.currency
    BY DEF LowKeysWitnessed
  <2>1. CASE k \in alerts[j]
    BY <1>2, <2>1 DEF AlertInv, LowKeysWitnessed
  <2>2. CASE k \notin alerts[j]
    <3>1. j = i /\ k \in decided
      BY <1>2, <2>2
    <3> HIDE DEF decided
    <3>2. k.n = new.price.amount /\ k.currency = new.price.currency
      BY <3>1, LowKeyDecided DEF decided
    <3> QED
      BY <1>2, <3>1, <3>2
  <2> QED
    BY <2>1, <2>2
<1>5. TargetReached'
  <2> HIDE DEF decided
  <2> SUFFICES ASSUME NEW j \in Items \ retargeted, NEW t \in item[j].target,
                      NEW r \in snapshots'[j], AtOrBelow(r, t),
                      \A s \in snapshots'[j] : AtOrBelow(s, t) => s.inStock
               PROVE  \E k \in alerts'[j] : /\ k.kind = "price_drop"
                                            /\ k.currency = t.currency
                                            /\ k.n <= t.amount
    BY <1>3 DEF TargetReached
  <2>1. CASE \E s \in snapshots[j] : AtOrBelow(s, t)
    BY <1>2, <2>1 DEF AlertInv, TargetReached
  <2>2. CASE \A s \in snapshots[j] : ~AtOrBelow(s, t)
    <3>1. j = i /\ r = new
      BY <1>2, <2>2
    <3>2. \A q \in Latest(snapshots[i]) : ~AtOrBelow(q, t)
      BY <2>2, <3>1 DEF Latest
    <3>3. PICK m \in PriceIn(new, t.currency) :
               /\ m.amount <= t.amount
               /\ PriceKey("price_drop", m) \in decided
      BY <3>1, <3>2, DropDecided DEF decided
    <3>4. m.currency = t.currency
      BY PriceInCurrency
    <3> QED
      BY <1>2, <3>1, <3>3, <3>4 DEF PriceKey
  <2> QED
    BY <2>1, <2>2
<1> QED
  BY <1>4, <1>5 DEF AlertInv

LEMMA AlertStep == TypeOK /\ Untouched /\ AlertInv /\ [Next]_vars => AlertInv'
<1> SUFFICES ASSUME TypeOK, Untouched, AlertInv, [Next]_vars PROVE AlertInv'
  OBVIOUS
<1>1. ASSUME NEW i \in Items, NEW t \in Targets, NEW d \in Intervals,
             CreateItem(i, t, d)
      PROVE  AlertInv'
  <2>1. /\ \A j \in Items \ {i} : item'[j] = item[j]
        /\ snapshots[i] = {}
        /\ UNCHANGED <<snapshots, alerts, retargeted>>
    BY <1>1 DEF CreateItem, Untouched, TypeOK
  <2> QED
    BY <2>1 DEF AlertInv, LowKeysWitnessed, TargetReached
<1>2. ASSUME NEW i \in Items, NEW t \in Targets, NEW d \in Intervals,
             NEW named \in BOOLEAN, NEW active \in BOOLEAN,
             UpdateItem(i, t, d, named, active)
      PROVE  AlertInv'
  <2>1. /\ \A j \in Items \ retargeted' : item'[j].target = item[j].target
        /\ retargeted \subseteq retargeted'
        /\ UNCHANGED <<snapshots, alerts>>
    BY <1>2 DEF UpdateItem, NextCheck, TypeOK, Row
  <2> QED
    BY <2>1 DEF AlertInv, LowKeysWitnessed, TargetReached
<1>3. ASSUME NEW i \in Items, DeleteItem(i) PROVE AlertInv'
  BY <1>3 DEF DeleteItem, AlertsWithout, TypeOK, AlertInv, LowKeysWitnessed, TargetReached
<1>4. ASSUME NEW i \in Items, NEW o \in Observation, RecordSnapshot(i, o)
      PROVE  AlertInv'
  BY <1>4, AlertRecordStep
<1>5. ASSUME NEW i \in Items, RecordFailure(i) PROVE AlertInv'
  <2>1. \A j \in Items : /\ item'[j].target = item[j].target
                         /\ alerts[j] \subseteq alerts'[j]
                         /\ \A k \in alerts'[j] \ alerts[j] : k.kind = "scrape_degraded"
    BY <1>5 DEF RecordFailure, DecideFailureAlert, PlainKey, TypeOK, Row
  <2>2. UNCHANGED <<snapshots, retargeted>>
    BY <1>5 DEF RecordFailure
  <2> QED
    BY <2>1, <2>2 DEF AlertInv, LowKeysWitnessed, TargetReached
<1>6. ASSUME NEW batch \in SUBSET Items, ClaimDueItems(batch) PROVE AlertInv'
  <2>1. \A j \in Items : item'[j].target = item[j].target
    BY <1>6 DEF ClaimDueItems, TypeOK, Row
  <2> QED
    BY <1>6, <2>1 DEF ClaimDueItems, AlertInv, LowKeysWitnessed, TargetReached
<1>7. CASE Tick
  <2>1. \A j \in Items : item'[j].target = item[j].target
    BY <1>7 DEF Tick, TypeOK, Row
  <2> QED
    BY <1>7, <2>1 DEF Tick, AlertInv, LowKeysWitnessed, TargetReached
<1>8. CASE UNCHANGED vars
  BY <1>8 DEF vars, AlertInv, LowKeysWitnessed, TargetReached
<1> QED
  BY <1>1, <1>2, <1>3, <1>4, <1>5, <1>6, <1>7, <1>8 DEF Next

LEMMA SnapshotAmount == \A s \in Snapshot : s.price.amount \in Nat
BY AmountsAssumption DEF Snapshot, Money

\* A history with a price in a currency has a minimum in it.
LEMMA MinimumExists ==
    ASSUME NEW snaps \in SUBSET Snapshot, NEW c,
           \E s \in snaps : s.price.currency = c
    PROVE  \E s \in snaps : s.price \in AllTimeMinimum(snaps, c)
<1> DEFINE inC == {s \in snaps : s.price.currency = c}
           amounts == {s.price.amount : s \in inC}
<1>1. amounts \subseteq Nat
  BY AmountsAssumption, SnapshotAmount
<1> HIDE DEF amounts
<1>2. amounts # {}
  BY DEF amounts
<1>3. PICK x \in amounts : \A y \in amounts : x <= y
  BY <1>1, <1>2, LeastOfNats
<1>4. PICK s \in inC : s.price.amount = x
  BY DEF amounts
<1>5. \A t \in snaps : t.price.currency = c => s.price.amount <= t.price.amount
  BY <1>3, <1>4 DEF amounts
<1> QED
  BY <1>4, <1>5 DEF AllTimeMinimum

LEMMA NewLowStep ==
    ASSUME TypeOK, LowKeysWitnessed, [Next]_vars, NEW i \in Items,
           NEW s \in Recorded(i), s.inStock, NewLow(s.price, snapshots[i])
    PROVE  PriceKey("all_time_low", s.price) \in Raised(i)
<1>1. PICK o \in Observation : RecordSnapshot(i, o)
  <2>1. snapshots'[i] # snapshots[i] /\ snapshots'[i] # {}
    BY DEF Recorded
  <2>2. PICK j \in Items, o \in Observation : RecordSnapshot(j, o)
    BY <2>1 DEF Next, CreateItem, UpdateItem, DeleteItem, AlertsWithout, RecordFailure,
                ClaimDueItems, Tick, vars, TypeOK
  <2>3. j = i
    BY <2>1, <2>2, RecordedSnapshot DEF TypeOK
  <2> QED
    BY <2>2, <2>3
<1>2. PICK new \in Snapshot :
        /\ snapshots' = [snapshots EXCEPT ![i] = @ \cup {new}]
        /\ alerts' = [alerts EXCEPT ![i] = @ \cup
               DecideAlerts(item[i].target, Latest(snapshots[i]),
                   AllTimeMinimum(snapshots[i], new.price.currency), new)]
  BY <1>1, RecordedSnapshot
<1>3. s = new
  BY <1>2 DEF Recorded, TypeOK
<1> DEFINE low == AllTimeMinimum(snapshots[i], new.price.currency)
<1>4. PICK p \in snapshots[i] : p.price \in low
  BY <1>3, MinimumExists DEF NewLow, TypeOK
<1>5. p.price.currency = new.price.currency /\ new.price.amount < p.price.amount
  BY <1>3, <1>4 DEF NewLow, AllTimeMinimum
<1>6. PriceKey("all_time_low", new.price) \in LowAlerts(low, new)
  BY <1>4, <1>5 DEF LowAlerts
<1>7. PriceKey("all_time_low", new.price) \in alerts'[i]
  BY <1>2, <1>3, <1>6 DEF DecideAlerts, TypeOK
<1>8. PriceKey("all_time_low", new.price) \notin alerts[i]
  <2>1. \A q \in snapshots[i] : q.price.amount \in Nat /\ new.price.amount \in Nat
    BY SnapshotAmount DEF TypeOK
  <2> QED
    BY <1>3, <2>1 DEF LowKeysWitnessed, PriceKey, NewLow
<1> QED
  BY <1>3, <1>7, <1>8 DEF Raised

-----------------------------------------------------------------------------
(***************************************************************************)
(* The stock alerts.  When no reading overtakes another, the snapshots of  *)
(* an item are strictly ordered, the stamp of a new one is in no key yet,  *)
(* and every alert is a change from the latest reading to the new one.     *)
(***************************************************************************)

StockKinds == {"back_in_stock", "out_of_stock"}
ToldOf(i, kind) == {k \in alerts[i] : k.kind = kind}
Flag(s) == IF s.inStock THEN 1 ELSE 0

ToldInv(i) ==
    /\ \A kind \in StockKinds : IsFiniteSet(ToldOf(i, kind))
    /\ \A kind \in StockKinds : \A k \in ToldOf(i, kind) : \E s \in snapshots[i] : s.at = k.n

BalanceInv(i) ==
    \/ snapshots[i] = {}
    \/ \E f, l \in snapshots[i] :
        /\ First(snapshots[i]) = {f} /\ Latest(snapshots[i]) = {l}
        /\ Flag(f) + Cardinality(ToldOf(i, "back_in_stock"))
             = Flag(l) + Cardinality(ToldOf(i, "out_of_stock"))

StockInv == MaxLate = 0 => \A i \in Items : ToldInv(i) /\ BalanceInv(i)

LEMMA InStockOfOne ==
    ASSUME NEW s
    PROVE  InStock({s}) = Flag(s)
<1>1. {t \in {s} : t.inStock} = IF s.inStock THEN {s} ELSE {}
  OBVIOUS
<1> QED
  BY <1>1, FS_EmptySet, FS_Singleton DEF InStock, Flag

\* What was decided of this kind after the reading l: one alert when the stock changed.
StockChange(decided, l, new, kind) ==
    {k \in decided : k.kind = kind}
       = IF /\ l.inStock # new.inStock
            /\ kind = IF new.inStock THEN "back_in_stock" ELSE "out_of_stock"
         THEN {PlainKey(kind, new.at)} ELSE {}

\* The only stock alert a reading raises is the change from the latest one.
LEMMA StockDecided ==
    ASSUME NEW target, NEW low, NEW new \in Snapshot, NEW kind \in StockKinds
    PROVE  /\ \A k \in DecideAlerts(target, {}, low, new) : k.kind # kind
           /\ \A l : StockChange(DecideAlerts(target, {l}, low, new), l, new, kind)
<1>1. ASSUME NEW previous, NEW k \in DecideAlerts(target, previous, low, new), k.kind = kind
      PROVE  k \in StockAlerts(previous, new)
  <2>1. k \notin DropAlerts(target, previous, new)
    BY <1>1 DEF DropAlerts, PriceKey, StockKinds
  <2>2. k \notin LowAlerts(low, new)
    BY <1>1 DEF LowAlerts, PriceKey, StockKinds
  <2> QED
    BY <1>1, <2>1, <2>2 DEF DecideAlerts
<1>2. \A k \in DecideAlerts(target, {}, low, new) : k.kind # kind
  BY <1>1 DEF StockAlerts
<1>3. ASSUME NEW l
      PROVE  StockChange(DecideAlerts(target, {l}, low, new), l, new, kind)
  <2> DEFINE turned == IF new.inStock THEN "back_in_stock" ELSE "out_of_stock"
  <2>1. {k \in DecideAlerts(target, {l}, low, new) : k.kind = kind}
          = {k \in StockAlerts({l}, new) : k.kind = kind}
    BY <1>1 DEF DecideAlerts
  <2>2. StockAlerts({l}, new)
          = IF l.inStock # new.inStock THEN {PlainKey(turned, new.at)} ELSE {}
    BY DEF StockAlerts
  <2>3. PlainKey(turned, new.at).kind = turned
    BY DEF PlainKey
  <2> QED
    BY <2>1, <2>2, <2>3 DEF StockChange
<1> QED
  BY <1>2, <1>3

\* A reading that nothing overtakes is the latest.
LEMMA NewLatest ==
    ASSUME TypeOK, NEW i \in Items, NEW new \in Snapshot,
           \A s \in snapshots[i] : s.at < new.at,
           snapshots'[i] = snapshots[i] \cup {new}
    PROVE  /\ Latest(snapshots'[i]) = {new}
           /\ snapshots[i] # {} => First(snapshots'[i]) = First(snapshots[i])
           /\ snapshots[i] = {} => First(snapshots'[i]) = {new}
<1>1. \A s \in Snapshot : s.at \in Nat
  BY StampsAssumption DEF Snapshot
<1>2. \A s \in snapshots[i] : s.at \in Nat /\ new.at \in Nat /\ s.at < new.at
  BY <1>1 DEF TypeOK
<1>3. Latest(snapshots'[i]) = {new}
  BY <1>1, <1>2 DEF Latest
<1>4. ASSUME snapshots[i] # {}
      PROVE  First(snapshots'[i]) = First(snapshots[i])
  BY <1>2, <1>4 DEF First
<1>5. snapshots[i] = {} => First(snapshots'[i]) = {new}
  BY <1>1 DEF First
<1> QED
  BY <1>3, <1>4, <1>5

LEMMA StockRecordStep ==
    ASSUME TypeOK, MaxLate = 0, NEW i \in Items, ToldInv(i), BalanceInv(i),
           NEW o \in Observation, RecordSnapshot(i, o)
    PROVE  ToldInv(i)' /\ BalanceInv(i)'
<1>1. PICK new \in Snapshot :
        /\ new.at = o.at
        /\ snapshots' = [snapshots EXCEPT ![i] = @ \cup {new}]
        /\ alerts' = [alerts EXCEPT ![i] = @ \cup
               DecideAlerts(item[i].target, Latest(snapshots[i]),
                   AllTimeMinimum(snapshots[i], new.price.currency), new)]
  BY RecordedSnapshot
<1>2. PICK low : low = AllTimeMinimum(snapshots[i], new.price.currency)
  OBVIOUS
<1>3. PICK decided : decided = DecideAlerts(item[i].target, Latest(snapshots[i]), low, new)
  OBVIOUS
<1>4. /\ snapshots'[i] = snapshots[i] \cup {new}
      /\ alerts'[i] = alerts[i] \cup decided
  BY <1>1, <1>2, <1>3 DEF TypeOK
<1>5. \A s \in snapshots[i] : s.at < new.at
  <2>1. \A s \in Snapshot : s.at \in Nat
    BY StampsAssumption DEF Snapshot
  <2> QED
    BY <1>1, <2>1 DEF RecordSnapshot, Arrives, TypeOK
<1>6. /\ Latest(snapshots'[i]) = {new}
      /\ snapshots[i] # {} => First(snapshots'[i]) = First(snapshots[i])
      /\ snapshots[i] = {} => First(snapshots'[i]) = {new}
  BY <1>4, <1>5, NewLatest
<1>7. \A kind \in StockKinds :
        ToldOf(i, kind)' = ToldOf(i, kind) \cup {k \in decided : k.kind = kind}
  BY <1>4 DEF ToldOf
<1>8. new \in snapshots'[i] /\ new.at \in Nat
  BY <1>4, StampsAssumption DEF Snapshot
<1>9. Flag(new) \in {0, 1}
  BY DEF Flag
<1>10. CASE snapshots[i] = {}
  <2>1. Latest(snapshots[i]) = {} /\ \A kind \in StockKinds : ToldOf(i, kind) = {}
    BY <1>10 DEF Latest, ToldInv
  <2>2. \A kind \in StockKinds : \A k \in decided : k.kind # kind
    BY <1>3, <2>1, StockDecided
  <2>3. \A kind \in StockKinds : ToldOf(i, kind)' = {}
    BY <1>7, <2>1, <2>2
  <2>4. ToldOf(i, "back_in_stock")' = {} /\ ToldOf(i, "out_of_stock")' = {}
    BY <2>3 DEF StockKinds
  <2>5. ToldInv(i)'
    BY <2>3, FS_EmptySet DEF ToldInv
  <2>6. First(snapshots'[i]) = {new}
    BY <1>6, <1>10
  <2>7. BalanceInv(i)'
    BY <1>6, <1>8, <2>4, <2>6 DEF BalanceInv
  <2> QED
    BY <2>5, <2>7
<1>11. CASE snapshots[i] # {}
  <2>1. PICK f \in snapshots[i], l \in snapshots[i] :
          /\ First(snapshots[i]) = {f} /\ Latest(snapshots[i]) = {l}
          /\ Flag(f) + Cardinality(ToldOf(i, "back_in_stock"))
               = Flag(l) + Cardinality(ToldOf(i, "out_of_stock"))
    BY <1>11 DEF BalanceInv
  <2>2. ASSUME NEW kind \in StockKinds
        PROVE  /\ IsFiniteSet(ToldOf(i, kind)) /\ Cardinality(ToldOf(i, kind)) \in Nat
               /\ IsFiniteSet(ToldOf(i, kind)')
               /\ \A k \in ToldOf(i, kind)' : k \in ToldOf(i, kind) \/ k.n = new.at
               /\ Cardinality(ToldOf(i, kind)') = Cardinality(ToldOf(i, kind)) +
                    IF /\ l.inStock # new.inStock
                       /\ kind = IF new.inStock THEN "back_in_stock" ELSE "out_of_stock"
                    THEN 1 ELSE 0
    <3>1. PICK key : key = PlainKey(kind, new.at)
      OBVIOUS
    <3>2. key.n = new.at
      BY <3>1 DEF PlainKey
    <3>3. ToldOf(i, kind)' = ToldOf(i, kind) \cup
            IF /\ l.inStock # new.inStock
               /\ kind = IF new.inStock THEN "back_in_stock" ELSE "out_of_stock"
            THEN {key} ELSE {}
      <4>1. {k \in decided : k.kind = kind}
              = IF /\ l.inStock # new.inStock
                   /\ kind = IF new.inStock THEN "back_in_stock" ELSE "out_of_stock"
                THEN {PlainKey(kind, new.at)} ELSE {}
        <5>1. decided = DecideAlerts(item[i].target, {l}, low, new)
          BY <1>3, <2>1
        <5>2. StockChange(DecideAlerts(item[i].target, {l}, low, new), l, new, kind)
          BY <2>2, StockDecided
        <5> QED
          BY <5>1, <5>2, Zenon DEF StockChange
      <4> QED
        BY <1>7, <2>2, <3>1, <4>1
    <3>4. key \notin ToldOf(i, kind)
      BY <1>5, <1>8, <2>2, <3>2 DEF ToldInv
    <3>5. IsFiniteSet(ToldOf(i, kind)) /\ Cardinality(ToldOf(i, kind)) \in Nat
      BY <2>2, FS_CardinalityType DEF ToldInv
    <3>6. PICK told : told = ToldOf(i, kind)
      OBVIOUS
    <3>7. IsFiniteSet(told \cup {key}) /\ Cardinality(told \cup {key}) = Cardinality(told) + 1
      BY <3>4, <3>5, <3>6, FS_AddElement
    <3>8. CASE /\ l.inStock # new.inStock
               /\ kind = IF new.inStock THEN "back_in_stock" ELSE "out_of_stock"
      <4>1. ToldOf(i, kind)' = told \cup {key}
        BY <3>3, <3>6, <3>8
      <4> QED
        BY <3>2, <3>5, <3>6, <3>7, <3>8, <4>1
    <3>9. CASE ~ (/\ l.inStock # new.inStock
                  /\ kind = IF new.inStock THEN "back_in_stock" ELSE "out_of_stock")
      <4>1. ToldOf(i, kind)' = ToldOf(i, kind)
        BY <3>3, <3>9
      <4>2. Cardinality(ToldOf(i, kind)') = Cardinality(ToldOf(i, kind)) + 0
        BY <3>5, <4>1
      <4> QED
        BY <3>5, <3>9, <4>1, <4>2
    <3> QED
      BY <3>8, <3>9
  <2>3. ToldInv(i)'
    <3>1. \A kind \in StockKinds : IsFiniteSet(ToldOf(i, kind)')
      BY <2>2
    <3>2. ASSUME NEW kind \in StockKinds, NEW k \in ToldOf(i, kind)'
          PROVE  \E s \in snapshots'[i] : s.at = k.n
      BY <1>4, <2>2, <3>2 DEF ToldInv
    <3> QED
      BY <3>1, <3>2 DEF ToldInv
  <2>4. Flag(f) \in {0, 1} /\ Flag(l) = (IF l.inStock THEN 1 ELSE 0)
        /\ Flag(new) = (IF new.inStock THEN 1 ELSE 0)
    BY DEF Flag
  <2>5. l.inStock \in BOOLEAN /\ new.inStock \in BOOLEAN
    BY DEF TypeOK, Snapshot
  <2>6. /\ Cardinality(ToldOf(i, "back_in_stock")) \in Nat
        /\ Cardinality(ToldOf(i, "out_of_stock")) \in Nat
        /\ Cardinality(ToldOf(i, "back_in_stock")') = Cardinality(ToldOf(i, "back_in_stock")) +
             IF l.inStock # new.inStock /\ new.inStock THEN 1 ELSE 0
        /\ Cardinality(ToldOf(i, "out_of_stock")') = Cardinality(ToldOf(i, "out_of_stock")) +
             IF l.inStock # new.inStock /\ ~ new.inStock THEN 1 ELSE 0
    BY <2>2, <2>5 DEF StockKinds
  <2>7. Flag(f) + Cardinality(ToldOf(i, "back_in_stock")')
          = Flag(new) + Cardinality(ToldOf(i, "out_of_stock")')
    BY <2>1, <2>4, <2>5, <2>6
  <2>8. First(snapshots'[i]) = {f} /\ f \in snapshots'[i]
    BY <1>4, <1>6, <1>11, <2>1
  <2>9. BalanceInv(i)'
    BY <1>6, <1>8, <2>7, <2>8 DEF BalanceInv
  <2> QED
    BY <2>3, <2>9
<1> QED
  BY <1>10, <1>11

LEMMA StockStep ==
    ASSUME TypeOK, StockInv, [Next]_vars
    PROVE  StockInv'
<1> SUFFICES ASSUME MaxLate = 0, NEW i \in Items
             PROVE  ToldInv(i)' /\ BalanceInv(i)'
  BY DEF StockInv
<1>1. ToldInv(i) /\ BalanceInv(i)
  BY DEF StockInv
<1>2. CASE /\ snapshots'[i] = snapshots[i]
           /\ \A kind \in StockKinds : ToldOf(i, kind)' = ToldOf(i, kind)
  <2>1. /\ ToldOf(i, "back_in_stock")' = ToldOf(i, "back_in_stock")
        /\ ToldOf(i, "out_of_stock")' = ToldOf(i, "out_of_stock")
    BY <1>2 DEF StockKinds
  <2> QED
    BY <1>1, <1>2, <2>1 DEF ToldInv, BalanceInv
<1>3. CASE snapshots'[i] = {} /\ alerts'[i] = {}
  <2>1. \A kind \in StockKinds : ToldOf(i, kind)' = {}
    BY <1>3 DEF ToldOf
  <2> QED
    BY <1>3, <2>1, FS_EmptySet DEF ToldInv, BalanceInv
<1>4. CASE UNCHANGED <<snapshots, alerts>>
  BY <1>2, <1>4 DEF ToldOf
<1>5. ASSUME NEW j \in Items, NEW o \in Observation, RecordSnapshot(j, o)
      PROVE  ToldInv(i)' /\ BalanceInv(i)'
  <2>1. CASE j = i
    BY <1>1, <1>5, <2>1, StockRecordStep
  <2>2. CASE j # i
    <3>1. snapshots'[i] = snapshots[i] /\ alerts'[i] = alerts[i]
      BY <1>5, <2>2, RecordedSnapshot DEF TypeOK
    <3> QED
      BY <1>2, <3>1 DEF ToldOf
  <2> QED
    BY <2>1, <2>2
<1>6. ASSUME NEW j \in Items, RecordFailure(j)
      PROVE  ToldInv(i)' /\ BalanceInv(i)'
  <2>1. /\ snapshots' = snapshots /\ alerts[i] \subseteq alerts'[i]
        /\ \A k \in alerts'[i] \ alerts[i] : k.kind = "scrape_degraded"
    BY <1>6 DEF RecordFailure, DecideFailureAlert, PlainKey, TypeOK
  <2>2. \A kind \in StockKinds : ToldOf(i, kind)' = ToldOf(i, kind)
    BY <2>1 DEF ToldOf, StockKinds
  <2> QED
    BY <1>2, <2>1, <2>2
<1>7. ASSUME NEW j \in Items, DeleteItem(j)
      PROVE  ToldInv(i)' /\ BalanceInv(i)'
  <2>1. CASE j = i
    BY <1>3, <1>7, <2>1 DEF DeleteItem, AlertsWithout, TypeOK
  <2>2. CASE j # i
    <3>1. snapshots'[i] = snapshots[i] /\ alerts'[i] = alerts[i]
      BY <1>7, <2>2 DEF DeleteItem, AlertsWithout, TypeOK
    <3> QED
      BY <1>2, <3>1 DEF ToldOf
  <2> QED
    BY <2>1, <2>2
<1> QED
  BY <1>4, <1>5, <1>6, <1>7
  DEF Next, CreateItem, UpdateItem, ClaimDueItems, Tick, vars

LEMMA StockInit == Init => StockInv
<1> SUFFICES ASSUME Init, NEW i \in Items
             PROVE  ToldInv(i) /\ BalanceInv(i)
  BY DEF StockInv
<1>1. snapshots[i] = {} /\ \A kind \in StockKinds : ToldOf(i, kind) = {}
  BY DEF Init, ToldOf
<1> QED
  BY <1>1, FS_EmptySet DEF ToldInv, BalanceInv

LEMMA StockImplied == StockInv => StockLedger
<1> SUFFICES ASSUME StockInv, MaxLate = 0, NEW i \in Items
             PROVE  InStock(First(snapshots[i])) + Cardinality(ToldOf(i, "back_in_stock"))
                      = InStock(Latest(snapshots[i])) + Cardinality(ToldOf(i, "out_of_stock"))
  BY DEF StockLedger, ToldOf
<1>1. ToldInv(i) /\ BalanceInv(i)
  BY DEF StockInv
<1>2. CASE snapshots[i] = {}
  <2>1. ToldOf(i, "back_in_stock") = {} /\ ToldOf(i, "out_of_stock") = {}
    BY <1>1, <1>2 DEF ToldInv, StockKinds
  <2>2. First(snapshots[i]) = {} /\ Latest(snapshots[i]) = {}
    BY <1>2 DEF First, Latest
  <2> QED
    BY <2>1, <2>2
<1>3. CASE snapshots[i] # {}
  BY <1>1, <1>3, InStockOfOne DEF BalanceInv
<1> QED
  BY <1>2, <1>3

-----------------------------------------------------------------------------
(***************************************************************************)
(* The theorems.                                                           *)
(***************************************************************************)

IInv == TypeOK /\ ScheduleInv /\ AlertInv

LEMMA IInvInit == Init => IInv
<1> SUFFICES ASSUME Init PROVE IInv
  OBVIOUS
<1>1. TypeOK
  BY TypeInit
<1>2. ScheduleInv
  <2>1. \A i \in Items : /\ item[i].streak = 0 /\ item[i].next = 0
                         /\ item[i].lease = 0 /\ item[i].interval \in Intervals
    BY IntervalsAssumption DEF Init
  <2>2. \A i \in Items : item[i].interval >= 0
    <3>1. \A d \in Intervals : d >= 0
      BY IntervalsAssumption
    <3> QED
      BY <2>1, <3>1
  <2>3. \A i \in Items : /\ status[i] = "unborn"
                         /\ snapshots[i] = {} /\ alerts[i] = {}
    BY DEF Init
  <2>4. ScheduleBound /\ LeasedIsDue
    BY <2>1, <2>2 DEF ScheduleBound, LeasedIsDue
  <2>5. Untouched
    BY <2>1, <2>3 DEF Untouched
  <2> QED
    BY <2>4, <2>5 DEF ScheduleInv
<1>3. AlertInv
  BY DEF Init, AlertInv, LowKeysWitnessed, TargetReached
<1> QED
  BY <1>1, <1>2, <1>3 DEF IInv

LEMMA IInvStep == IInv /\ [Next]_vars => IInv'
BY TypeStep, ScheduleStep, AlertStep DEF IInv, ScheduleInv

LEMMA IInvAlways == Spec => []IInv
BY IInvInit, IInvStep, PTL DEF Spec

\* The schedule never drifts beyond the interval or the cap.
THEOREM ScheduleIsBounded == Spec => []ScheduleBound
<1>1. IInv => ScheduleBound
  BY DEF IInv, ScheduleInv
<1> QED
  BY <1>1, IInvAlways, PTL

\* An item under lease is still due, so it can be claimed when the lease runs out.
THEOREM LeasedItemsAreDue == Spec => []LeasedIsDue
<1>1. IInv => LeasedIsDue
  BY DEF IInv, ScheduleInv
<1> QED
  BY <1>1, IInvAlways, PTL

\* A threshold reached by a product on sale has produced a price-drop alert.
THEOREM TargetAlwaysReached == Spec => []TargetReached
<1>1. IInv => TargetReached
  BY DEF IInv, AlertInv
<1> QED
  BY <1>1, IInvAlways, PTL

\* All-time-low keys never collide with a price still to come.
THEOREM LowKeysAlwaysWitnessed == Spec => []LowKeysWitnessed
<1>1. IInv => LowKeysWitnessed
  BY DEF IInv, AlertInv
<1> QED
  BY <1>1, IInvAlways, PTL

\* Deduplication never swallows a new all-time low.
THEOREM NewLowAlwaysReported == Spec => NewLowReported
<1>1. IInv /\ [Next]_vars =>
        [\A i \in Items : \A s \in Recorded(i) :
            s.inStock /\ NewLow(s.price, snapshots[i]) =>
                PriceKey("all_time_low", s.price) \in Raised(i)]_vars
  BY NewLowStep DEF IInv, AlertInv
<1> QED
  BY <1>1, IInvAlways, PTL DEF Spec, NewLowReported

\* Where no reading overtakes another, stock alerts alternate and none is lost
\* (alerts.go): what the user was told adds up to what became of the product.
THEOREM StockAlertsAddUp == Spec => []StockLedger
BY TypeCorrect, StockInit, StockStep, StockImplied, PTL DEF Spec

-----------------------------------------------------------------------------
\* The tables implement LowWatch.

\* The minimum query, as a predicate on amounts.
LEMMA LowMember ==
    ASSUME NEW snaps, NEW c \in Currencies, NEW x
    PROVE  x \in LowOf(snaps)[c] <=>
               \E s \in snaps : /\ s.price.currency = c /\ s.price.amount = x
                                /\ \A t \in snaps : t.price.currency = c => x <= t.price.amount
BY DEF LowOf, AllTimeMinimum

\* One more snapshot moves the minimum of its own currency as LowWatch moves a mark.
LEMMA LowAfter ==
    ASSUME NEW snaps \in SUBSET Snapshot, NEW new \in Snapshot
    PROVE  LowOf(snaps \cup {new}) =
               [LowOf(snaps) EXCEPT ![new.price.currency] =
                    Watch!Lowered(@, new.price.amount)]
<1> DEFINE after == snaps \cup {new}
           d == new.price.currency
           mark == LowOf(snaps)[d]
<1>1. d \in Currencies /\ new.price.amount \in Nat
  BY SnapshotAmount DEF Snapshot, Money
<1>2. \A s \in after : s.price.amount \in Nat
  BY SnapshotAmount
<1>3. ASSUME NEW c \in Currencies \ {d} PROVE LowOf(after)[c] = LowOf(snaps)[c]
  BY <1>3 DEF LowOf, AllTimeMinimum
<1>4. LowOf(after)[d] = Watch!Lowered(mark, new.price.amount)
  <2>1. CASE mark = {}
    <3>1. \A s \in snaps : s.price.currency # d
      <4> SUFFICES ASSUME NEW s \in snaps, s.price.currency = d PROVE FALSE
        OBVIOUS
      <4>1. PICK m \in snaps : m.price \in AllTimeMinimum(snaps, d)
        BY MinimumExists
      <4> QED
        BY <1>1, <2>1, <4>1 DEF LowOf
    <3>2. \A x : x \in LowOf(after)[d] <=> x = new.price.amount
      BY <1>1, <3>1, LowMember
    <3> QED
      BY <2>1, <3>2 DEF Watch!Lowered
  <2>2. CASE mark # {}
    <3>1. PICK l \in mark : TRUE
      BY <2>2
    <3>2. PICK s \in snaps : /\ s.price.currency = d /\ s.price.amount = l
                             /\ \A t \in snaps : t.price.currency = d => l <= t.price.amount
      BY <1>1, <3>1, LowMember
    <3>3. \A x \in mark : x = l
      <4> SUFFICES ASSUME NEW x \in mark PROVE x = l
        OBVIOUS
      <4>1. PICK r \in snaps : /\ r.price.currency = d /\ r.price.amount = x
                               /\ \A t \in snaps : t.price.currency = d => x <= t.price.amount
        BY <1>1, LowMember
      <4> QED
        BY <1>2, <3>2, <4>1
    <3>4. mark = {l} /\ l \in Nat
      BY <1>2, <3>1, <3>2, <3>3
    <3>5. CASE new.price.amount < l
      <4>1. new.price.amount \in LowOf(after)[d]
        <5>1. \A t \in after : t.price.currency = d => new.price.amount <= t.price.amount
          BY <1>1, <1>2, <3>2, <3>4, <3>5
        <5> QED
          BY <1>1, <5>1, LowMember
      <4>2. \A x \in LowOf(after)[d] : x = new.price.amount
        <5> SUFFICES ASSUME NEW x \in LowOf(after)[d] PROVE x = new.price.amount
          OBVIOUS
        <5>1. PICK r \in after : /\ r.price.currency = d /\ r.price.amount = x
                                 /\ \A t \in after : t.price.currency = d => x <= t.price.amount
          BY <1>1, LowMember
        <5>2. x <= new.price.amount /\ x \in Nat
          BY <1>2, <5>1
        <5>3. new \in after
          OBVIOUS
        <5> QED
          BY <1>1, <1>2, <3>2, <3>4, <3>5, <5>1, <5>2
      <4>3. Watch!Undercuts(new.price.amount, mark)
        BY <3>1, <3>5 DEF Watch!Undercuts
      <4> QED
        BY <4>1, <4>2, <4>3 DEF Watch!Lowered
    <3>6. CASE ~ (new.price.amount < l)
      <4>1. \A t \in after : t.price.currency = d => l <= t.price.amount
        BY <1>1, <3>2, <3>4, <3>6
      <4>2. l \in LowOf(after)[d]
        BY <1>1, <3>2, <4>1, LowMember
      <4>3. \A x \in LowOf(after)[d] : x = l
        <5> SUFFICES ASSUME NEW x \in LowOf(after)[d] PROVE x = l
          OBVIOUS
        <5>1. PICK r \in after : /\ r.price.currency = d /\ r.price.amount = x
                                 /\ \A t \in after : t.price.currency = d => x <= t.price.amount
          BY <1>1, LowMember
        <5>2. x <= l /\ l <= x /\ x \in Nat
          BY <1>2, <3>2, <4>1, <5>1
        <5> QED
          BY <3>4, <5>2
      <4>4. ~Watch!Undercuts(new.price.amount, mark)
        BY <3>3, <3>6 DEF Watch!Undercuts
      <4> QED
        BY <2>2, <3>4, <4>2, <4>3, <4>4 DEF Watch!Lowered
    <3> QED
      BY <3>5, <3>6
  <2> QED
    BY <2>1, <2>2
<1>5. /\ LowOf(after) = [c \in Currencies |-> LowOf(after)[c]]
      /\ LowOf(snaps) = [c \in Currencies |-> LowOf(snaps)[c]]
  BY DEF LowOf
<1> HIDE DEF after, mark
<1>6. LowOf(after) = [LowOf(snaps) EXCEPT ![d] = Watch!Lowered(mark, new.price.amount)]
  BY <1>1, <1>3, <1>4, <1>5
<1> QED
  BY <1>6 DEF after, mark

\* A reading on sale announces its price exactly if it undercuts the mark, a reading
\* of a sold-out product never.
LEMMA LowDecided ==
    ASSUME NEW snaps \in SUBSET Snapshot, NEW new \in Snapshot,
           NEW target, NEW previous, NEW k
    PROVE  /\ k \in DecideAlerts(target, previous,
                        AllTimeMinimum(snaps, new.price.currency), new)
           /\ k.kind = "all_time_low"
           <=> /\ new.inStock
               /\ Watch!Undercuts(new.price.amount, LowOf(snaps)[new.price.currency])
               /\ k = PriceKey("all_time_low", new.price)
<1> DEFINE low == AllTimeMinimum(snaps, new.price.currency)
           mark == LowOf(snaps)[new.price.currency]
<1>1. k \in StockAlerts(previous, new) => k.kind # "all_time_low"
  BY DEF StockAlerts, PlainKey
<1>2. k \in DropAlerts(target, previous, new) => k.kind # "all_time_low"
  BY DEF DropAlerts, PriceKey
<1>3. LowAlerts(low, new) = IF Watch!Undercuts(new.price.amount, mark)
                            THEN {PriceKey("all_time_low", new.price)} ELSE {}
  <2>1. mark = {m.amount : m \in low}
    BY DEF LowOf, Snapshot, Money
  <2>2. \A m \in low : m.currency = new.price.currency
    BY DEF AllTimeMinimum
  <2> QED
    BY <2>1, <2>2 DEF LowAlerts, Watch!Undercuts
<1>4. PriceKey("all_time_low", new.price).kind = "all_time_low"
  BY DEF PriceKey
<1> QED
  BY <1>1, <1>2, <1>3, <1>4 DEF DecideAlerts

LEMMA RecordImplements ==
    ASSUME TypeOK, LowKeysWitnessed, NEW i \in Items, NEW o \in Observation,
           RecordSnapshot(i, o)
    PROVE  Watch!Next
<1>1. PICK new \in Snapshot :
        /\ snapshots' = [snapshots EXCEPT ![i] = @ \cup {new}]
        /\ alerts' = [alerts EXCEPT ![i] = @ \cup
               DecideAlerts(item[i].target, Latest(snapshots[i]),
                   AllTimeMinimum(snapshots[i], new.price.currency), new)]
  BY RecordedSnapshot
<1> DEFINE amount == new.price.amount
           c == new.price.currency
           mark == LowOf(snapshots[i])[c]
           decided == DecideAlerts(item[i].target, Latest(snapshots[i]),
                          AllTimeMinimum(snapshots[i], c), new)
<1>2. /\ amount \in Amounts /\ c \in Currencies
      /\ snapshots[i] \in SUBSET Snapshot
      /\ OnSaleOnly(snapshots[i]) \in SUBSET Snapshot
  BY DEF TypeOK, Snapshot, Money, OnSaleOnly
<1>3. /\ \A j \in Items \ {i} : snapshots'[j] = snapshots[j] /\ alerts'[j] = alerts[j]
      /\ snapshots'[i] = snapshots[i] \cup {new}
      /\ alerts'[i] = alerts[i] \cup decided
  BY <1>1 DEF TypeOK
<1>4. [j \in Items |-> LowOf(snapshots[j])]'
        = [[j \in Items |-> LowOf(snapshots[j])] EXCEPT ![i][c] = Watch!Lowered(@, amount)]
  <2>1. LowOf(snapshots'[i]) = [LowOf(snapshots[i]) EXCEPT ![c] = Watch!Lowered(@, amount)]
    BY <1>2, <1>3, LowAfter
  <2> QED
    BY <1>3, <2>1
<1>5. \A k : k \in decided /\ k.kind = "all_time_low"
               <=> /\ new.inStock /\ Watch!Undercuts(amount, mark)
                   /\ k = PriceKey("all_time_low", new.price)
  <2> SUFFICES ASSUME NEW k
               PROVE  k \in decided /\ k.kind = "all_time_low"
                          <=> /\ new.inStock /\ Watch!Undercuts(amount, mark)
                              /\ k = PriceKey("all_time_low", new.price)
    OBVIOUS
  <2> DEFINE target == item[i].target
             previous == Latest(snapshots[i])
  <2>1. /\ k \in DecideAlerts(target, previous, AllTimeMinimum(snapshots[i], c), new)
        /\ k.kind = "all_time_low"
        <=> /\ new.inStock
            /\ Watch!Undercuts(amount, mark)
            /\ k = PriceKey("all_time_low", new.price)
    <3> HIDE DEF target, previous
    <3> QED
      BY <1>2, LowDecided
  <2> QED
    BY <2>1
<1>6. CASE new.inStock
  <2>1. OnSaleOnly(snapshots'[i]) = OnSaleOnly(snapshots[i]) \cup {new}
    BY <1>3, <1>6 DEF OnSaleOnly
  <2>2. [j \in Items |-> LowOf(OnSaleOnly(snapshots[j]))]'
          = [[j \in Items |-> LowOf(OnSaleOnly(snapshots[j]))]
                EXCEPT ![i][c] = Watch!Lowered(@, amount)]
    <3>1. LowOf(OnSaleOnly(snapshots'[i])) =
            [LowOf(OnSaleOnly(snapshots[i])) EXCEPT ![c] = Watch!Lowered(@, amount)]
      BY <1>2, <2>1, LowAfter
    <3> QED
      BY <1>3, <3>1
  <2>3. CASE Watch!Undercuts(amount, mark)
    <3>1. <<amount, c>> \notin AnnouncedOf(i)
      <4> SUFFICES ASSUME <<amount, c>> \in AnnouncedOf(i) PROVE FALSE
        OBVIOUS
      <4>1. PICK s \in snapshots[i] : s.price.amount = amount /\ s.price.currency = c
        BY DEF AnnouncedOf, LowKeysWitnessed
      <4>2. PICK l \in mark : amount < l
        BY <2>3 DEF Watch!Undercuts
      <4>3. \E t \in snapshots[i] : t.price.amount = l /\ l <= s.price.amount
        BY <1>2, <4>1, <4>2, LowMember
      <4> QED
        BY <1>2, <4>1, <4>2, <4>3, SnapshotAmount
    <3>2. AnnouncedOf(i)' = AnnouncedOf(i) \cup {<<amount, c>>}
      <4> DEFINE key == PriceKey("all_time_low", new.price)
      <4>1. key \in decided /\ key.kind = "all_time_low"
        BY <1>5, <1>6, <2>3
      <4>2. key.n = amount /\ key.currency = c
        BY DEF PriceKey
      <4>3. \A k \in decided : k.kind = "all_time_low" => k = key
        BY <1>5
      <4> HIDE DEF key, decided
      <4>4. {k \in alerts'[i] : k.kind = "all_time_low"} =
              {k \in alerts[i] : k.kind = "all_time_low"} \cup {key}
        BY <1>3, <4>1, <4>3
      <4> QED
        BY <4>2, <4>4 DEF AnnouncedOf
    <3>3. [j \in Items |-> AnnouncedOf(j)]'
            = [[j \in Items |-> AnnouncedOf(j)] EXCEPT ![i] = @ \cup {<<amount, c>>}]
      BY <1>3, <3>2 DEF AnnouncedOf
    <3>4. Watch!OnSale(i, amount, c)
      BY <1>2, <1>4, <2>2, <2>3, <3>1, <3>3 DEF Watch!OnSale
    <3> QED
      BY <1>2, <3>4 DEF Watch!Next
  <2>4. CASE ~Watch!Undercuts(amount, mark)
    <3>1. AnnouncedOf(i)' = AnnouncedOf(i)
      BY <1>3, <1>5, <2>4 DEF AnnouncedOf
    <3>2. UNCHANGED [j \in Items |-> AnnouncedOf(j)]
      BY <1>3, <3>1 DEF AnnouncedOf
    <3>3. Watch!OnSale(i, amount, c)
      BY <1>2, <1>4, <2>2, <2>4, <3>2 DEF Watch!OnSale
    <3> QED
      BY <1>2, <3>3 DEF Watch!Next
  <2> QED
    BY <2>3, <2>4
<1>7. CASE ~new.inStock
  <2>1. OnSaleOnly(snapshots'[i]) = OnSaleOnly(snapshots[i])
    BY <1>3, <1>7 DEF OnSaleOnly
  <2>2. UNCHANGED [j \in Items |-> LowOf(OnSaleOnly(snapshots[j]))]
    BY <1>3, <2>1
  <2>3. AnnouncedOf(i)' = AnnouncedOf(i)
    BY <1>3, <1>5, <1>7 DEF AnnouncedOf
  <2>4. UNCHANGED [j \in Items |-> AnnouncedOf(j)]
    BY <1>3, <2>3 DEF AnnouncedOf
  <2>5. Watch!SoldOut(i, amount, c)
    BY <1>2, <1>4, <2>2, <2>4 DEF Watch!SoldOut
  <2> QED
    BY <1>2, <2>5 DEF Watch!Next
<1> QED
  BY <1>6, <1>7

LEMMA DeleteImplements ==
    ASSUME TypeOK, NEW i \in Items, DeleteItem(i)
    PROVE  Watch!Next
<1>1. /\ snapshots' = [snapshots EXCEPT ![i] = {}]
      /\ alerts' = [alerts EXCEPT ![i] = {}]
  BY DEF DeleteItem, AlertsWithout
<1>2. LowOf({}) = [c \in Currencies |-> {}] /\ OnSaleOnly({}) = {}
  BY DEF LowOf, AllTimeMinimum, OnSaleOnly
<1>3. AnnouncedOf(i)' = {}
  BY <1>1 DEF AnnouncedOf, TypeOK
<1>4. Watch!Forget(i)
  BY <1>1, <1>2, <1>3 DEF Watch!Forget, AnnouncedOf, TypeOK
<1> QED
  BY <1>4 DEF Watch!Next

LEMMA StutterImplements ==
    ASSUME snapshots' = snapshots,
           \A i \in Items : \A k : k.kind = "all_time_low" =>
               (k \in alerts'[i] <=> k \in alerts[i])
    PROVE  Watch!Next
<1>1. \A i \in Items : AnnouncedOf(i)' = AnnouncedOf(i)
  BY DEF AnnouncedOf
<1>2. UNCHANGED <<[i \in Items |-> LowOf(snapshots[i])],
                  [i \in Items |-> LowOf(OnSaleOnly(snapshots[i]))],
                  [i \in Items |-> AnnouncedOf(i)]>>
  BY <1>1
<1> QED
  BY <1>2 DEF Watch!Next, Watch!Other, Watch!vars

LEMMA WatchInit == Init => Watch!Init
<1> SUFFICES ASSUME Init PROVE Watch!Init
  OBVIOUS
<1>1. LowOf({}) = [c \in Currencies |-> {}] /\ OnSaleOnly({}) = {}
  BY DEF LowOf, AllTimeMinimum, OnSaleOnly
<1>2. \A i \in Items : snapshots[i] = {} /\ AnnouncedOf(i) = {}
  BY DEF Init, AnnouncedOf
<1>3. /\ [i \in Items |-> LowOf(snapshots[i])] = Watch!Nothing
      /\ [i \in Items |-> LowOf(OnSaleOnly(snapshots[i]))] = Watch!Nothing
      /\ [i \in Items |-> AnnouncedOf(i)] = [i \in Items |-> {}]
  BY <1>1, <1>2 DEF Watch!Nothing
<1> QED
  BY <1>3 DEF Watch!Init

LEMMA WatchStep ==
    TypeOK /\ LowKeysWitnessed /\ [Next]_vars => [Watch!Next]_(Watch!vars)
<1> SUFFICES ASSUME TypeOK, LowKeysWitnessed, [Next]_vars PROVE Watch!Next
  OBVIOUS
<1>1. ASSUME NEW i \in Items, NEW t \in Targets, NEW d \in Intervals, CreateItem(i, t, d)
      PROVE  Watch!Next
  BY <1>1, StutterImplements DEF CreateItem
<1>2. ASSUME NEW i \in Items, NEW t \in Targets, NEW d \in Intervals,
             NEW named \in BOOLEAN, NEW active \in BOOLEAN,
             UpdateItem(i, t, d, named, active)
      PROVE  Watch!Next
  BY <1>2, StutterImplements DEF UpdateItem
<1>3. ASSUME NEW i \in Items, DeleteItem(i) PROVE Watch!Next
  BY <1>3, DeleteImplements
<1>4. ASSUME NEW i \in Items, NEW o \in Observation, RecordSnapshot(i, o)
      PROVE  Watch!Next
  BY <1>4, RecordImplements
<1>5. ASSUME NEW i \in Items, RecordFailure(i) PROVE Watch!Next
  <2>1. \A j \in Items : /\ alerts[j] \subseteq alerts'[j]
                         /\ \A k \in alerts'[j] \ alerts[j] : k.kind = "scrape_degraded"
    BY <1>5 DEF RecordFailure, DecideFailureAlert, PlainKey, TypeOK
  <2>2. \A j \in Items : \A k : k.kind = "all_time_low" =>
            (k \in alerts'[j] <=> k \in alerts[j])
    BY <2>1
  <2> QED
    BY <1>5, <2>2, StutterImplements DEF RecordFailure
<1>6. ASSUME NEW batch \in SUBSET Items, ClaimDueItems(batch) PROVE Watch!Next
  BY <1>6, StutterImplements DEF ClaimDueItems
<1>7. CASE Tick
  BY <1>7, StutterImplements DEF Tick
<1>8. CASE UNCHANGED vars
  BY <1>8, StutterImplements DEF vars
<1> QED
  BY <1>1, <1>2, <1>3, <1>4, <1>5, <1>6, <1>7, <1>8 DEF Next

\* Whatever is reported, in whatever order and currency: the tables of core announce
\* all-time lows as LowWatch promises, each once, exactly when a product on sale
\* undercuts everything seen before.
THEOREM PricingImplementsLowWatch == Spec => ImplementsLowWatch
<1>1. IInv /\ [Next]_vars => [Watch!Next]_(Watch!vars)
  BY WatchStep DEF IInv, AlertInv
<1> QED
  BY <1>1, WatchInit, IInvAlways, PTL DEF Spec, ImplementsLowWatch, Watch!Spec
=============================================================================
