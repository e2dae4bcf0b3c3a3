------------------------------- MODULE Pricing -------------------------------
(***************************************************************************)
(* The tables of the core service and the transactions that change them:   *)
(* internal/core/repo.go and internal/core/pricing.go over                 *)
(* migrations/000001_init.up.sql.  Every action is one committed           *)
(* transaction; those that touch an existing item hold its row lock, which *)
(* is what serialises them.  A request the code rejects changes nothing,   *)
(* so its guard is simply false here.                                      *)
(*                                                                         *)
(* Time is counted down: next and lease are the ticks that remain until    *)
(* next_check_at and claimed_until, 0 once they have passed (a NULL lease  *)
(* is an expired one: the code never tells them apart).                    *)
(***************************************************************************)
EXTENDS Alerting, FiniteSets

CONSTANTS
    Items,                  \* ids of tracked_items, never reused (UUIDs)
    Targets,                \* alert thresholds a user may set
    Intervals,              \* check intervals a user may choose, in ticks
    FailureStreakThreshold, \* 5 in the code
    MaxFailureBackoff,      \* six hours in the code
    LeaseTicks,             \* the lease the scraper asks for
    BatchSize,              \* how many items one claim may take
    MaxStreak,              \* bound: failures in a row that are followed
    MaxLate                 \* bound: readings that may overtake a reading

ASSUME TargetsAssumption == Targets \subseteq Option(Money)
ASSUME IntervalsAssumption == Intervals \subseteq Nat \ {0} /\ Intervals # {}
ASSUME TicksAssumption ==
    /\ FailureStreakThreshold \in Nat \ {0}
    /\ MaxFailureBackoff \in Nat \ {0}
    /\ LeaseTicks \in Nat \ {0}
    /\ BatchSize \in Nat
    /\ MaxStreak \in Nat
    /\ MaxLate \in Nat

VARIABLES
    status,     \* whether the row was inserted, and whether it was deleted
    item,       \* tracked_items
    snapshots,  \* price_snapshots of each item
    alerts,     \* dedup_key column of the alerts of each item
    retargeted  \* history: items whose threshold was changed since /add

vars == <<status, item, snapshots, alerts, retargeted>>

Row == [target : Targets \cup {{}}, interval : Intervals, active : BOOLEAN,
        streak : Nat, next : Nat, lease : Nat]

TypeOK ==
    /\ status \in [Items -> {"unborn", "live", "deleted"}]
    /\ item \in [Items -> Row]
    /\ snapshots \in [Items -> SUBSET Snapshot]
    /\ alerts \in [Items -> SUBSET DedupKey]
    /\ retargeted \subseteq Items

-----------------------------------------------------------------------------

\* What a scraper submits.  An in-stock reading has a price; a conversion is
\* attached only to a price, and is in another currency than it.
Observation ==
    {o \in [at : Stamps, price : Option(Money), converted : Option(Money),
            inStock : BOOLEAN] :
        \A c \in o.converted : \E p \in o.price : p.currency # c.currency}

\* A reading is never reported twice.  Stamps number the readings of an item in
\* the order they were taken, so with at most MaxLate readings in flight a report
\* can be overtaken by no more than MaxLate later ones.
Arrives(i, at) ==
    /\ at <= Cardinality(snapshots[i]) + 1 + MaxLate
    /\ \A s \in snapshots[i] : s.at # at /\ s.at <= at + MaxLate

\* A reading without a price takes over the last known one.
PriceOf(o, previous) ==
    IF o.price # {} THEN o.price ELSE {p.price : p \in previous}

\* Mutation: the exponential backoff has no cap.
BackoffUncapped(interval, streak) == interval * 2^(streak - 1)

Backoff(interval, streak) ==
    LET doubled == interval * 2^(streak - 1)
    IN  IF doubled \in 0 .. MaxFailureBackoff THEN doubled ELSE MaxFailureBackoff

Least(a, b) == IF a <= b THEN a ELSE b
OneLess(n) == IF n = 0 THEN 0 ELSE n - 1

\* Mutation: a new interval shifts the schedule instead of bounding it.
NextCheckShifted(i, interval, named) ==
    item[i].next + interval - item[i].interval

\* Mutation: a new interval starts from now.
NextCheckRestarted(i, interval, named) ==
    IF named THEN interval ELSE item[i].next

\* Naming an interval, even the one in force, pulls the next check forward to it;
\* it is never pushed back.
NextCheck(i, interval, named) ==
    IF named THEN Least(item[i].next, interval) ELSE item[i].next

AlertsWithout(i) == [alerts EXCEPT ![i] = {}]

Due(i) == /\ status[i] = "live"
          /\ item[i].active
          /\ item[i].next = 0
          /\ item[i].lease = 0

-----------------------------------------------------------------------------

Init ==
    /\ status = [i \in Items |-> "unborn"]
    /\ item = [i \in Items |->
                  [target |-> {}, interval |-> CHOOSE d \in Intervals : TRUE,
                   active |-> TRUE, streak |-> 0, next |-> 0, lease |-> 0]]
    /\ snapshots = [i \in Items |-> {}]
    /\ alerts = [i \in Items |-> {}]
    /\ retargeted = {}

\* /add: due at once.  The per-user limit is the subject of module Dialog.
CreateItem(i, target, interval) ==
    /\ status[i] = "unborn"
    /\ status' = [status EXCEPT ![i] = "live"]
    /\ item' = [item EXCEPT ![i] = [@ EXCEPT !.target = target,
                                             !.interval = interval]]
    /\ UNCHANGED <<snapshots, alerts, retargeted>>

\* The fields of the patch replace the row's.
UpdateItem(i, target, interval, named, active) ==
    /\ status[i] = "live"
    /\ named \/ interval = item[i].interval
    /\ item' = [item EXCEPT ![i] =
                   [@ EXCEPT !.target = target, !.active = active,
                             !.interval = interval,
                             !.next = NextCheck(i, interval, named)]]
    /\ retargeted' = IF target = item[i].target THEN retargeted
                     ELSE retargeted \cup {i}
    /\ UNCHANGED <<status, snapshots, alerts>>

\* ON DELETE CASCADE takes the history and the alerts along.
DeleteItem(i) ==
    /\ status[i] = "live"
    /\ status' = [status EXCEPT ![i] = "deleted"]
    /\ snapshots' = [snapshots EXCEPT ![i] = {}]
    /\ alerts' = AlertsWithout(i)
    /\ UNCHANGED <<item, retargeted>>

\* FOR UPDATE SKIP LOCKED leaves out rows another transaction holds, so a claim
\* takes some of the due items, at most a batch.  Their next check stays due.
ClaimDueItems(batch) ==
    /\ batch # {} /\ Cardinality(batch) <= BatchSize
    /\ \A i \in batch : Due(i)
    /\ item' = [i \in Items |->
                   IF i \in batch THEN [item[i] EXCEPT !.lease = LeaseTicks]
                   ELSE item[i]]
    /\ UNCHANGED <<status, snapshots, alerts, retargeted>>

\* One transaction: the previous snapshot and the minimum are read before the
\* insert, keys already in the alerts table are skipped (ON CONFLICT DO NOTHING),
\* and the row is rescheduled, unleased and forgiven its failures.
RecordSnapshot(i, o) ==
    /\ status[i] = "live"
    /\ Arrives(i, o.at)
    /\ o.inStock => o.price # {}
    /\ \E price \in PriceOf(o, Latest(snapshots[i])) :
        LET new == [at |-> o.at, price |-> price, converted |-> o.converted,
                    inStock |-> o.inStock]
            decided == DecideAlerts(item[i].target, Latest(snapshots[i]),
                           AllTimeMinimum(snapshots[i], price.currency), new)
        IN  /\ snapshots' = [snapshots EXCEPT ![i] = @ \cup {new}]
            /\ alerts' = [alerts EXCEPT ![i] = @ \cup decided]
    /\ item' = [item EXCEPT ![i] = [@ EXCEPT !.streak = 0, !.lease = 0,
                                             !.next = item[i].interval]]
    /\ UNCHANGED <<status, retargeted>>

RecordFailure(i) ==
    /\ status[i] = "live"
    /\ item[i].streak < MaxStreak
    /\ LET streak == item[i].streak + 1
       IN  /\ item' = [item EXCEPT ![i] =
                          [@ EXCEPT !.streak = streak, !.lease = 0,
                                    !.next = Backoff(item[i].interval, streak)]]
           /\ alerts' = [alerts EXCEPT ![i] =
                            @ \cup DecideFailureAlert(streak, FailureStreakThreshold)]
    /\ UNCHANGED <<status, snapshots, retargeted>>

Tick ==
    /\ item' = [i \in Items |->
                   [item[i] EXCEPT !.next = OneLess(item[i].next),
                                   !.lease = OneLess(item[i].lease)]]
    /\ UNCHANGED <<status, snapshots, alerts, retargeted>>

Next ==
    \/ \E i \in Items :
        \/ \E t \in Targets, d \in Intervals : CreateItem(i, t, d)
        \/ \E t \in Targets, d \in Intervals, named, active \in BOOLEAN :
               UpdateItem(i, t, d, named, active)
        \/ DeleteItem(i)
        \/ \E o \in Observation : RecordSnapshot(i, o)
        \/ RecordFailure(i)
    \/ \E batch \in SUBSET Items : ClaimDueItems(batch)
    \/ Tick

Spec == Init /\ [][Next]_vars
-----------------------------------------------------------------------------
\* Safety

\* What a step adds to the history and to the alerts of an item.  The alerts
\* added are exactly those the reply carries to the scraper.
Recorded(i) == snapshots'[i] \ snapshots[i]
Raised(i) == alerts'[i] \ alerts[i]

\* Strictly cheaper than every price seen before in the same currency.
NewLow(money, snaps) ==
    /\ \E s \in snaps : s.price.currency = money.currency
    /\ \A s \in snaps : s.price.currency = money.currency =>
                            money.amount < s.price.amount

\* Every all_time_low alert names a price of the item's history, so the price of
\* a new low is never a key already in the table.
LowKeysWitnessed ==
    \A i \in Items : \A k \in alerts[i] :
        k.kind = "all_time_low" =>
            \E s \in snapshots[i] : s.price.amount = k.n /\ s.price.currency = k.currency

\* A new low of a product on sale is always reported: deduplication, carried
\* prices and readings that arrive late never swallow it.
NewLowReported ==
    [][\A i \in Items : \A s \in Recorded(i) :
           s.inStock /\ NewLow(s.price, snapshots[i]) =>
               PriceKey("all_time_low", s.price) \in Raised(i)]_vars

\* If the threshold was never changed and the product was on sale whenever its
\* price was at or below it, the user has been told of some such price.
TargetReached ==
    \A i \in Items \ retargeted : \A t \in item[i].target :
        LET reached == {s \in snapshots[i] : AtOrBelow(s, t)}
        IN  reached # {} /\ (\A s \in reached : s.inStock) =>
                \E k \in alerts[i] : /\ k.kind = "price_drop"
                                     /\ k.currency = t.currency
                                     /\ k.n <= t.amount

\* A healthy item is checked within its current interval and a failing one
\* within the cap, whatever failures and interval changes came before.
ScheduleBound ==
    \A i \in Items :
        item[i].next <= IF item[i].streak = 0 THEN item[i].interval
                        ELSE MaxFailureBackoff

\* An item under lease is due: when its holder dies it can be claimed again as
\* soon as the lease has run out, and a finished scrape leaves no lease behind.
LeasedIsDue == \A i \in Items : item[i].lease > 0 => item[i].next = 0

\* Stock alerts alternate and none is lost: what the user was told adds up to
\* the change between the first reading and the latest one.
InStock(snaps) == Cardinality({s \in snaps : s.inStock})
First(snaps) == {s \in snaps : \A t \in snaps : s.at <= t.at}
StockLedger ==
    MaxLate = 0 => \A i \in Items :
        LET told(kind) == Cardinality({k \in alerts[i] : k.kind = kind})
        IN  InStock(First(snapshots[i])) + told("back_in_stock")
                = InStock(Latest(snapshots[i])) + told("out_of_stock")
=============================================================================
