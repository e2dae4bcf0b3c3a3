------------------------------ MODULE Alerting ------------------------------
(***************************************************************************)
(* The alert decision of the core service: internal/core/alerts.go and the *)
(* two queries of pricing.go that feed it.  The functions are pure there   *)
(* and operators here.                                                     *)
(*                                                                         *)
(* A Go pointer that may be nil is a set with at most one member, so "if p *)
(* is not nil" is a quantifier over p.  An alert is represented by its     *)
(* deduplication key: the amounts a message displays decide nothing.       *)
(***************************************************************************)
EXTENDS Naturals

CONSTANTS
    Currencies,   \* ISO codes, validated before a price reaches this code
    Amounts,      \* amounts of money, in minor units
    Stamps,       \* instants at which a page was read
    NoCurrency    \* the currency column of an alert that states no price

ASSUME AmountsAssumption == Amounts \subseteq Nat
ASSUME StampsAssumption  == Stamps \subseteq Nat
ASSUME CurrenciesAssumption == NoCurrency \notin Currencies

Option(S) == {{}} \cup {{x} : x \in S}

Money == [amount : Amounts, currency : Currencies]

\* A row of price_snapshots.  Its stamp doubles as its id: a row is identified
\* by the reading it stores.
Snapshot == [at : Stamps, price : Money, converted : Option(Money),
             inStock : BOOLEAN]

AlertKinds == {"price_drop", "back_in_stock", "out_of_stock",
               "all_time_low", "scrape_degraded"}

\* kind ":" item ":" discriminator.  The item is the index of the alert table,
\* the discriminator an amount with its currency, a snapshot, or a streak.
DedupKey == [kind : AlertKinds, n : Nat, currency : Currencies \cup {NoCurrency}]

PriceKey(kind, money) ==
    [kind |-> kind, n |-> money.amount, currency |-> money.currency]
PlainKey(kind, n) == [kind |-> kind, n |-> n, currency |-> NoCurrency]

-----------------------------------------------------------------------------

\* ORDER BY observed_at DESC LIMIT 1
Latest(snaps) == {s \in snaps : \A t \in snaps : t.at <= s.at}

\* SELECT min(amount) ... WHERE currency = c
AllTimeMinimum(snaps, c) ==
    {m \in {s.price : s \in snaps} :
        /\ m.currency = c
        /\ \A s \in snaps : s.price.currency = c => m.amount <= s.price.amount}

\* The snapshot's price in currency c: the shop's own price when it is in c,
\* else the converted one, else nothing.
PriceIn(s, c) ==
    IF s.price.currency = c THEN {s.price}
    ELSE {m \in s.converted : m.currency = c}

AtOrBelow(s, target) ==
    \E m \in PriceIn(s, target.currency) : m.amount <= target.amount

StockAlerts(previous, new) ==
    {PlainKey(IF new.inStock THEN "back_in_stock" ELSE "out_of_stock", new.at) :
        p \in {q \in previous : q.inStock # new.inStock}}

\* Mutation: wasAbove starts as false.
DropAlertsKnownAbove(target, previous, new) ==
    {PriceKey("price_drop", m) :
        m \in UNION {{p \in PriceIn(new, t.currency) :
                          /\ p.amount <= t.amount
                          /\ \E q \in previous : \E r \in PriceIn(q, t.currency) :
                                 r.amount > t.amount} : t \in target}}

\* wasAbove is the code's default: a previous snapshot with no price in the
\* target's currency counts as having been above it.
DropAlerts(target, previous, new) ==
    {PriceKey("price_drop", m) :
        m \in UNION {{p \in PriceIn(new, t.currency) :
                          /\ p.amount <= t.amount
                          /\ \A q \in previous : ~AtOrBelow(q, t)} : t \in target}}

LowAlerts(allTimeMin, new) ==
    {PriceKey("all_time_low", new.price) :
        m \in {low \in allTimeMin : /\ low.currency = new.price.currency
                                    /\ new.price.amount < low.amount}}

\* Mutation: the early return for a sold-out product comes first.
DecideAlertsInStockOnly(target, previous, allTimeMin, new) ==
    IF new.inStock
    THEN StockAlerts(previous, new) \cup DropAlerts(target, previous, new)
            \cup LowAlerts(allTimeMin, new)
    ELSE {}

\* Mutation: an all-time low is not reported next to a price drop.
DecideAlertsFirstPriceAlert(target, previous, allTimeMin, new) ==
    StockAlerts(previous, new) \cup
        (IF ~new.inStock THEN {}
         ELSE IF DropAlerts(target, previous, new) # {}
              THEN DropAlerts(target, previous, new)
              ELSE LowAlerts(allTimeMin, new))

\* Mutation: the early return for a sold-out product is missing.
DecideAlertsAlways(target, previous, allTimeMin, new) ==
    StockAlerts(previous, new) \cup DropAlerts(target, previous, new)
        \cup LowAlerts(allTimeMin, new)

DecideAlerts(target, previous, allTimeMin, new) ==
    StockAlerts(previous, new) \cup
        (IF new.inStock
         THEN DropAlerts(target, previous, new) \cup LowAlerts(allTimeMin, new)
         ELSE {})

DecideFailureAlert(streak, threshold) ==
    IF threshold > 0 /\ streak = threshold
    THEN {PlainKey("scrape_degraded", streak)}
    ELSE {}
=============================================================================
