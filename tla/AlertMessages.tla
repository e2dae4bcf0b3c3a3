---------------------------- MODULE AlertMessages ----------------------------
(***************************************************************************)
(* What an alert says, from the decision to the message: the fields that   *)
(* DecideAlerts fills in, the rows that persistAlerts keeps                *)
(* (internal/core/pricing.go), the reply of core (internal/core/           *)
(* convert.go), the queued payload (internal/notify/alert.go) and its text *)
(* (internal/notify/render.go).                                            *)
(*                                                                         *)
(* Alerting knows an alert by its key; here it has its payload too.        *)
(***************************************************************************)
EXTENDS Alerting, Selecting

\* domain.Alert.  A degraded scrape has the zero Money for a price.
NoMoney == [amount |-> 0, currency |-> NoCurrency]
Alert(key, price, previous, target, original) ==
    [kind |-> key.kind, price |-> price, previous_price |-> previous,
     target_price |-> target, original_price |-> original, dedup_key |-> key]

PreviousPriceIn(previous, c) == UNION {PriceIn(q, c) : q \in previous}

\* Mutation: the shop's own price is left out.
OriginalPriceNone(shop, stated) == {}
OriginalPrice(shop, stated) == {p \in {shop} : p.currency # stated.currency}

StockPayloads(previous, new) ==
    {Alert(k, new.price, {q.price : q \in previous}, {}, {}) : k \in StockAlerts(previous, new)}

DropPayloads(target, previous, new) ==
    UNION {{Alert(PriceKey("price_drop", p), p, PreviousPriceIn(previous, t.currency), {t},
                  OriginalPrice(new.price, p)) : p \in PriceIn(new, t.currency)} : t \in target}

LowPayloads(allTimeMin, new) ==
    {Alert(PriceKey("all_time_low", new.price), new.price, {low}, {}, {}) : low \in allTimeMin}

\* Stock before price, in the order they should be delivered.
Decided(target, previous, allTimeMin, new) ==
    LET keys == DecideAlerts(target, previous, allTimeMin, new)
        Chosen(payloads) == SetToSeq({a \in payloads : a.dedup_key \in keys})
    IN  Chosen(StockPayloads(previous, new)) \o Chosen(DropPayloads(target, previous, new))
            \o Chosen(LowPayloads(allTimeMin, new))

DecidedFailure(streak, threshold) ==
    SetToSeq({Alert(k, NoMoney, {}, {}, {}) : k \in DecideFailureAlert(streak, threshold)})

\* Mutation: the reply carries what was stored before as well.
PersistAll(decided, rows) == decided

\* ON CONFLICT (dedup_key) DO NOTHING: only what is new is raised.
PersistAlerts(decided, rows) ==
    Only(decided, {a \in ToSet(decided) : a.dedup_key \notin rows})

-----------------------------------------------------------------------------
\* Over the wire and into the queue

KindNames == [price_drop |-> "ALERT_KIND_PRICE_DROP",
              back_in_stock |-> "ALERT_KIND_BACK_IN_STOCK",
              out_of_stock |-> "ALERT_KIND_OUT_OF_STOCK",
              all_time_low |-> "ALERT_KIND_ALL_TIME_LOW",
              scrape_degraded |-> "ALERT_KIND_SCRAPE_DEGRADED"]

\* pendingAlerts: of the prices, the alert's own is never a nil message.
PendingAlert(a) ==
    [kind |-> KindNames[a.kind], price |-> {a.price}, previous_price |-> a.previous_price,
     target_price |-> a.target_price, original_price |-> a.original_price,
     dedup_key |-> a.dedup_key]

\* kindFromProto; a kind this build does not know has no name.
KindFromProto(kind) ==
    IF \E k \in DOMAIN KindNames : KindNames[k] = kind
    THEN CHOOSE k \in DOMAIN KindNames : KindNames[k] = kind
    ELSE ""

MoneyFromProto(money) == {m \in money : m.currency # NoCurrency}

FromProto(p) ==
    [kind |-> KindFromProto(p.kind), price |-> MoneyFromProto(p.price),
     previous_price |-> MoneyFromProto(p.previous_price),
     target_price |-> MoneyFromProto(p.target_price),
     original_price |-> MoneyFromProto(p.original_price), dedup_key |-> p.dedup_key]

-----------------------------------------------------------------------------
\* Render

\* In tenths of a percent, rounded down; a change too small to show is not shown.
Drop(previous, current) ==
    IF previous.amount = 0 \/ current.amount >= previous.amount THEN {}
    ELSE {((previous.amount - current.amount) * 1000) \div previous.amount} \ {0}

Silent == [price |-> {}, was |-> {}, percent |-> {}, shop |-> {}, wished |-> {}]

\* Lines by kind; a price is stated next to an earlier one in its own currency only.
Lines(a) ==
    CASE a.kind \in {"price_drop", "all_time_low"} ->
             LET was == {q \in a.previous_price : \E p \in a.price : q.currency = p.currency}
             IN  [price |-> a.price, was |-> was,
                  percent |-> UNION {Drop(q, p) : q \in was, p \in a.price},
                  shop |-> a.original_price, wished |-> a.target_price]
      [] a.kind \in {"back_in_stock", "out_of_stock"} -> [Silent EXCEPT !.price = a.price]
      [] OTHER -> Silent

Render(a) == [heading |-> IF a.kind \in AlertKinds THEN a.kind ELSE "update", lines |-> Lines(a)]

Message(a) == Render(FromProto(PendingAlert(a)))
=============================================================================
