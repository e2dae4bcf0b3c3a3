---------------------------- MODULE PricingReports ----------------------------
(***************************************************************************)
(* What the user is told of the tables of Pricing when something happens:  *)
(* the messages of the alerts that a transaction raises.                   *)
(***************************************************************************)
EXTENDS Pricing, AlertMessages

\* The alerts that the reply to RecordSnapshot or RecordFailure carries.
RaisedBySnapshot(i, s) ==
    PersistAlerts(Decided(item[i].target, Latest(snapshots[i]),
                          AllTimeMinimum(snapshots[i], s.price.currency), s), alerts[i])
RaisedByFailure(i) ==
    PersistAlerts(DecidedFailure(item'[i].streak, FailureStreakThreshold), alerts[i])

\* What is told of a price is true of the history: against the threshold it is
\* compared in one currency, and an earlier price stands next to it only if it was
\* higher, with a change that never claims more than there is.
True(i, s, a) ==
    LET m == Message(a).lines
        known == Latest(snapshots[i])
    IN  /\ Message(a).heading = a.kind
        /\ \E p \in m.price :
              /\ \A q \in m.was \cup m.wished \cup m.shop \cup {p} :
                    q.currency = p.currency \/ q \in m.shop
              /\ \A q \in m.was : q.amount > p.amount
              /\ \A n \in m.percent : \A q \in m.was :
                    n \in 1 .. 1000 /\ n * q.amount <= 1000 * (q.amount - p.amount)
              /\ p # s.price <=> m.shop = {s.price}
              /\ p \in {s.price} \cup s.converted
              /\ a.kind = "price_drop" => \E t \in m.wished : p.amount <= t.amount
              /\ a.kind = "all_time_low" =>
                    \E q \in m.was : \A r \in snapshots[i] :
                        r.price.currency = p.currency => q.amount <= r.price.amount
        /\ a.kind = "back_in_stock" => s.inStock /\ \E l \in known : ~l.inStock
        /\ a.kind = "out_of_stock" => ~s.inStock /\ \E l \in known : l.inStock

\* Stock first: "back in stock" should not be buried under a price line.
Ordered(sent) == \A n \in DOMAIN sent : \A m \in 1 .. n - 1 :
                    sent[n].kind \notin {"back_in_stock", "out_of_stock"}

\* alert.go:29 "self-contained on purpose": the messages of a report, made of nothing
\* but the replies of core, are those of the rows it inserted, once each, stock first,
\* and every amount in them is true; an item that fails is named without a price.
MessagesTrue ==
    [][\A i \in Items :
        /\ \A s \in Recorded(i) :
              LET sent == RaisedBySnapshot(i, s)
              IN  /\ {a.dedup_key : a \in ToSet(sent)} = Raised(i)
                  /\ Len(sent) = Cardinality(Raised(i))
                  /\ Ordered(sent)
                  /\ \A a \in ToSet(sent) : True(i, s, a)
        /\ item'[i].streak > item[i].streak =>
              LET sent == RaisedByFailure(i)
              IN  /\ {a.dedup_key : a \in ToSet(sent)} = Raised(i)
                  /\ \A a \in ToSet(sent) :
                        Message(a) = [heading |-> "scrape_degraded", lines |-> Silent]]_vars
=============================================================================
