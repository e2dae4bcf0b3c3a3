---------------------------- MODULE PricingClaims ----------------------------
(***************************************************************************)
(* What comments and documents say of the alert rules and the code does    *)
(* not do.  Each formula is the reading of one quoted line; TLC refutes it *)
(* in a run of its own.                                                    *)
(***************************************************************************)
EXTENDS Pricing

\* alerts.go:77 "Keyed by price, so a drop to the same value after a bounce back
\* up is reported again".  The alerts table keeps every key for as long as the
\* item lives, so the second drop to the same amount conflicts with the first.
DropAfterBounceReported ==
    [][\A i \in Items : \A t \in item[i].target, s \in Recorded(i) :
           /\ s.inStock
           /\ AtOrBelow(s, t)
           /\ \E p \in Latest(snapshots[i]) :
                  /\ p.inStock
                  /\ \E m \in PriceIn(p, t.currency) : m.amount > t.amount
           => \E k \in Raised(i) : k.kind = "price_drop"]_vars

\* alerts.go:25 "A price that merely stays below the threshold ... produces
\* nothing".  One reading without a comparable amount (the conversion failed)
\* makes the next one look like a fresh drop.
StayingBelowIsSilent ==
    [][\A i \in Items : \A t \in item[i].target, s \in Recorded(i) :
           /\ \A p \in snapshots[i] : /\ p.inStock
                                      /\ p.price.currency = s.price.currency
                                      /\ \A m \in PriceIn(p, t.currency) :
                                             m.amount <= t.amount
           /\ \E p \in snapshots[i] : AtOrBelow(p, t)
           /\ i \notin retargeted
           => \A k \in Raised(i) : k.kind # "price_drop"]_vars
=============================================================================
