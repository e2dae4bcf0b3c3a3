-------------------------- MODULE PricingRefinement --------------------------
(***************************************************************************)
(* The history table and the alerts table implement LowWatch: the low of a *)
(* currency is the minimum the code queries, the announcements are the     *)
(* all_time_low rows.                                                      *)
(***************************************************************************)
EXTENDS Pricing

LowOf(snaps) == [c \in Currencies |->
                    {m.amount : m \in AllTimeMinimum(snaps, c)}]
OnSaleOnly(snaps) == {s \in snaps : s.inStock}
AnnouncedOf(i) == {<<k.n, k.currency>> :
                      k \in {a \in alerts[i] : a.kind = "all_time_low"}}

Watch == INSTANCE LowWatch WITH
             low <- [i \in Items |-> LowOf(snapshots[i])],
             saleLow <- [i \in Items |-> LowOf(OnSaleOnly(snapshots[i]))],
             announced <- [i \in Items |-> AnnouncedOf(i)]

\* Whatever is reported, in whatever order, all-time lows are announced as
\* LowWatch allows: once each, only for a price below all before it.
ImplementsLowWatch == Watch!Spec
=============================================================================
