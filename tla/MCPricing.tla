------------------------------ MODULE MCPricing ------------------------------
(***************************************************************************)
(* Instances of Pricing.  Currencies are strings because amounts of        *)
(* different currencies meet in one set of keys.                           *)
(***************************************************************************)
EXTENDS PricingClaims, PricingReports

NoTarget == {}
RUB(n) == {[amount |-> n, currency |-> "RUB"]}
OneTarget == {RUB(1)}
TwoTargets == {NoTarget, RUB(2)}
HighTarget == {RUB(2)}
=============================================================================
