------------------------- MODULE MCPricingRefinement -------------------------
EXTENDS PricingRefinement, PricingReports, StatsReplies

OneTarget == {{[amount |-> 2, currency |-> "RUB"]}}
=============================================================================
