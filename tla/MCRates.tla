------------------------------- MODULE MCRates -------------------------------
EXTENDS CurrencyService, TLC

CONSTANTS c1, c2, c3, r1, r2, usd, eur, jpy

TwoReplicas == (c1 :> r1) @@ (c2 :> r1) @@ (c3 :> r2)
Decimals == (usd :> 1) @@ (eur :> 1) @@ (jpy :> 0)
\* Every table of two rates, and those with one.
AllTables == [{eur, jpy} -> 0 .. 24] \cup [{jpy} -> 0 .. 24]
=============================================================================
