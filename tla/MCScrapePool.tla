----------------------------- MODULE MCScrapePool -----------------------------
EXTENDS ScrapeReadings, TLC

CONSTANTS w1, w2, w3, p1, p2

ShopDecimals == ("RUB" :> 2) @@ ("JPY" :> 0) @@ ("KWD" :> 3)
ThreeWorkers == (w1 :> p1) @@ (w2 :> p1) @@ (w3 :> p2)
=============================================================================
