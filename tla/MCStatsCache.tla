----------------------------- MODULE MCStatsCache -----------------------------
EXTENDS StatsCacheClaims, TLC

CONSTANTS i1, u1, u2

OneOwner == i1 :> u1
=============================================================================
