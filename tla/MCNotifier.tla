----------------------------- MODULE MCNotifier -----------------------------
EXTENDS NotifierClaims, TLC

CONSTANTS k1, k2, w1, w2, w3, p1, p2

\* Two workers of one process and the only worker of another.
ThreeWorkers == (w1 :> p1) @@ (w2 :> p1) @@ (w3 :> p2)
TwoWorkers == (w1 :> p1) @@ (w2 :> p1)
TwoProcesses == (w1 :> p1) @@ (w2 :> p2)
=============================================================================
