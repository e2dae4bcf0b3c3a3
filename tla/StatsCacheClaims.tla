--------------------------- MODULE StatsCacheClaims ---------------------------
(***************************************************************************)
(* What comments say of the statistics cache and the code does not do.     *)
(***************************************************************************)
EXTENDS StatsCache

\* grpc.go:205 "A new observation makes every cached window for this item wrong, so
\* the entry is dropped" and grpc.go:277 "invalidation can drop the item with a
\* single prefix delete".  Once the observation is answered for, no window of the
\* item is cached from before it.  DEL takes exact keys, so no window ever is
\* dropped.
DropsEveryWindow ==
    [][\A i \in Items : Invalidate(i) =>
           \A k \in DOMAIN cache' : k[1] # i]_vars
=============================================================================
