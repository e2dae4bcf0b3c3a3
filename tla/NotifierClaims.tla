--------------------------- MODULE NotifierClaims ---------------------------
(***************************************************************************)
(* What a comment says of delivery and the code does not do.               *)
(***************************************************************************)
EXTENDS Notifier

\* worker.go:141 "Claim before sending, not after: ... a duplicate ... for a drop
\* the user already saw reads as a bug".  A call to Telegram that times out or loses its
\* connection counts as retryable even if the message was accepted: the worker
\* releases its claim and sends the same message again, without any Redis error.
AtMostOnceVisible == \A k \in Keys : delivered[k] <= 1
=============================================================================
