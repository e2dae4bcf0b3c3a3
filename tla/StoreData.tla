------------------------------ MODULE StoreData ------------------------------
(***************************************************************************)
(* What the two stores of the bot share (internal/domain/domain.go and the *)
(* interface Store in internal/bot/store.go).  A value that may be missing *)
(* (a nil pointer, a NULL column) is a set of at most one element.         *)
(***************************************************************************)
EXTENDS Integers, Selecting

CONSTANTS
    Users,
    Urls,
    Currencies,
    DefaultCurrency,
    MaxItemsPerUser,
    Second,            \* in units of a time.Duration
    MinCheckInterval,
    MaxCheckInterval,
    DefaultInterval

\* domain.ErrNotFound and the others; "unavailable" is any other error.
Sentinels == {"not found", "already exists", "validation", "limit reached"}
Errors == Sentinels \cup {"none", "unavailable"}

Invalid(money) == money.currency \notin Currencies \/ money.amount <= 0

\* ValidateInterval: no interval is the default one.
IntervalOf(d) == IF d = 0 THEN DefaultInterval ELSE d
ValidInterval(d) == IntervalOf(d) \in MinCheckInterval .. MaxCheckInterval

\* The checks of a method in their order; the first that holds decides.
Refusal(checks) ==
    LET failed == {n \in DOMAIN checks : checks[n].when}
    IN  IF failed = {} THEN "none"
        ELSE checks[CHOOSE n \in failed : \A m \in failed : n <= m].err
Check(when, err) == [when |-> when, err |-> err]

\* A map after key got a value.
With(map, key, value) == [k \in DOMAIN map \cup {key} |-> IF k = key THEN value ELSE map[k]]

\* A method leaves the store alone when it fails.
Result(store, err, after, value) ==
    IF err = "none" THEN [store |-> after, err |-> err, value |-> value]
    ELSE [store |-> store, err |-> err, value |-> <<>>]
=============================================================================
