----------------------------- MODULE ScrapeClient -----------------------------
(***************************************************************************)
(* The workers of ScrapePool fetch every page through one PageClient per   *)
(* process: what the shops see of it.                                      *)
(***************************************************************************)
EXTENDS ScrapePool, PageClient

CONSTANT Requests  \* bound: reservations of one schedule

ASSUME RequestsAssumption == Requests \in Nat

\* Nondecreasing times: the clock does not run backwards.
Schedules ==
    {s \in UNION {[1 .. n -> [host : Hosts, now : 0 .. 2 * PerHostGap]] : n \in 0 .. Requests} :
        \A j, k \in DOMAIN s : j < k => s[j].now <= s[k].now}

\* Requests to a host are apart; none goes out early, or waits for more than those
\* before it, or for another host.
SparesHosts(s) ==
    LET slots == Slots(s)
        before(k) == {j \in 1 .. k - 1 : s[j].host = s[k].host}
    IN  \A k \in DOMAIN s :
            /\ slots[k] >= s[k].now
            /\ \A j \in before(k) : slots[k] >= slots[j] + PerHostGap
            /\ slots[k] > s[k].now => \E j \in before(k) : slots[k] = slots[j] + PerHostGap

\* What every sequence of answers comes to: a block, a page that is gone and a page
\* that was read are asked for once, and a bad minute until it is over.
Settles(answers) ==
    LET f == Fetch(answers)
        errs == [n \in DOMAIN answers |-> FetchOnce(answers[n])]
    IN  /\ f.attempts \in DOMAIN answers
        /\ \A n \in 1 .. f.attempts - 1 : errs[n] = "temporary"
        /\ f.err = errs[f.attempts]
        /\ f.err = "temporary" => f.attempts = MaxRetries + 1

ClientBehaves ==
    /\ \A s \in Schedules : SparesHosts(s)
    /\ \A answers \in [1 .. MaxRetries + 1 -> Answers] : Settles(answers)

-----------------------------------------------------------------------------
\* Properties

Observing == \E w \in Workers : pc[w] = "observing"

\* client.go:41 "the minimum delay between two requests to the same host": however the
\* attempts and retries of the workers interleave, the requests to a host are that far
\* apart, none is held back longer than those before it require, and only a bad minute
\* of the shop is met with another attempt.
HostsSpared == Observing => ClientBehaves
=============================================================================
