------------------------------ MODULE PageClient ------------------------------
(***************************************************************************)
(* The client that fetches pages (internal/scraper/client.go): the slots   *)
(* of a host, and the attempts of one Fetch.                               *)
(*                                                                         *)
(* A slot is taken under the lock, so what a client has done is the        *)
(* sequence of its reservations, in the order of the lock and therefore of *)
(* the clock: first attempts and retries of all workers alike.             *)
(***************************************************************************)
EXTENDS Integers, Sequences, SequencesExt, FiniteSetsExt

CONSTANTS
    Hosts,
    PerHostGap,  \* between two requests to a host, in ticks
    MaxRetries

ASSUME PageClientAssumption == PerHostGap \in Nat \ {0} /\ MaxRetries \in Nat

-----------------------------------------------------------------------------
\* waitForHost

\* Mutation: the slot after now is reserved, whatever the wait.
NextFreeFromNow(now, wait) == now + PerHostGap
NextFree(now, wait) == now + wait + PerHostGap

\* A reservation is [host, now]; free is the map nextFree.
Wait(free, r) == IF r.host \in DOMAIN free THEN Max({free[r.host] - r.now, 0}) ELSE 0
Reserve(c, r) ==
    LET wait == Wait(c.free, r)
    IN  [free |-> [h \in DOMAIN c.free \cup {r.host} |->
                      IF h = r.host THEN NextFree(r.now, wait) ELSE c.free[h]],
         slots |-> Append(c.slots, r.now + wait)]

\* When each reservation of a schedule may send its request.
Slots(schedule) == FoldLeft(Reserve, [free |-> <<>>, slots |-> <<>>], schedule).slots

-----------------------------------------------------------------------------
\* fetchOnce and Fetch

Statuses == {200, 404, 410, 429, 401, 403, 498, 499, 503, 500, 418}
\* What an attempt meets: a response, with a body that can be read or not, from behind
\* Cloudflare or not, or an error of the transport.
Answers == [status : Statuses, cloudflare : BOOLEAN, readable : BOOLEAN]
               \cup [transport : {"reset", "timeout", "cancelled"}]

Blocks(a) == \/ a.status \in {401, 403, 498, 499}
             \/ a.status = 503 /\ a.cloudflare
StatusError(a) ==
    CASE a.status = 200               -> "none"
      [] a.status \in {404, 410}      -> "not found"
      [] Blocks(a)                    -> "blocked"
      [] a.status = 429               -> "temporary"
      [] a.status >= 500 /\ ~Blocks(a) -> "temporary"
      [] OTHER                        -> "no price"

\* The client's own timeout matches context.DeadlineExceeded, as a cancellation does.
FetchOnce(a) ==
    IF "transport" \in DOMAIN a THEN (IF a.transport = "reset" THEN "temporary" ELSE a.transport)
    ELSE IF StatusError(a) = "none" /\ ~a.readable THEN "temporary"
    ELSE StatusError(a)

Temporary(err) == err = "temporary"

\* answers has one for each attempt that Fetch may make.
Fetch(answers) ==
    LET settled == {n \in DOMAIN answers : ~Temporary(FetchOnce(answers[n]))}
        last == Min(settled \cup {MaxRetries + 1})
    IN  [err |-> FetchOnce(answers[last]), attempts |-> last]
=============================================================================
