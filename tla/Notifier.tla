------------------------------ MODULE Notifier ------------------------------
(***************************************************************************)
(* Delivery of alerts: the Redis list between the scraper and the          *)
(* notifier (internal/platform/queue), the deduplication claims and the    *)
(* delivery workers (internal/notify).  Several notifier processes may run *)
(* at once; each has its own workers and its own attempt counter.          *)
(*                                                                         *)
(* Every call to Redis or Telegram is one step, so a crash or another      *)
(* worker may come between any two of them.  An alert is its dedup key:    *)
(* core gives every alert a recipient and a key, so the branches for an    *)
(* alert without one are never taken.                                      *)
(***************************************************************************)
EXTENDS Naturals, Sequences, FiniteSets

CONSTANTS
    Keys,         \* dedup keys of the alerts raised by core, each once
    Processes,    \* notifier processes
    Workers,      \* delivery goroutines of all processes
    ProcessOf,    \* the process a worker belongs to
    NoAlert,      \* what a worker holds between two alerts
    MaxAttempts,  \* 5 in the code
    MaxCopies,    \* bound: RPUSHes of one alert (a client retry repeats one)
    MaxFaults     \* bound: Redis errors, lapsed claims, crashes and shutdowns

ASSUME ProcessAssumption == ProcessOf \in [Workers -> Processes]
ASSUME FiniteAssumption == IsFiniteSet(Workers) /\ IsFiniteSet(Processes)
ASSUME NoAlertAssumption == NoAlert \notin Keys
ASSUME BoundsAssumption == /\ MaxAttempts \in Nat \ {0}
                           /\ MaxCopies \in Nat
                           /\ MaxFaults \in Nat

VARIABLES
    queue,      \* the Redis list queue:alerts
    claimed,    \* keys under dedup:notify: in Redis
    pc,         \* where each worker's loop is
    job,        \* the alert each worker has popped
    attempts,   \* attemptCounter of each process
    stopping,   \* processes whose context is cancelled
    \* History
    pushed,     \* how often each alert was put on the list by the scraper
    delivered,  \* messages about each alert that reached the user
    tries,      \* messages about each alert handed to Telegram
    lost,       \* alerts of which a copy was dropped, for whatever reason
    unguarded,  \* alerts whose claim did not guard a delivery
    faults      \* faults so far

vars == <<queue, claimed, pc, job, attempts, stopping,
          pushed, delivered, tries, lost, unguarded, faults>>
messages == <<pushed, delivered, tries>>
verdicts == <<lost, unguarded>>

Idle == "idle"
\* An alert is in a worker's hands in each of these; in the last four the worker
\* has passed the claim, and it has given the claim back when it sleeps.
Locations == {Idle, "popped", "sending", "counting", "releasing", "sleeping"}

TypeOK ==
    /\ queue \in Seq(Keys)
    /\ claimed \subseteq Keys
    /\ pc \in [Workers -> Locations]
    /\ job \in [Workers -> Keys \cup {NoAlert}]
    /\ attempts \in [Processes -> [Keys -> Nat]]
    /\ stopping \subseteq Processes
    /\ pushed \in [Keys -> Nat]
    /\ delivered \in [Keys -> Nat]
    /\ tries \in [Keys -> Nat]
    /\ lost \subseteq Keys
    /\ unguarded \subseteq Keys
    /\ faults \in Nat

Init ==
    /\ queue = <<>>
    /\ claimed = {}
    /\ pc = [w \in Workers |-> Idle]
    /\ job = [w \in Workers |-> NoAlert]
    /\ attempts = [p \in Processes |-> [k \in Keys |-> 0]]
    /\ stopping = {}
    /\ pushed = [k \in Keys |-> 0]
    /\ delivered = [k \in Keys |-> 0]
    /\ tries = [k \in Keys |-> 0]
    /\ lost = {}
    /\ unguarded = {}
    /\ faults = 0

Stopping(w) == ProcessOf[w] \in stopping
Goto(w, location) == /\ pc' = [pc EXCEPT ![w] = location]
                     /\ UNCHANGED job
Done(w) == /\ pc' = [pc EXCEPT ![w] = Idle]
           /\ job' = [job EXCEPT ![w] = NoAlert]
Lose(k) == lost' = lost \cup {k}
Fault == /\ faults < MaxFaults
         /\ faults' = faults + 1
\* Mutation: nothing is ever found claimed.
TakenNever(w) == FALSE
\* SET NX answers that the key is there.
Taken(w) == job[w] \in claimed
\* Mutation: DEL names another key.
UnclaimedOther(w) == claimed
Unclaimed(w) == claimed \ {job[w]}
\* Mutation: one attempt too many.
SpentLate(w) == attempts[ProcessOf[w]][job[w]] + 1 > MaxAttempts
Spent(w) == attempts[ProcessOf[w]][job[w]] + 1 >= MaxAttempts
Counted(w, k) == [attempts EXCEPT ![ProcessOf[w]][k] = @ + 1]
\* Mutation: forget takes one attempt off instead of removing the key.
ForgottenOne(w, k) == [attempts EXCEPT ![ProcessOf[w]][k] = @ - 1]
Forgotten(w, k) == [attempts EXCEPT ![ProcessOf[w]][k] = 0]

-----------------------------------------------------------------------------
\* The scraper's side of the list.

\* Queue.Push.  Core returns an alert once; the Redis client repeats an RPUSH
\* whose reply was lost, which leaves a second copy.
Push(k) ==
    /\ pushed[k] < MaxCopies
    /\ pushed' = [pushed EXCEPT ![k] = @ + 1]
    /\ queue' = Append(queue, k)
    /\ UNCHANGED <<claimed, pc, job, attempts, stopping, delivered, tries,
                   verdicts, faults>>

-----------------------------------------------------------------------------
\* Worker.loop and Worker.deliver.

Pop(w) ==
    /\ pc[w] = Idle
    /\ ~Stopping(w)
    /\ queue # <<>>
    /\ job' = [job EXCEPT ![w] = Head(queue)]
    /\ pc' = [pc EXCEPT ![w] = "popped"]
    /\ queue' = Tail(queue)
    /\ UNCHANGED <<claimed, attempts, stopping, messages, verdicts, faults>>

\* Mutation: an alert somebody else claimed goes back on the list.
SkipForLater(w) == Done(w) /\ queue' = Append(queue, job[w])
Skip(w) == Done(w) /\ UNCHANGED queue

\* SET NX with a TTL: the first to claim goes on to send, any other stops.
Claim(w) ==
    /\ pc[w] = "popped"
    /\ IF Taken(w) THEN Skip(w) ELSE Goto(w, "sending") /\ UNCHANGED queue
    /\ claimed' = claimed \cup {job[w]}
    /\ UNCHANGED <<attempts, stopping, messages, verdicts, faults>>

\* The message is accepted by Telegram.
SendOk(w) ==
    /\ pc[w] = "sending"
    /\ delivered' = [delivered EXCEPT ![job[w]] = @ + 1]
    /\ tries' = [tries EXCEPT ![job[w]] = @ + 1]
    /\ attempts' = Forgotten(w, job[w])
    /\ Done(w)
    /\ UNCHANGED <<queue, claimed, stopping, pushed, verdicts, faults>>

\* Throttling, a timeout, a broken connection, a bad gateway.  Of a call that
\* timed out nobody knows whether the message went through.
SendRetryable(w, arrived) ==
    /\ pc[w] = "sending"
    /\ tries' = [tries EXCEPT ![job[w]] = @ + 1]
    /\ delivered' = IF arrived THEN [delivered EXCEPT ![job[w]] = @ + 1]
                    ELSE delivered
    /\ unguarded' = IF arrived THEN unguarded \cup {job[w]} ELSE unguarded
    /\ Goto(w, "counting")
    /\ UNCHANGED <<queue, claimed, attempts, stopping, pushed, lost, faults>>

\* A blocked bot, a deleted chat, malformed HTML: the counter is left behind.
SendPermanent(w) ==
    /\ pc[w] = "sending"
    /\ tries' = [tries EXCEPT ![job[w]] = @ + 1]
    /\ Lose(job[w])
    /\ Done(w)
    /\ UNCHANGED <<queue, claimed, attempts, stopping, pushed, delivered,
                   unguarded, faults>>

\* Worker.requeue: the last attempt gives up and keeps the claim.
CountAttempt(w) ==
    /\ pc[w] = "counting"
    /\ IF Spent(w)
       THEN attempts' = Forgotten(w, job[w]) /\ Lose(job[w]) /\ Done(w)
       ELSE attempts' = Counted(w, job[w]) /\ UNCHANGED lost /\ Goto(w, "releasing")
    /\ UNCHANGED <<queue, claimed, stopping, messages, unguarded, faults>>

Release(w) ==
    /\ pc[w] = "releasing"
    /\ claimed' = Unclaimed(w)
    /\ Goto(w, "sleeping")
    /\ UNCHANGED <<queue, attempts, stopping, messages, verdicts, faults>>

\* The delay is slept through by the worker itself, before the push.
Requeue(w) ==
    /\ pc[w] = "sleeping"
    /\ queue' = Append(queue, job[w])
    /\ Done(w)
    /\ UNCHANGED <<claimed, attempts, stopping, messages, verdicts, faults>>

\* Once the context is cancelled every call a worker makes fails: it drops the
\* alert it holds and leaves its claim as it is.
DropOnShutdown(w) ==
    /\ pc[w] # Idle
    /\ Stopping(w)
    /\ Lose(job[w])
    /\ Done(w)
    /\ UNCHANGED <<queue, claimed, attempts, stopping, messages, unguarded,
                   faults>>

-----------------------------------------------------------------------------
\* What goes wrong.

\* BLPOP took the head, the reply never arrived.
PopReplyLost ==
    /\ Fault
    /\ queue # <<>>
    /\ Lose(Head(queue))
    /\ queue' = Tail(queue)
    /\ UNCHANGED <<claimed, pc, job, attempts, stopping, messages, unguarded>>

\* Claim reports an error, whether or not the key was set: sent anyway.
ClaimError(w) ==
    /\ Fault
    /\ pc[w] = "popped"
    /\ claimed' \in {claimed, claimed \cup {job[w]}}
    /\ unguarded' = unguarded \cup {job[w]}
    /\ Goto(w, "sending")
    /\ UNCHANGED <<queue, attempts, stopping, messages, lost>>

\* The key was set, the reply was lost, and the client's own retry finds it set:
\* the worker takes its own claim for somebody else's.
ClaimRepeated(w) ==
    /\ Fault
    /\ pc[w] = "popped"
    /\ claimed' = claimed \cup {job[w]}
    /\ Lose(job[w])
    /\ Done(w)
    /\ UNCHANGED <<queue, attempts, stopping, messages, unguarded>>

ReleaseError(w) ==
    /\ Fault
    /\ pc[w] = "releasing"
    /\ claimed' \in {claimed, claimed \ {job[w]}}
    /\ Lose(job[w])
    /\ Done(w)
    /\ UNCHANGED <<queue, attempts, stopping, messages, unguarded>>

RequeueError(w) ==
    /\ Fault
    /\ pc[w] = "sleeping"
    /\ Lose(job[w])
    /\ Done(w)
    /\ UNCHANGED <<queue, claimed, attempts, stopping, messages, unguarded>>

\* The TTL of a claim runs out while copies of the alert are still around.
LapseClaim(k) ==
    /\ Fault
    /\ k \in claimed
    /\ claimed' = claimed \ {k}
    /\ unguarded' = unguarded \cup {k}
    /\ UNCHANGED <<queue, pc, job, attempts, stopping, messages, lost>>

Shutdown(p) ==
    /\ Fault
    /\ p \notin stopping
    /\ stopping' = stopping \cup {p}
    /\ UNCHANGED <<queue, claimed, pc, job, attempts, messages, verdicts>>

\* Run returns when every loop has, and the next process starts with no counts.
Restart(p) ==
    /\ p \in stopping
    /\ \A w \in Workers : ProcessOf[w] = p => pc[w] = Idle
    /\ stopping' = stopping \ {p}
    /\ attempts' = [attempts EXCEPT ![p] = [k \in Keys |-> 0]]
    /\ UNCHANGED <<queue, claimed, pc, job, messages, verdicts, faults>>

\* Killed and restarted: what the workers held is gone.
Crash(p) ==
    LET victims == {w \in Workers : ProcessOf[w] = p}
    IN  /\ Fault
        /\ lost' = lost \cup {job[w] : w \in {v \in victims : pc[v] # Idle}}
        /\ pc' = [w \in Workers |-> IF w \in victims THEN Idle ELSE pc[w]]
        /\ job' = [w \in Workers |-> IF w \in victims THEN NoAlert ELSE job[w]]
        /\ attempts' = [attempts EXCEPT ![p] = [k \in Keys |-> 0]]
        /\ stopping' = stopping \ {p}
        /\ UNCHANGED <<queue, claimed, messages, unguarded>>

-----------------------------------------------------------------------------

Step(w) ==
    \/ Pop(w) \/ Claim(w)
    \/ SendOk(w) \/ SendPermanent(w)
    \/ \E arrived \in BOOLEAN : SendRetryable(w, arrived)
    \/ CountAttempt(w) \/ Release(w) \/ Requeue(w)
    \/ DropOnShutdown(w)

Trouble ==
    \/ PopReplyLost
    \/ \E w \in Workers : \/ ClaimError(w) \/ ClaimRepeated(w)
                          \/ ReleaseError(w) \/ RequeueError(w)
    \/ \E k \in Keys : LapseClaim(k)
    \/ \E p \in Processes : Shutdown(p) \/ Crash(p)

Next ==
    \/ \E k \in Keys : Push(k)
    \/ \E w \in Workers : Step(w)
    \/ \E p \in Processes : Restart(p)
    \/ Trouble

\* A running goroutine keeps running and every call it makes returns, in success
\* or by its timeout; a cancelled process exits and is started again.  Nothing
\* obliges the scraper to push or a fault to happen.
Fairness == /\ \A w \in Workers : WF_vars(Step(w))
            /\ \A p \in Processes : WF_vars(Restart(p))

Spec == Init /\ [][Next]_vars
FairSpec == Spec /\ Fairness

-----------------------------------------------------------------------------
\* Properties

InFlight(k) == \/ \E n \in DOMAIN queue : queue[n] = k
               \/ \E w \in Workers : job[w] = k

\* Past the claim and before giving it back.
Holds(w, k) == /\ job[w] = k
               /\ pc[w] \in {"sending", "counting", "releasing"}

\* Unless Redis failed the claim, a claim lapsed or Telegram accepted a message
\* without saying so, the user sees an alert at most once, however many copies of
\* it, processes, retries and crashes there are.
DeliveredOnce == \A k \in Keys \ unguarded : delivered[k] <= 1

\* Skipping an alert somebody else claimed is safe: a claim stands for a worker
\* that still holds the alert, for a message delivered, or for a loss.
ClaimStandsForSomething ==
    \A k \in claimed : \/ \E w \in Workers : Holds(w, k)
                       \/ delivered[k] > 0
                       \/ k \in lost

\* No alert vanishes without one of the recorded causes.
NothingVanishes ==
    \A k \in Keys : pushed[k] > 0 => delivered[k] > 0 \/ k \in lost \/ InFlight(k)

\* The attempt cap bounds the messages tried about an alert: a counter starts
\* over only in another process, after a crash, or after a fault let a second
\* copy past the claim.
AttemptsCapped ==
    LET cap == (MaxAttempts - 1) * Cardinality(Processes) + 1
    IN  \A k \in Keys : tries[k] <= cap * (faults + 1)

\* No alert circulates for ever: once pushed it is delivered or lost for good, and
\* the list drains.
Drained == <>[](queue = <<>> /\ \A w \in Workers : pc[w] = Idle)
=============================================================================
