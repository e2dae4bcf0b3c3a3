------------------------------ MODULE ScrapePool ------------------------------
(***************************************************************************)
(* The scrape loop (internal/scraper/pool.go) of several scraper processes *)
(* over the scheduling columns of core (claimDueSQL, RecordSnapshot and    *)
(* RecordFailure), and the alerts core decides on the way to the queue.    *)
(*                                                                         *)
(* Here core is what module Pricing says of one row: a claim leases due    *)
(* rows, a report of either kind ends the lease and reschedules the row,   *)
(* and may decide alerts that it returns once.  Which alerts is abstracted *)
(* to how many.  Time appears as its effects: a row comes due, a lease     *)
(* runs out.                                                               *)
(***************************************************************************)
EXTENDS Naturals, Sequences, SequencesExt

CONSTANTS
    Items,
    Silent,      \* sold-out items without a price on the page or a history:
                 \* core refuses what is observed of them
    Processes,   \* scraper processes
    Workers,     \* worker goroutines of all processes
    ProcessOf,   \* the process a worker belongs to
    NoItem,      \* what a worker holds between two items
    BatchSize,   \* items of one claim
    MaxReports,  \* bound: reports of an item that decide alerts
    MaxFaults    \* bound: lost calls, stopped processes, leases that run out early

ASSUME ProcessAssumption == ProcessOf \in [Workers -> Processes]
ASSUME ItemsAssumption == Silent \subseteq Items /\ NoItem \notin Items
ASSUME BoundsAssumption == BatchSize \in Nat \ {0} /\ MaxFaults \in Nat

VARIABLES
    due,      \* rows whose next_check_at has passed, oldest first
    leased,   \* rows whose claimed_until is in the future
    deleted,  \* rows that are gone
    batch,    \* per process: claimed items not yet handed to a worker
    job,      \* per worker: the item being processed
    hand,     \* per worker: decided alerts yet to be pushed
    pc,       \* where each worker is
    queued,   \* the list queue:alerts, as it was filled
    reports,  \* per item: reports that decided alerts
    \* History
    decided,  \* alerts stored by core, each returned in one reply
    overrun,  \* items whose lease ran out, or was ended, under a holder
    faults

vars == <<due, leased, deleted, batch, job, hand, pc, queued, reports,
          decided, overrun, faults>>
rows == <<due, leased, deleted>>
alerts == <<queued, reports, decided>>

\* An alert is known by its item, the report that decided it and its place there.
Alert == [item : Items, report : Nat, nth : Nat]

\* A leased row is a due one: claims leave next_check_at alone.
TypeOK ==
    /\ IsInjective(due) /\ ToSet(due) \subseteq Items
    /\ leased \subseteq ToSet(due)
    /\ deleted \subseteq Items
    /\ batch \in [Processes -> Seq(Items)]
    /\ job \in [Workers -> Items \cup {NoItem}]
    /\ hand \in [Workers -> Seq(Alert)]
    /\ pc \in [Workers -> {"idle", "observing", "raising"}]
    /\ queued \in Seq(Alert)
    /\ reports \in [Items -> Nat]
    /\ decided \subseteq Alert
    /\ overrun \subseteq Items
    /\ faults \in Nat

Init ==
    /\ due = <<>>
    /\ leased = {}
    /\ deleted = {}
    /\ batch = [p \in Processes |-> <<>>]
    /\ job = [w \in Workers |-> NoItem]
    /\ hand = [w \in Workers |-> <<>>]
    /\ pc = [w \in Workers |-> "idle"]
    /\ queued = <<>>
    /\ reports = [i \in Items |-> 0]
    /\ decided = {}
    /\ overrun = {}
    /\ faults = 0

WorkersOf(p) == {w \in Workers : ProcessOf[w] = p}
\* Claimed by a process that has not finished with the page.
Holders(i) == {w \in Workers : pc[w] = "observing" /\ job[w] = i}
Waiting(i) == {p \in Processes : i \in ToSet(batch[p])}
Held(i) == Holders(i) # {} \/ Waiting(i) # {}
Fault == faults < MaxFaults /\ faults' = faults + 1
Idle(w) == /\ job' = [job EXCEPT ![w] = NoItem]
           /\ pc' = [pc EXCEPT ![w] = "idle"]

Least(a, b) == IF a <= b THEN a ELSE b
\* A row that is scheduled anew, or gone, is no longer due; the others keep their order.
DueWithout(i) == IF i \in ToSet(due)
                 THEN RemoveAt(due, CHOOSE n \in DOMAIN due : due[n] = i)
                 ELSE due
AlertsOf(i, n) == [k \in 1 .. n |-> [item |-> i, report |-> reports[i] + 1, nth |-> k]]

-----------------------------------------------------------------------------
\* What happens to a row by itself.

\* The order of coming due is the order of next_check_at.  A paused item is one
\* that does not come due.
BecomeDue(i) ==
    /\ i \notin ToSet(due) \cup deleted
    /\ due' = Append(due, i)
    /\ UNCHANGED <<leased, deleted, batch, job, hand, pc, alerts, overrun, faults>>

\* The lease of an item nobody holds any more runs out.
Lapse(i) ==
    /\ i \in leased
    /\ ~Held(i)
    /\ leased' = leased \ {i}
    /\ UNCHANGED <<due, deleted, batch, job, hand, pc, alerts, overrun, faults>>

\* The batch takes longer than the lease.
EarlyLapse(i) ==
    /\ Fault
    /\ i \in leased
    /\ Held(i)
    /\ leased' = leased \ {i}
    /\ overrun' = overrun \cup {i}
    /\ UNCHANGED <<due, deleted, batch, job, hand, pc, alerts>>

DeleteItem(i) ==
    /\ i \notin deleted
    /\ deleted' = deleted \cup {i}
    /\ due' = DueWithout(i)
    /\ leased' = leased \ {i}
    /\ UNCHANGED <<batch, job, hand, pc, alerts, overrun, faults>>

-----------------------------------------------------------------------------
\* Pool.runOnce

\* The rows that are due and not leased, oldest first, up to a number of them.
Free(n) == due[n] \notin leased
Oldest(most) == {due[n] : n \in {n \in DOMAIN due :
                    Free(n) /\ Cardinality({m \in 1 .. n - 1 : Free(m)}) < most}}

\* Mutation: one item at a time.
TakenOne == Oldest(1)
\* Mutation: leases are not looked at.
TakenLeased == {due[n] : n \in 1 .. Least(Len(due), BatchSize)}
\* ORDER BY next_check_at LIMIT BatchSize.  No row is locked between two steps,
\* so SKIP LOCKED skips none.
Taken == Oldest(BatchSize)

\* The loop claims when the batch before is done with: every worker has returned.
Ready(p) == batch[p] = <<>> /\ \A w \in WorkersOf(p) : pc[w] = "idle"

\* The join after the update returns the leased rows in any order.
Claim(p) ==
    /\ Ready(p)
    /\ Taken # {}
    /\ \E rs \in SetToSeqs(Taken) : batch' = [batch EXCEPT ![p] = rs]
    /\ leased' = leased \cup Taken
    /\ UNCHANGED <<due, deleted, job, hand, pc, alerts, overrun, faults>>

\* The rows are leased, the reply never arrives.
ClaimLost(p) ==
    /\ Fault
    /\ Ready(p)
    /\ Taken # {}
    /\ leased' = leased \cup Taken
    /\ UNCHANGED <<due, deleted, batch, job, hand, pc, alerts, overrun>>

\* The channel is not buffered: an item leaves the batch when a worker takes it.
Feed(w) ==
    LET p == ProcessOf[w]
    IN  /\ pc[w] = "idle"
        /\ batch[p] # <<>>
        /\ job' = [job EXCEPT ![w] = Head(batch[p])]
        /\ pc' = [pc EXCEPT ![w] = "observing"]
        /\ batch' = [batch EXCEPT ![p] = Tail(@)]
        /\ UNCHANGED <<rows, hand, alerts, overrun, faults>>

-----------------------------------------------------------------------------
\* Pool.process, Pool.recordFailure and Pool.raise

\* Mutation: the report leaves the lease in place.
LeasesKept(i) == leased
LeasesWithout(i) == leased \ {i}

\* Core commits a snapshot or a failure of the worker's item and decides n alerts.
Recorded(w, n) ==
    LET i == job[w]
    IN  /\ pc[w] = "observing"
        /\ i \notin deleted
        /\ n > 0 => reports[i] < MaxReports
        /\ reports' = IF n > 0 THEN [reports EXCEPT ![i] = @ + 1] ELSE reports
        /\ decided' = decided \cup ToSet(AlertsOf(i, n))
        /\ due' = DueWithout(i)
        /\ leased' = LeasesWithout(i)
        /\ UNCHANGED <<deleted, batch, queued, overrun>>

Report(w, n) ==
    /\ Recorded(w, n)
    /\ hand' = [hand EXCEPT ![w] = AlertsOf(job[w], n)]
    /\ IF n = 0 THEN Idle(w)
       ELSE pc' = [pc EXCEPT ![w] = "raising"] /\ UNCHANGED job
    /\ UNCHANGED faults

\* Core committed, the reply is lost: the alerts count as reported.
ReplyLost(w, n) ==
    /\ Fault
    /\ Recorded(w, n)
    /\ Idle(w)
    /\ UNCHANGED hand

\* The row is gone, or core has no price to carry forward: the call is refused.
Refused(w) ==
    /\ pc[w] = "observing"
    /\ job[w] \in Silent \cup deleted
    /\ Idle(w)
    /\ UNCHANGED <<rows, batch, hand, alerts, overrun, faults>>

\* Core cannot be reached.
ReportLost(w) ==
    /\ Fault
    /\ pc[w] = "observing"
    /\ Idle(w)
    /\ UNCHANGED <<rows, batch, hand, alerts, overrun>>

\* Mutation: the loop returns after its first alert.
RestNone(w) == <<>>
Rest(w) == Tail(hand[w])

Push(w) ==
    /\ pc[w] = "raising"
    /\ queued' = Append(queued, Head(hand[w]))
    /\ hand' = [hand EXCEPT ![w] = Rest(w)]
    /\ IF Rest(w) = <<>> THEN Idle(w) ELSE UNCHANGED <<job, pc>>
    /\ UNCHANGED <<rows, batch, reports, decided, overrun, faults>>

\* Mutation: the loop goes on with the next alert.
RestAfterError(w) == Tail(hand[w])
Abandoned(w) == <<>>

\* Push reports an error, whether or not the alert is on the list: the rest of the
\* report is abandoned.
PushFails(w) ==
    /\ Fault
    /\ pc[w] = "raising"
    /\ queued' \in {queued, Append(queued, Head(hand[w]))}
    /\ hand' = [hand EXCEPT ![w] = Abandoned(w)]
    /\ IF Abandoned(w) = <<>> THEN Idle(w) ELSE UNCHANGED <<job, pc>>
    /\ UNCHANGED <<rows, batch, reports, decided, overrun>>

\* Shut down or killed, and started again: every call fails from then on, nothing
\* is reported, the leases stay.
Stop(p) ==
    /\ Fault
    /\ batch' = [batch EXCEPT ![p] = <<>>]
    /\ job' = [w \in Workers |-> IF ProcessOf[w] = p THEN NoItem ELSE job[w]]
    /\ hand' = [w \in Workers |-> IF ProcessOf[w] = p THEN <<>> ELSE hand[w]]
    /\ pc' = [w \in Workers |-> IF ProcessOf[w] = p THEN "idle" ELSE pc[w]]
    /\ UNCHANGED <<rows, alerts, overrun>>

-----------------------------------------------------------------------------

Step(w) == \/ Feed(w)
           \/ \E n \in 0 .. 2 : Report(w, n)
           \/ Refused(w)
           \/ Push(w)

Trouble ==
    \/ \E i \in Items : EarlyLapse(i)
    \/ \E p \in Processes : ClaimLost(p) \/ Stop(p)
    \/ \E w \in Workers : \/ \E n \in 0 .. 2 : ReplyLost(w, n)
                          \/ ReportLost(w) \/ PushFails(w)

Next ==
    \/ \E i \in Items : BecomeDue(i) \/ Lapse(i) \/ DeleteItem(i)
    \/ \E p \in Processes : Claim(p)
    \/ \E w \in Workers : Step(w)
    \/ Trouble

\* Time passes, the loop of a process runs, and every call a worker makes returns,
\* by its timeout at the latest.
Fairness == /\ \A i \in Items : WF_vars(BecomeDue(i)) /\ WF_vars(Lapse(i))
            /\ \A p \in Processes : WF_vars(Claim(p))
            /\ \A w \in Workers : WF_vars(Step(w))

Spec == Init /\ [][Next]_vars
FairSpec == Spec /\ Fairness

-----------------------------------------------------------------------------
\* Properties

\* While no batch outlives its lease, an item is in one pair of hands only, and
\* those hands have its lease: a late or repeated call of another process, a
\* stopped process and a lost reply never take it from them.
OneHolder ==
    \A i \in Items \ (overrun \cup deleted) : Held(i) =>
        /\ i \in leased
        /\ Cardinality(Holders(i)) + Cardinality(Waiting(i)) = 1

\* The alerts of a report reach the list in the order in which they were decided,
\* up to the first that fails: the user never gets a later one without the earlier.
QueuedInOrder ==
    \A n \in DOMAIN queued : \A k \in 1 .. queued[n].nth - 1 :
        \E m \in 1 .. n - 1 : queued[m] = [queued[n] EXCEPT !.nth = k]

\* Core decides an alert once and forgets it, and yet without a fault none is
\* missing: it is on the list or in the hands of the worker that got the reply.
NothingMissing ==
    faults = 0 => \A a \in decided : \/ a \in ToSet(queued)
                                     \/ \E w \in Workers : a \in ToSet(hand[w])

\* Whatever stops, lapses or is refused, every item is read again and again.
Attempted == \A i \in Items : []<>(i \in deleted \/ \E w \in Workers : job[w] = i)
=============================================================================
