---------------------------- MODULE NotifierProofs ----------------------------
(***************************************************************************)
(* Delivery at most once, and nothing lost without a cause, for any number *)
(* of alerts, copies, processes, workers, attempts and faults.             *)
(***************************************************************************)
EXTENDS Notifier, FiniteSetTheorems, SequenceTheorems, TLAPS

\* A worker has an alert in its hands exactly between two rounds of its loop.
Hands == \A w \in Workers : pc[w] = Idle <=> job[w] = NoAlert
TypeInv == TypeOK /\ Hands

\* What the claim of an alert guards: one holder at most, and nobody after a delivery.
Guarded(k) ==
    /\ delivered[k] <= 1
    /\ delivered[k] > 0 => k \in claimed /\ \A w \in Workers : ~ Holds(w, k)
    /\ \A w \in Workers : Holds(w, k) => k \in claimed
    /\ \A v, w \in Workers : Holds(v, k) /\ Holds(w, k) => v = w
GuardInv == \A k \in Keys \ unguarded : Guarded(k)

-----------------------------------------------------------------------------
\* The list.

LEMMA Appended ==
    ASSUME queue \in Seq(Keys), NEW k \in Keys, queue' = Append(queue, k)
    PROVE  /\ queue' \in Seq(Keys)
           /\ \E n \in DOMAIN queue' : queue'[n] = k
           /\ \A n \in DOMAIN queue : n \in DOMAIN queue' /\ queue'[n] = queue[n]
<1>1. /\ queue' \in Seq(Keys)
      /\ Len(queue') = Len(queue) + 1
      /\ \A n \in 1 .. Len(queue) : queue'[n] = queue[n]
      /\ queue'[Len(queue) + 1] = k
  BY AppendProperties
<1>2. Len(queue) \in Nat /\ DOMAIN queue = 1 .. Len(queue)
  OBVIOUS
<1>3. DOMAIN queue' = 1 .. Len(queue')
  BY <1>1
<1> QED
  BY <1>1, <1>2, <1>3

LEMMA Shortened ==
    ASSUME queue \in Seq(Keys), queue # <<>>, queue' = Tail(queue)
    PROVE  /\ Head(queue) \in Keys
           /\ queue' \in Seq(Keys)
           /\ \A n \in DOMAIN queue :
                queue[n] = Head(queue) \/ \E m \in DOMAIN queue' : queue'[m] = queue[n]
<1>1. /\ Head(queue) \in Keys
      /\ queue' \in Seq(Keys)
      /\ Len(queue') = Len(queue) - 1
      /\ \A i \in 1 .. Len(queue') : queue'[i] = queue[i + 1]
  BY HeadTailProperties
<1>2. Len(queue) \in Nat /\ DOMAIN queue = 1 .. Len(queue) /\ Head(queue) = queue[1]
  OBVIOUS
<1>3. DOMAIN queue' = 1 .. Len(queue')
  BY <1>1
<1>4. ASSUME NEW n \in DOMAIN queue, n # 1
      PROVE  \E m \in DOMAIN queue' : queue'[m] = queue[n]
  <2>1. n - 1 \in 1 .. Len(queue') /\ (n - 1) + 1 = n
    BY <1>1, <1>2, <1>4
  <2> QED
    BY <1>1, <1>3, <2>1
<1> QED
  BY <1>1, <1>2, <1>4

-----------------------------------------------------------------------------
\* Types.

LEMMA InHand ==
    ASSUME TypeInv, NEW w \in Workers, pc[w] # Idle
    PROVE  job[w] \in Keys
BY DEF TypeInv, TypeOK, Hands

LEMMA CounterTypes ==
    ASSUME TypeInv, NEW w \in Workers, NEW k \in Keys
    PROVE  /\ Forgotten(w, k) \in [Processes -> [Keys -> Nat]]
           /\ Counted(w, k) \in [Processes -> [Keys -> Nat]]
<1>1. attempts \in [Processes -> [Keys -> Nat]] /\ ProcessOf[w] \in Processes
  BY ProcessAssumption DEF TypeInv, TypeOK
<1>2. attempts[ProcessOf[w]] \in [Keys -> Nat]
  BY <1>1
<1>3. [attempts[ProcessOf[w]] EXCEPT ![k] = 0] \in [Keys -> Nat]
  BY <1>2
<1>4. [attempts[ProcessOf[w]] EXCEPT ![k] = @ + 1] \in [Keys -> Nat]
  BY <1>2
<1> QED
  BY <1>1, <1>3, <1>4 DEF Forgotten, Counted

LEMMA HandsAfterDone ==
    ASSUME TypeInv, NEW w \in Workers, Done(w)
    PROVE  /\ pc' \in [Workers -> Locations]
           /\ job' \in [Workers -> Keys \cup {NoAlert}]
           /\ Hands'
BY DEF TypeInv, TypeOK, Hands, Done, Locations, Idle

LEMMA HandsAfterGoto ==
    ASSUME TypeInv, NEW w \in Workers, pc[w] # Idle,
           NEW l \in Locations \ {Idle}, Goto(w, l)
    PROVE  /\ pc' \in [Workers -> Locations]
           /\ job' \in [Workers -> Keys \cup {NoAlert}]
           /\ Hands'
BY DEF TypeInv, TypeOK, Hands, Goto

LEMMA StepType ==
    ASSUME TypeInv, NEW w \in Workers, Step(w)
    PROVE  TypeInv'
<1>1. CASE Pop(w)
  <2>1. Head(queue) \in Keys /\ queue' \in Seq(Keys)
    BY <1>1, Shortened DEF TypeInv, TypeOK, Pop
  <2>2. Hands'
    BY <1>1, <2>1, NoAlertAssumption DEF TypeInv, TypeOK, Hands, Pop, Idle
  <2> QED
    BY <1>1, <2>1, <2>2 DEF TypeInv, TypeOK, Pop, Locations, messages, verdicts
<1>2. CASE Claim(w)
  <2>1. pc[w] # Idle /\ job[w] \in Keys
    BY <1>2, InHand DEF Claim, Idle
  <2>2. (Done(w) \/ Goto(w, "sending")) /\ UNCHANGED queue
    BY <1>2 DEF Claim, Skip
  <2>3. "sending" \in Locations \ {Idle}
    BY DEF Locations, Idle
  <2> QED
    BY <1>2, <2>1, <2>2, <2>3, HandsAfterDone, HandsAfterGoto
    DEF TypeInv, TypeOK, Claim, messages, verdicts
<1>3. CASE SendOk(w)
  <2>1. job[w] \in Keys
    BY <1>3, InHand DEF SendOk, Idle
  <2>2. attempts' \in [Processes -> [Keys -> Nat]]
    BY <1>3, <2>1, CounterTypes DEF SendOk
  <2>3. /\ pc' \in [Workers -> Locations] /\ job' \in [Workers -> Keys \cup {NoAlert}]
        /\ Hands'
    BY <1>3, HandsAfterDone DEF SendOk
  <2>4. delivered' \in [Keys -> Nat] /\ tries' \in [Keys -> Nat]
    BY <1>3, <2>1 DEF TypeInv, TypeOK, SendOk
  <2> QED
    BY <1>3, <2>2, <2>3, <2>4 DEF TypeInv, TypeOK, SendOk, verdicts
<1>4. CASE SendPermanent(w)
  <2>1. job[w] \in Keys
    BY <1>4, InHand DEF SendPermanent, Idle
  <2> QED
    BY <1>4, <2>1, HandsAfterDone DEF TypeInv, TypeOK, SendPermanent, Lose
<1>5. ASSUME NEW arrived \in BOOLEAN, SendRetryable(w, arrived)
      PROVE  TypeInv'
  <2>1. pc[w] # Idle /\ job[w] \in Keys
    BY <1>5, InHand DEF SendRetryable, Idle
  <2>2. "counting" \in Locations \ {Idle}
    BY DEF Locations, Idle
  <2>3. /\ pc' \in [Workers -> Locations] /\ job' \in [Workers -> Keys \cup {NoAlert}]
        /\ Hands'
    BY <1>5, <2>1, <2>2, HandsAfterGoto DEF SendRetryable
  <2>4. /\ delivered' \in [Keys -> Nat] /\ tries' \in [Keys -> Nat]
        /\ unguarded' \subseteq Keys
    BY <1>5, <2>1 DEF TypeInv, TypeOK, SendRetryable
  <2> QED
    BY <1>5, <2>3, <2>4 DEF TypeInv, TypeOK, SendRetryable
<1>6. CASE CountAttempt(w)
  <2>1. pc[w] # Idle /\ job[w] \in Keys
    BY <1>6, InHand DEF CountAttempt, Idle
  <2>2. "releasing" \in Locations \ {Idle}
    BY DEF Locations, Idle
  <2>3. attempts' \in [Processes -> [Keys -> Nat]]
    BY <1>6, <2>1, CounterTypes DEF CountAttempt
  <2>4. lost' \subseteq Keys
    BY <1>6, <2>1 DEF TypeInv, TypeOK, CountAttempt, Lose
  <2>5. Done(w) \/ Goto(w, "releasing")
    BY <1>6 DEF CountAttempt
  <2> QED
    BY <1>6, <2>1, <2>2, <2>3, <2>4, <2>5, HandsAfterDone, HandsAfterGoto
    DEF TypeInv, TypeOK, CountAttempt, messages
<1>7. CASE Release(w)
  <2>1. pc[w] # Idle
    BY <1>7 DEF Release, Idle
  <2>2. "sleeping" \in Locations \ {Idle}
    BY DEF Locations, Idle
  <2> QED
    BY <1>7, <2>1, <2>2, HandsAfterGoto
    DEF TypeInv, TypeOK, Release, Unclaimed, messages, verdicts
<1>8. CASE Requeue(w)
  <2>1. job[w] \in Keys
    BY <1>8, InHand DEF Requeue, Idle
  <2>2. queue' \in Seq(Keys)
    BY <1>8, <2>1, Appended DEF TypeInv, TypeOK, Requeue
  <2> QED
    BY <1>8, <2>2, HandsAfterDone DEF TypeInv, TypeOK, Requeue, messages, verdicts
<1>9. CASE DropOnShutdown(w)
  <2>1. job[w] \in Keys
    BY <1>9, InHand DEF DropOnShutdown
  <2> QED
    BY <1>9, <2>1, HandsAfterDone DEF TypeInv, TypeOK, DropOnShutdown, Lose, messages
<1> QED
  BY <1>1, <1>2, <1>3, <1>4, <1>5, <1>6, <1>7, <1>8, <1>9 DEF Step

LEMMA TroubleType ==
    ASSUME TypeInv, Trouble
    PROVE  TypeInv'
<1>1. CASE PopReplyLost
  BY <1>1, Shortened DEF TypeInv, TypeOK, Hands, PopReplyLost, Fault, Lose, messages
<1>2. ASSUME NEW w \in Workers, ClaimError(w)
      PROVE  TypeInv'
  <2>1. pc[w] # Idle /\ job[w] \in Keys
    BY <1>2, InHand DEF ClaimError, Idle
  <2>2. "sending" \in Locations \ {Idle}
    BY DEF Locations, Idle
  <2> QED
    BY <1>2, <2>1, <2>2, HandsAfterGoto DEF TypeInv, TypeOK, ClaimError, Fault, messages
<1>3. ASSUME NEW w \in Workers, ClaimRepeated(w) \/ ReleaseError(w) \/ RequeueError(w)
      PROVE  TypeInv'
  <2>1. job[w] \in Keys
    BY <1>3, InHand DEF ClaimRepeated, ReleaseError, RequeueError, Idle
  <2>2. Done(w)
    BY <1>3 DEF ClaimRepeated, ReleaseError, RequeueError
  <2> QED
    BY <1>3, <2>1, <2>2, HandsAfterDone
    DEF TypeInv, TypeOK, ClaimRepeated, ReleaseError, RequeueError, Fault, Lose, messages
<1>4. ASSUME NEW k \in Keys, LapseClaim(k)
      PROVE  TypeInv'
  BY <1>4 DEF TypeInv, TypeOK, Hands, LapseClaim, Fault, messages
<1>5. ASSUME NEW p \in Processes, Shutdown(p)
      PROVE  TypeInv'
  BY <1>5 DEF TypeInv, TypeOK, Hands, Shutdown, Fault, messages, verdicts
<1>6. ASSUME NEW p \in Processes, Crash(p)
      PROVE  TypeInv'
  <2>1. \A w \in Workers : pc[w] # Idle => job[w] \in Keys
    BY InHand
  <2>2. lost' \subseteq Keys
    BY <1>6, <2>1 DEF TypeInv, TypeOK, Crash
  <2>3. attempts' \in [Processes -> [Keys -> Nat]]
    BY <1>6 DEF TypeInv, TypeOK, Crash
  <2>4. /\ pc' \in [Workers -> Locations]
        /\ job' \in [Workers -> Keys \cup {NoAlert}]
        /\ Hands'
    BY <1>6 DEF TypeInv, TypeOK, Hands, Crash, Locations, Idle
  <2> QED
    BY <1>6, <2>2, <2>3, <2>4 DEF TypeInv, TypeOK, Crash, Fault, messages
<1> QED
  BY <1>1, <1>2, <1>3, <1>4, <1>5, <1>6 DEF Trouble

LEMMA TypeStep ==
    ASSUME TypeInv, [Next]_vars
    PROVE  TypeInv'
<1>1. ASSUME NEW k \in Keys, Push(k)
      PROVE  TypeInv'
  <2>1. queue' \in Seq(Keys)
    BY <1>1, Appended DEF TypeInv, TypeOK, Push
  <2>2. pushed' \in [Keys -> Nat]
    BY <1>1 DEF TypeInv, TypeOK, Push
  <2> QED
    BY <1>1, <2>1, <2>2 DEF TypeInv, TypeOK, Hands, Push, verdicts
<1>2. ASSUME NEW p \in Processes, Restart(p)
      PROVE  TypeInv'
  BY <1>2 DEF TypeInv, TypeOK, Hands, Restart, messages, verdicts
<1>3. CASE UNCHANGED vars
  BY <1>3 DEF TypeInv, TypeOK, Hands, vars
<1> QED
  BY <1>1, <1>2, <1>3, StepType, TroubleType DEF Next

-----------------------------------------------------------------------------
\* Claims and deliveries.

\* No message more, no claim less, nobody new past the claim.
LEMMA StaysGuarded ==
    ASSUME NEW k \in Keys, Guarded(k),
           delivered'[k] = delivered[k],
           k \in claimed => k \in claimed',
           \A w \in Workers : Holds(w, k)' => Holds(w, k)
    PROVE  Guarded(k)'
BY DEF Guarded

\* The worker's alert is out of its hands, and the other workers keep theirs.
LEMMA DoneHolds ==
    ASSUME TypeInv, NEW w \in Workers, Done(w), NEW k \in Keys, NEW v \in Workers
    PROVE  Holds(v, k)' <=> v # w /\ Holds(v, k)
BY DEF TypeInv, TypeOK, Done, Holds, Idle

LEMMA GotoHolds ==
    ASSUME TypeInv, NEW w \in Workers, NEW l, Goto(w, l), NEW k \in Keys, NEW v \in Workers
    PROVE  /\ v # w => (Holds(v, k)' <=> Holds(v, k))
           /\ Holds(w, k)' <=> job[w] = k /\ l \in {"sending", "counting", "releasing"}
BY DEF TypeInv, TypeOK, Goto, Holds

LEMMA GuardOfStep ==
    ASSUME TypeInv, NEW w \in Workers, Step(w),
           NEW k \in Keys, k \notin unguarded', Guarded(k)
    PROVE  Guarded(k)'
<1>1. CASE Pop(w)
  <2>1. \A v \in Workers : Holds(v, k)' => Holds(v, k)
    BY <1>1 DEF TypeInv, TypeOK, Pop, Holds
  <2> QED
    BY <1>1, <2>1, StaysGuarded DEF Pop, messages
<1>2. CASE Claim(w)
  <2>1. claimed' = claimed \cup {job[w]} /\ delivered' = delivered
    BY <1>2 DEF Claim, messages
  <2>2. CASE Taken(w)
    <3>1. Done(w)
      BY <1>2, <2>2 DEF Claim, Skip
    <3> QED
      BY <2>1, <3>1, DoneHolds, StaysGuarded
  <2>3. CASE ~ Taken(w)
    <3>1. Goto(w, "sending")
      BY <1>2, <2>3 DEF Claim
    <3>2. CASE job[w] # k
      BY <2>1, <3>1, <3>2, GotoHolds, StaysGuarded
    <3>3. CASE job[w] = k
      <4>1. delivered[k] <= 0 \/ ~ (delivered[k] > 0)
        BY <2>3, <3>3 DEF Guarded, Taken
      <4>2. \A v \in Workers : ~ Holds(v, k)
        BY <2>3, <3>3 DEF Guarded, Taken
      <4>3. \A v \in Workers : Holds(v, k)' => v = w
        BY <3>1, <4>2, GotoHolds
      <4>4. ~ (delivered[k] > 0)
        BY <2>3, <3>3 DEF Guarded, Taken
      <4> QED
        BY <2>1, <3>3, <4>3, <4>4 DEF Guarded
    <3> QED
      BY <3>2, <3>3
  <2> QED
    BY <2>2, <2>3
<1>3. CASE SendOk(w)
  <2>1. Done(w) /\ claimed' = claimed
    BY <1>3 DEF SendOk
  <2>2. delivered' = [delivered EXCEPT ![job[w]] = @ + 1] /\ delivered \in [Keys -> Nat]
    BY <1>3 DEF SendOk, TypeInv, TypeOK
  <2>3. CASE job[w] # k
    BY <2>1, <2>2, <2>3, DoneHolds, StaysGuarded
  <2>4. CASE job[w] = k
    <3>1. Holds(w, k)
      BY <1>3, <2>4 DEF SendOk, Holds
    <3>2. k \in claimed /\ delivered[k] = 0 /\ \A v \in Workers : Holds(v, k) => v = w
      BY <2>2, <3>1 DEF Guarded
    <3>3. \A v \in Workers : ~ Holds(v, k)'
      BY <2>1, <3>2, DoneHolds
    <3>4. delivered'[k] = 1
      BY <2>2, <2>4, <3>2
    <3> QED
      BY <2>1, <3>2, <3>3, <3>4 DEF Guarded
  <2> QED
    BY <2>3, <2>4
<1>4. CASE SendPermanent(w) \/ Requeue(w) \/ DropOnShutdown(w)
  <2>1. Done(w) /\ claimed' = claimed /\ delivered' = delivered
    BY <1>4 DEF SendPermanent, Requeue, DropOnShutdown, messages
  <2> QED
    BY <2>1, DoneHolds, StaysGuarded
<1>5. ASSUME NEW arrived \in BOOLEAN, SendRetryable(w, arrived)
      PROVE  Guarded(k)'
  <2>1. Goto(w, "counting") /\ claimed' = claimed /\ pc[w] = "sending"
    BY <1>5 DEF SendRetryable
  <2>2. delivered'[k] = delivered[k]
    BY <1>5 DEF SendRetryable, TypeInv, TypeOK
  <2>3. \A v \in Workers : Holds(v, k)' => Holds(v, k)
    BY <2>1, GotoHolds DEF Holds
  <2> QED
    BY <2>1, <2>2, <2>3, StaysGuarded
<1>6. CASE CountAttempt(w)
  <2>1. claimed' = claimed /\ delivered' = delivered /\ pc[w] = "counting"
    BY <1>6 DEF CountAttempt, messages
  <2>2. Done(w) \/ Goto(w, "releasing")
    BY <1>6 DEF CountAttempt
  <2>3. \A v \in Workers : Holds(v, k)' => Holds(v, k)
    BY <2>1, <2>2, DoneHolds, GotoHolds DEF Holds
  <2> QED
    BY <2>1, <2>3, StaysGuarded
<1>7. CASE Release(w)
  <2>1. /\ Goto(w, "sleeping") /\ claimed' = claimed \ {job[w]} /\ delivered' = delivered
        /\ pc[w] = "releasing"
    BY <1>7 DEF Release, Unclaimed, messages
  <2>2. \A v \in Workers : Holds(v, k)' => v # w /\ Holds(v, k)
    BY <2>1, GotoHolds
  <2>3. CASE job[w] # k
    BY <2>1, <2>2, <2>3, StaysGuarded
  <2>4. CASE job[w] = k
    <3>1. Holds(w, k)
      BY <2>1, <2>4 DEF Holds
    <3>2. ~ (delivered[k] > 0) /\ \A v \in Workers : Holds(v, k) => v = w
      BY <3>1 DEF Guarded
    <3> QED
      BY <2>1, <2>2, <3>2 DEF Guarded
  <2> QED
    BY <2>3, <2>4
<1> QED
  BY <1>1, <1>2, <1>3, <1>4, <1>5, <1>6, <1>7 DEF Step

LEMMA GuardOfTrouble ==
    ASSUME TypeInv, Trouble, NEW k \in Keys, k \notin unguarded', Guarded(k)
    PROVE  Guarded(k)'
<1>1. CASE PopReplyLost
  BY <1>1, StaysGuarded DEF PopReplyLost, Holds, messages
<1>2. ASSUME NEW w \in Workers, ClaimError(w)
      PROVE  Guarded(k)'
  <2>1. job[w] # k /\ Goto(w, "sending") /\ delivered' = delivered
    BY <1>2 DEF ClaimError, messages
  <2>2. k \in claimed => k \in claimed'
    BY <1>2 DEF ClaimError
  <2> QED
    BY <2>1, <2>2, GotoHolds, StaysGuarded
<1>3. ASSUME NEW w \in Workers, ClaimRepeated(w) \/ RequeueError(w)
      PROVE  Guarded(k)'
  <2>1. Done(w) /\ delivered' = delivered /\ (k \in claimed => k \in claimed')
    BY <1>3 DEF ClaimRepeated, RequeueError, messages
  <2> QED
    BY <2>1, DoneHolds, StaysGuarded
<1>4. ASSUME NEW w \in Workers, ReleaseError(w)
      PROVE  Guarded(k)'
  <2>1. /\ Done(w) /\ delivered' = delivered /\ pc[w] = "releasing"
        /\ claimed' \in {claimed, claimed \ {job[w]}}
    BY <1>4 DEF ReleaseError, messages
  <2>2. \A v \in Workers : Holds(v, k)' => v # w /\ Holds(v, k)
    BY <2>1, DoneHolds
  <2>3. CASE job[w] # k
    BY <2>1, <2>2, <2>3, StaysGuarded
  <2>4. CASE job[w] = k
    <3>1. Holds(w, k)
      BY <2>1, <2>4 DEF Holds
    <3>2. ~ (delivered[k] > 0) /\ \A v \in Workers : Holds(v, k) => v = w
      BY <3>1 DEF Guarded
    <3> QED
      BY <2>1, <2>2, <3>2 DEF Guarded
  <2> QED
    BY <2>3, <2>4
<1>5. ASSUME NEW c \in Keys, LapseClaim(c)
      PROVE  Guarded(k)'
  BY <1>5, StaysGuarded DEF LapseClaim, Holds, messages
<1>6. ASSUME NEW p \in Processes, Shutdown(p)
      PROVE  Guarded(k)'
  BY <1>6, StaysGuarded DEF Shutdown, Holds, messages
<1>7. ASSUME NEW p \in Processes, Crash(p)
      PROVE  Guarded(k)'
  <2>1. \A v \in Workers : Holds(v, k)' => Holds(v, k)
    BY <1>7 DEF TypeInv, TypeOK, Crash, Holds, Idle
  <2> QED
    BY <1>7, <2>1, StaysGuarded DEF Crash, messages
<1> QED
  BY <1>1, <1>2, <1>3, <1>4, <1>5, <1>6, <1>7 DEF Trouble

\* Once a claim has failed to guard an alert, that stays on record.
LEMMA UnguardedGrows ==
    ASSUME [Next]_vars
    PROVE  unguarded \subseteq unguarded'
<1>1. ASSUME NEW w \in Workers, Step(w)
      PROVE  unguarded \subseteq unguarded'
  BY <1>1 DEF Step, Pop, Claim, SendOk, SendPermanent, SendRetryable, CountAttempt,
              Release, Requeue, DropOnShutdown, verdicts
<1>2. CASE Trouble
  BY <1>2 DEF Trouble, PopReplyLost, ClaimError, ClaimRepeated, ReleaseError,
              RequeueError, LapseClaim, Shutdown, Crash, verdicts
<1>3. ASSUME NEW k \in Keys, Push(k)
      PROVE  unguarded \subseteq unguarded'
  BY <1>3 DEF Push, verdicts
<1>4. ASSUME NEW p \in Processes, Restart(p)
      PROVE  unguarded \subseteq unguarded'
  BY <1>4 DEF Restart, verdicts
<1> QED
  BY <1>1, <1>2, <1>3, <1>4 DEF Next, vars

LEMMA GuardStep ==
    ASSUME TypeInv, GuardInv, [Next]_vars
    PROVE  GuardInv'
<1> SUFFICES ASSUME NEW k \in Keys, k \notin unguarded'
             PROVE  Guarded(k)'
  BY DEF GuardInv
<1>1. Guarded(k)
  BY UnguardedGrows DEF GuardInv
<1>2. ASSUME NEW c \in Keys, Push(c)
      PROVE  Guarded(k)'
  BY <1>1, <1>2, StaysGuarded DEF Push, Holds
<1>3. ASSUME NEW p \in Processes, Restart(p)
      PROVE  Guarded(k)'
  BY <1>1, <1>3, StaysGuarded DEF Restart, Holds, messages
<1>4. CASE UNCHANGED vars
  BY <1>1, <1>4, StaysGuarded DEF vars, Holds
<1> QED
  BY <1>1, <1>2, <1>3, <1>4, GuardOfStep, GuardOfTrouble DEF Next

-----------------------------------------------------------------------------

\* What a claim stands for, and where an alert has gone.

Stands(k) == (\E w \in Workers : Holds(w, k)) \/ delivered[k] > 0 \/ k \in lost
Settled(k) == delivered[k] > 0 \/ k \in lost

\* Neither a delivery nor a loss is ever undone.
LEMMA SettledStays ==
    ASSUME TypeInv, [Next]_vars, NEW k \in Keys, Settled(k)
    PROVE  Settled(k)'
<1> USE DEF TypeInv, TypeOK, Settled
<1>1. ASSUME NEW w \in Workers, SendOk(w)
      PROVE  Settled(k)'
  BY <1>1 DEF SendOk, verdicts
<1>2. ASSUME NEW w \in Workers, NEW arrived \in BOOLEAN, SendRetryable(w, arrived)
      PROVE  Settled(k)'
  BY <1>2 DEF SendRetryable
<1>3. ASSUME NEW w \in Workers,
             \/ Pop(w) \/ Claim(w) \/ SendPermanent(w) \/ CountAttempt(w) \/ Release(w)
             \/ Requeue(w) \/ DropOnShutdown(w)
      PROVE  Settled(k)'
  BY <1>3 DEF Pop, Claim, SendPermanent, CountAttempt, Release, Requeue, DropOnShutdown,
              Lose, verdicts, messages
<1>4. CASE Trouble
  BY <1>4 DEF Trouble, PopReplyLost, ClaimError, ClaimRepeated, ReleaseError,
              RequeueError, LapseClaim, Shutdown, Crash, Lose, verdicts, messages
<1>5. ASSUME NEW c \in Keys, Push(c)
      PROVE  Settled(k)'
  BY <1>5 DEF Push, verdicts
<1>6. ASSUME NEW p \in Processes, Restart(p)
      PROVE  Settled(k)'
  BY <1>6 DEF Restart, verdicts, messages
<1> QED
  BY <1>1, <1>2, <1>3, <1>4, <1>5, <1>6 DEF Next, Step, vars

\* Who lets go of an alert delivers it, loses it, or has taken the claim back.
LEMMA LettingGo ==
    ASSUME TypeInv, [Next]_vars, NEW k \in Keys, NEW v \in Workers, Holds(v, k)
    PROVE  Holds(v, k)' \/ Settled(k)' \/ k \notin claimed'
<1> DEFINE Goal == Holds(v, k)' \/ Settled(k)' \/ k \notin claimed'
<1>1. job[v] = k /\ pc[v] \in {"sending", "counting", "releasing"}
  BY DEF Holds
<1>2. ASSUME NEW w \in Workers, Done(w), job[w] = k => Settled(k)'
      PROVE  Goal
  BY <1>1, <1>2, DoneHolds
<1>3. ASSUME NEW w \in Workers, NEW l, Goto(w, l),
             w = v => l \in {"sending", "counting", "releasing"}
      PROVE  Goal
  BY <1>1, <1>3, GotoHolds
<1>4. ASSUME NEW w \in Workers, Pop(w)
      PROVE  Goal
  BY <1>1, <1>4 DEF Pop, Holds, Idle
<1>5. ASSUME NEW w \in Workers, Claim(w)
      PROVE  Goal
  <2>1. v # w
    BY <1>1, <1>5 DEF Claim
  <2>2. Done(w) \/ Goto(w, "sending")
    BY <1>5 DEF Claim, Skip
  <2> QED
    BY <2>1, <2>2, DoneHolds, GotoHolds
<1>6. ASSUME NEW w \in Workers, SendOk(w)
      PROVE  Goal
  <2>1. job[w] = k => Settled(k)'
    BY <1>6 DEF SendOk, Settled, TypeInv, TypeOK
  <2> QED
    BY <1>2, <1>6, <2>1 DEF SendOk
<1>7. ASSUME NEW w \in Workers, SendPermanent(w) \/ DropOnShutdown(w)
      PROVE  Goal
  BY <1>2, <1>7 DEF SendPermanent, DropOnShutdown, Settled, Lose
<1>8. ASSUME NEW w \in Workers, NEW arrived \in BOOLEAN, SendRetryable(w, arrived)
      PROVE  Goal
  BY <1>3, <1>8 DEF SendRetryable
<1>9. ASSUME NEW w \in Workers, CountAttempt(w)
      PROVE  Goal
  BY <1>2, <1>3, <1>9 DEF CountAttempt, Settled, Lose
<1>10. ASSUME NEW w \in Workers, Release(w)
       PROVE  Goal
  BY <1>1, <1>10, GotoHolds DEF Release, Unclaimed
<1>11. ASSUME NEW w \in Workers, Requeue(w) \/ RequeueError(w) \/ ClaimRepeated(w)
       PROVE  Goal
  <2>1. Done(w) /\ v # w
    BY <1>1, <1>11 DEF Requeue, RequeueError, ClaimRepeated
  <2> QED
    BY <2>1, DoneHolds
<1>12. ASSUME NEW w \in Workers, ClaimError(w)
       PROVE  Goal
  BY <1>3, <1>12 DEF ClaimError
<1>13. ASSUME NEW w \in Workers, ReleaseError(w)
       PROVE  Goal
  BY <1>2, <1>13 DEF ReleaseError, Settled, Lose
<1>14. ASSUME NEW p \in Processes, Crash(p)
       PROVE  Goal
  BY <1>1, <1>14 DEF Crash, Holds, Settled, Idle, TypeInv, TypeOK
<1>15. CASE UNCHANGED <<pc, job>>
  BY <1>1, <1>15 DEF Holds
<1>16. CASE Trouble
  <2>1. CASE PopReplyLost
    BY <1>15, <2>1 DEF PopReplyLost
  <2>2. CASE \E c \in Keys : LapseClaim(c)
    BY <1>15, <2>2 DEF LapseClaim
  <2>3. CASE \E p \in Processes : Shutdown(p) \/ Crash(p)
    BY <1>14, <1>15, <2>3 DEF Shutdown
  <2> QED
    BY <1>11, <1>12, <1>13, <1>16, <2>1, <2>2, <2>3 DEF Trouble
<1>17. CASE (\E c \in Keys : Push(c)) \/ (\E p \in Processes : Restart(p)) \/ UNCHANGED vars
  BY <1>15, <1>17 DEF Push, Restart, vars
<1>18. ASSUME NEW w \in Workers, Step(w)
       PROVE  Goal
  BY <1>4, <1>5, <1>6, <1>7, <1>8, <1>9, <1>10, <1>11, <1>18 DEF Step
<1> QED
  BY <1>16, <1>17, <1>18 DEF Next

\* Whose claim is new holds the alert, or has lost it.
LEMMA NewClaim ==
    ASSUME TypeInv, [Next]_vars, NEW k \in Keys, k \notin claimed, k \in claimed'
    PROVE  Stands(k)'
<1>1. ASSUME NEW w \in Workers, Claim(w)
      PROVE  Stands(k)'
  <2>1. job[w] = k /\ Goto(w, "sending")
    BY <1>1 DEF Claim, Taken
  <2> QED
    BY <2>1, GotoHolds DEF Stands
<1>2. ASSUME NEW w \in Workers, ClaimError(w)
      PROVE  Stands(k)'
  <2>1. job[w] = k /\ Goto(w, "sending")
    BY <1>2 DEF ClaimError
  <2> QED
    BY <2>1, GotoHolds DEF Stands
<1>3. ASSUME NEW w \in Workers, ClaimRepeated(w)
      PROVE  Stands(k)'
  BY <1>3 DEF ClaimRepeated, Stands, Lose
<1>4. ASSUME NEW w \in Workers,
             \/ Pop(w) \/ SendOk(w) \/ SendPermanent(w) \/ CountAttempt(w) \/ Release(w)
             \/ Requeue(w) \/ DropOnShutdown(w) \/ ReleaseError(w) \/ RequeueError(w)
             \/ \E arrived \in BOOLEAN : SendRetryable(w, arrived)
      PROVE  FALSE
  BY <1>4 DEF Pop, SendOk, SendPermanent, CountAttempt, Release, Unclaimed, Requeue,
              DropOnShutdown, ReleaseError, RequeueError, SendRetryable
<1>5. CASE \/ PopReplyLost
           \/ \E c \in Keys : LapseClaim(c) \/ Push(c)
           \/ \E p \in Processes : Shutdown(p) \/ Crash(p) \/ Restart(p)
           \/ UNCHANGED vars
  BY <1>5 DEF PopReplyLost, LapseClaim, Push, Shutdown, Crash, Restart, vars
<1> QED
  BY <1>1, <1>2, <1>3, <1>4, <1>5 DEF Next, Step, Trouble

LEMMA StandsStep ==
    ASSUME TypeInv, ClaimStandsForSomething, [Next]_vars
    PROVE  ClaimStandsForSomething'
<1>1. TypeOK'
  BY TypeStep DEF TypeInv
<1> SUFFICES ASSUME NEW k \in claimed', k \in Keys
             PROVE  Stands(k)'
  BY <1>1 DEF ClaimStandsForSomething, Stands, TypeOK
<1>2. CASE k \notin claimed
  BY <1>2, NewClaim
<1>3. CASE k \in claimed
  <2>1. Stands(k)
    BY <1>3 DEF ClaimStandsForSomething, Stands
  <2>2. CASE Settled(k)
    BY <2>2, SettledStays DEF Settled, Stands
  <2>3. ASSUME NEW v \in Workers, Holds(v, k)
        PROVE  Stands(k)'
    BY <2>3, LettingGo DEF Settled, Stands
  <2> QED
    BY <2>1, <2>2, <2>3 DEF Stands, Settled
<1> QED
  BY <1>2, <1>3

\* An alert leaves the list into the hands of a worker, or is lost with the reply.
LEMMA OffTheList ==
    ASSUME TypeInv, [Next]_vars, NEW k \in Keys, NEW n \in DOMAIN queue, queue[n] = k
    PROVE  InFlight(k)' \/ Settled(k)'
<1> USE DEF TypeInv, TypeOK
<1>1. ASSUME NEW w \in Workers, Pop(w)
      PROVE  InFlight(k)'
  <2>1. k = Head(queue) \/ \E m \in DOMAIN queue' : queue'[m] = k
    BY <1>1, Shortened DEF Pop
  <2>2. job'[w] = Head(queue)
    BY <1>1 DEF Pop
  <2> QED
    BY <2>1, <2>2 DEF InFlight
<1>2. CASE PopReplyLost
  <2>1. k = Head(queue) \/ \E m \in DOMAIN queue' : queue'[m] = k
    BY <1>2, Shortened DEF PopReplyLost
  <2>2. Head(queue) \in lost'
    BY <1>2 DEF PopReplyLost, Lose
  <2> QED
    BY <2>1, <2>2 DEF InFlight, Settled
<1>3. ASSUME NEW c \in Keys, queue' = Append(queue, c)
      PROVE  InFlight(k)'
  BY <1>3, Appended DEF InFlight
<1>4. CASE UNCHANGED queue
  BY <1>4 DEF InFlight
<1>5. ASSUME NEW w \in Workers, Requeue(w)
      PROVE  InFlight(k)'
  <2>1. job[w] \in Keys
    BY <1>5, InHand DEF Requeue, Idle
  <2> QED
    BY <1>3, <1>5, <2>1 DEF Requeue
<1>6. ASSUME NEW w \in Workers,
             \/ Claim(w) \/ SendOk(w) \/ SendPermanent(w) \/ CountAttempt(w) \/ Release(w)
             \/ DropOnShutdown(w) \/ \E arrived \in BOOLEAN : SendRetryable(w, arrived)
      PROVE  InFlight(k)' \/ Settled(k)'
  <2>1. UNCHANGED queue
    BY <1>6 DEF Claim, Skip, SendOk, SendPermanent, CountAttempt, Release,
                DropOnShutdown, SendRetryable
  <2> QED
    BY <1>4, <2>1
<1>7. ASSUME NEW w \in Workers,
             ClaimError(w) \/ ClaimRepeated(w) \/ ReleaseError(w) \/ RequeueError(w)
      PROVE  InFlight(k)' \/ Settled(k)'
  <2>1. UNCHANGED queue
    BY <1>7 DEF ClaimError, ClaimRepeated, ReleaseError, RequeueError
  <2> QED
    BY <1>4, <2>1
<1>8. CASE \/ \E c \in Keys : LapseClaim(c)
           \/ \E p \in Processes : Shutdown(p) \/ Crash(p) \/ Restart(p)
           \/ UNCHANGED vars
  BY <1>4, <1>8 DEF LapseClaim, Shutdown, Crash, Restart, vars
<1>9. CASE \E c \in Keys : Push(c)
  BY <1>3, <1>9 DEF Push
<1> QED
  BY <1>1, <1>2, <1>5, <1>6, <1>7, <1>8, <1>9 DEF Next, Step, Trouble

\* An alert leaves a worker's hands delivered, lost, back on the list, or because the
\* claim it met stands for something.
LEMMA OutOfHands ==
    ASSUME TypeInv, ClaimStandsForSomething, [Next]_vars,
           NEW k \in Keys, NEW v \in Workers, job[v] = k
    PROVE  InFlight(k)' \/ Settled(k)'
<1> USE DEF TypeInv, TypeOK
<1> DEFINE Goal == InFlight(k)' \/ Settled(k)'
<1>1. pc[v] # Idle
  BY NoAlertAssumption DEF Hands
<1>2. CASE job'[v] = k
  BY <1>2 DEF InFlight
<1>3. ASSUME NEW w \in Workers, Done(w), job[w] = k => Goal
      PROVE  Goal
  BY <1>2, <1>3 DEF Done
<1>4. ASSUME NEW w \in Workers, Pop(w)
      PROVE  Goal
  BY <1>1, <1>2, <1>4 DEF Pop
<1>5. ASSUME NEW w \in Workers, Claim(w)
      PROVE  Goal
  <2>1. CASE Goto(w, "sending")
    BY <1>2, <2>1 DEF Goto
  <2>2. CASE Done(w) /\ Taken(w) /\ job[w] = k
    <3>1. Stands(k)
      BY <2>2 DEF ClaimStandsForSomething, Stands, Taken
    <3>2. CASE Settled(k)
      BY <3>2, SettledStays
    <3>3. ASSUME NEW u \in Workers, Holds(u, k)
          PROVE  Goal
      <4>1. u # w
        BY <1>5, <3>3 DEF Claim, Holds
      <4>2. job'[u] = k
        BY <2>2, <3>3, <4>1 DEF Done, Holds
      <4> QED
        BY <4>2 DEF InFlight
    <3> QED
      BY <3>1, <3>2, <3>3 DEF Stands, Settled
  <2> QED
    BY <1>3, <1>5, <2>1, <2>2 DEF Claim, Skip
<1>6. ASSUME NEW w \in Workers, SendOk(w)
      PROVE  Goal
  <2>1. job[w] = k => Settled(k)'
    BY <1>6 DEF SendOk, Settled
  <2> QED
    BY <1>3, <1>6, <2>1 DEF SendOk
<1>7. ASSUME NEW w \in Workers,
             \/ SendPermanent(w) \/ DropOnShutdown(w)
             \/ ClaimRepeated(w) \/ ReleaseError(w) \/ RequeueError(w)
      PROVE  Goal
  BY <1>3, <1>7 DEF SendPermanent, DropOnShutdown, ClaimRepeated, ReleaseError,
                    RequeueError, Settled, Lose
<1>8. ASSUME NEW w \in Workers, CountAttempt(w)
      PROVE  Goal
  BY <1>2, <1>3, <1>8 DEF CountAttempt, Goto, Settled, Lose
<1>9. ASSUME NEW w \in Workers,
             \/ Release(w) \/ ClaimError(w)
             \/ \E arrived \in BOOLEAN : SendRetryable(w, arrived)
      PROVE  Goal
  BY <1>2, <1>9 DEF Release, ClaimError, SendRetryable, Goto
<1>10. ASSUME NEW w \in Workers, Requeue(w)
       PROVE  Goal
  <2>1. job[w] = k => InFlight(k)'
    BY <1>10, Appended DEF Requeue, InFlight
  <2> QED
    BY <1>3, <1>10, <2>1 DEF Requeue
<1>11. ASSUME NEW p \in Processes, Crash(p)
       PROVE  Goal
  BY <1>1, <1>2, <1>11 DEF Crash, Settled
<1>12. CASE \/ PopReplyLost
            \/ \E c \in Keys : LapseClaim(c) \/ Push(c)
            \/ \E p \in Processes : Shutdown(p) \/ Restart(p)
            \/ UNCHANGED vars
  BY <1>2, <1>12 DEF PopReplyLost, LapseClaim, Push, Shutdown, Restart, vars
<1> QED
  BY <1>4, <1>5, <1>6, <1>7, <1>8, <1>9, <1>10, <1>11, <1>12 DEF Next, Step, Trouble

LEMMA VanishStep ==
    ASSUME TypeInv, ClaimStandsForSomething, NothingVanishes, [Next]_vars
    PROVE  NothingVanishes'
<1> SUFFICES ASSUME NEW k \in Keys, pushed'[k] > 0
             PROVE  InFlight(k)' \/ Settled(k)'
  BY DEF NothingVanishes, Settled
<1>1. CASE pushed[k] > 0
  BY <1>1, OffTheList, OutOfHands, SettledStays DEF NothingVanishes, Settled, InFlight
<1>2. CASE ~ (pushed[k] > 0)
  <2>1. pushed'[k] # pushed[k]
    BY <1>2
  <2>2. PICK c \in Keys : Push(c)
    BY <2>1 DEF Next, Step, Trouble, vars, messages, Pop, Claim, SendOk, SendPermanent,
       SendRetryable, CountAttempt, Release, Requeue, DropOnShutdown, PopReplyLost,
       ClaimError, ClaimRepeated, ReleaseError, RequeueError, LapseClaim, Shutdown,
       Crash, Restart
  <2>3. c = k
    BY <2>1, <2>2 DEF Push, TypeInv, TypeOK
  <2> QED
    BY <2>2, <2>3, Appended DEF Push, InFlight, TypeInv, TypeOK
<1> QED
  BY <1>1, <1>2

-----------------------------------------------------------------------------
\* The cap on attempts.  A licence to send an alert is held by a worker past its
\* claim, or lies with the alert as long as nobody has claimed it.  A try spends one of
\* the attempts the processes have left, or ends the licence it was made under; more
\* licences and fresh counts come from faults only.

Retries == MaxAttempts - 1
Cap == Retries * Cardinality(Processes) + 1

Holders(k) == {w \in Workers : Holds(w, k)}
Counting(k) == {w \in Workers : job[w] = k /\ pc[w] = "counting"}
Left(k) == {x \in Processes \X (1 .. Retries) : attempts[x[1]][k] < x[2]}
Licences(k) == Cardinality(Holders(k)) + IF k \in claimed THEN 0 ELSE 1

\* How many tries may still come, when s processes are stopping (their counts will be
\* forgotten), under l licences, f attempts being left in all processes.
Room(s, l, f) == Retries * s + IF l = 0 THEN 0 ELSE f + 1 + (l - 1) * Cap

RoomFor(k) == Room(Cardinality(stopping), Licences(k), Cardinality(Left(k)))

\* A try that is not counted yet has used no attempt.
Balanced(k) == tries[k] + RoomFor(k) <= Cap * (faults + 1) + Cardinality(Counting(k))
Low(k) == \A p \in Processes : attempts[p][k] <= Retries
CapInv == \A k \in Keys : Balanced(k) /\ Low(k)

LEMMA CapFacts ==
    /\ Retries \in Nat /\ Cardinality(Processes) \in Nat
    /\ Cap \in Nat /\ Cap >= 1
    /\ Processes # {} => Cap >= Retries + 1
<1>1. Retries \in Nat /\ MaxAttempts \in Nat
  BY BoundsAssumption DEF Retries
<1>2. Cardinality(Processes) \in Nat /\ (Processes # {} => Cardinality(Processes) # 0)
  BY FiniteAssumption, FS_CardinalityType, FS_EmptySet
<1>3. Retries * Cardinality(Processes) \in Nat
  BY <1>1, <1>2
<1>4. Cardinality(Processes) >= 1 => Retries * Cardinality(Processes) >= Retries
  BY <1>1, <1>2
<1> QED
  BY <1>1, <1>2, <1>3, <1>4 DEF Cap

LEMMA RoomType ==
    ASSUME NEW s \in Nat, NEW l \in Nat, NEW f \in Nat
    PROVE  /\ Room(s, l, f) \in Nat
           /\ l >= 1 => Room(s, l, f) >= Retries * s + 1 + (l - 1) * Cap
           /\ f <= Cap - 1 => Room(s, l, f) <= Retries * s + l * Cap
           /\ Retries * s \in Nat /\ l * Cap \in Nat
           /\ (l - 1) * Cap = l * Cap - Cap
<1>1. Retries \in Nat /\ Cap \in Nat
  BY CapFacts
<1>2. Retries * s \in Nat /\ l * Cap \in Nat
  BY <1>1
<1>3. (l - 1) * Cap = l * Cap - Cap
  BY <1>1
<1>4. l # 0 => (l - 1) * Cap \in Nat
  BY <1>1
<1> QED
  BY <1>1, <1>2, <1>3, <1>4 DEF Room

\* One licence less, and the counts of one process forgotten.
LEMMA RoomOfLess ==
    ASSUME NEW s \in Nat, NEW l \in Nat, l >= 1, NEW f \in Nat, NEW g \in Nat,
           g <= f + Retries, g <= Cap - 1, Cap >= Retries + 1
    PROVE  Room(s, l - 1, g) + 1 <= Room(s, l, f)
<1>1. Retries \in Nat /\ Cap \in Nat
  BY CapFacts
<1>2. Retries * s \in Nat
  BY <1>1
<1>3. CASE l = 1
  BY <1>1, <1>2, <1>3 DEF Room
<1>4. CASE l # 1
  <2>1. (l - 1) * Cap = (l - 2) * Cap + Cap /\ (l - 2) * Cap \in Nat
    BY <1>1, <1>4
  <2>2. (l - 1) - 1 = l - 2 /\ l - 1 # 0 /\ l # 0
    BY <1>4
  <2> QED
    BY <1>1, <1>2, <2>1, <2>2 DEF Room
<1> QED
  BY <1>3, <1>4

LEMMA RoomOfFewer ==
    ASSUME NEW s \in Nat, NEW l \in Nat, NEW m \in Nat, m <= l, NEW f \in Nat, f <= Cap - 1
    PROVE  Room(s, m, f) <= Room(s, l, f)
<1>1. Retries \in Nat /\ Cap \in Nat
  BY CapFacts
<1>2. Retries * s \in Nat
  BY <1>1
<1>3. CASE m = 0
  <2>1. l # 0 => (l - 1) * Cap \in Nat
    BY <1>1
  <2> QED
    BY <1>1, <1>2, <1>3, <2>1 DEF Room
<1>4. CASE m # 0
  <2>1. (l - 1) * Cap = (m - 1) * Cap + (l - m) * Cap
    BY <1>1
  <2>2. (m - 1) * Cap \in Nat /\ (l - m) * Cap \in Nat
    BY <1>1, <1>4
  <2> QED
    BY <1>1, <1>2, <1>4, <2>1, <2>2 DEF Room
<1> QED
  BY <1>3, <1>4

LEMMA RoomOfMore ==
    ASSUME NEW s \in Nat, NEW l \in Nat, NEW m \in Nat, m <= l + 1, NEW f \in Nat, f <= Cap - 1
    PROVE  Room(s, m, f) <= Room(s, l, f) + Cap
<1>1. Retries \in Nat /\ Cap \in Nat /\ Retries * s \in Nat
  BY CapFacts
<1>2. Room(s, m, f) <= Room(s, l + 1, f)
  BY RoomOfFewer
<1>3. Room(s, l + 1, f) <= Room(s, l, f) + Cap
  <2>1. CASE l = 0
    BY <1>1, <2>1 DEF Room
  <2>2. CASE l # 0
    <3>1. ((l + 1) - 1) * Cap = (l - 1) * Cap + Cap /\ (l - 1) * Cap \in Nat
      BY <1>1, <2>2
    <3> QED
      BY <1>1, <2>2, <3>1 DEF Room
  <2> QED
    BY <2>1, <2>2
<1>4. l + 1 \in Nat
  OBVIOUS
<1>5. Room(s, l + 1, f) \in Nat
  BY <1>4, RoomType
<1>6. Room(s, m, f) \in Nat /\ Room(s, l, f) \in Nat
  BY RoomType
<1> QED
  BY <1>1, <1>2, <1>3, <1>5, <1>6

\* A crash: d licences end, and any counts may be forgotten.
LEMMA RoomOfCrash ==
    ASSUME NEW s \in Nat, NEW t \in Nat, t <= s,
           NEW l \in Nat, NEW m \in Nat, NEW d \in Nat, m + d <= l,
           NEW f \in Nat, NEW g \in Nat, g <= Cap - 1
    PROVE  Room(t, m, g) + d <= Room(s, l, f) + Cap
<1>1. Retries \in Nat /\ Cap \in Nat /\ Cap >= 1
  BY CapFacts
<1>2. Retries * s = Retries * t + Retries * (s - t) /\ Retries * (s - t) \in Nat
  BY <1>1
<1>3. Room(t, m, g) <= Retries * t + m * Cap
  BY RoomType
<1>4. l * Cap = m * Cap + (l - m) * Cap /\ (l - m) * Cap >= l - m
  BY <1>1
<1>5. l # 0 => Room(s, l, f) >= Retries * s + 1 + l * Cap - Cap
  BY RoomType
<1>6. Room(s, l, f) >= Retries * s + l * Cap - Cap
  BY <1>1, <1>2, <1>5 DEF Room
<1>7. Room(s, l, f) \in Nat /\ Room(t, m, g) \in Nat
  BY RoomType
<1>8. PICK a \in Nat, b \in Nat, c \in Nat, e \in Nat :
        a = Retries * s /\ b = Retries * t /\ c = l * Cap /\ e = m * Cap
  BY <1>1
<1>9. b <= a /\ c >= e + d
  <2>1. c >= e + (l - m)
    BY <1>1, <1>4, <1>8
  <2>2. l - m >= d
    OBVIOUS
  <2> QED
    BY <1>1, <1>2, <1>8, <2>1, <2>2
<1>10. Room(t, m, g) <= b + e /\ Room(s, l, f) >= a + c - Cap
  BY <1>3, <1>6, <1>8
<1> QED
  BY <1>1, <1>7, <1>9, <1>10

LEMMA RoomOfStop ==
    ASSUME NEW s \in Nat, NEW l \in Nat, NEW f \in Nat, NEW g \in Nat, g <= f + Retries
    PROVE  /\ Room(s + 1, l, f) = Room(s, l, f) + Retries
           /\ Room(s, l, g) <= Room(s, l, f) + Retries
<1>1. Retries \in Nat /\ Cap \in Nat
  BY CapFacts
<1>2. Retries * (s + 1) = Retries * s + Retries /\ Retries * s \in Nat
  BY <1>1
<1>3. l # 0 => (l - 1) * Cap \in Nat
  BY <1>1
<1> QED
  BY <1>1, <1>2, <1>3 DEF Room

\* The licences.

LEMMA WorkersCounted ==
    ASSUME NEW H \in SUBSET Workers, NEW C \in SUBSET H
    PROVE  /\ IsFiniteSet(H) /\ Cardinality(H) \in Nat
           /\ IsFiniteSet(C) /\ Cardinality(C) \in Nat
           /\ Cardinality(C) <= Cardinality(H)
BY FiniteAssumption, FS_Subset, FS_CardinalityType

LEMMA AttemptsOfOne ==
    IsFiniteSet(1 .. Retries) /\ Cardinality(1 .. Retries) = Retries /\ Retries \in Nat
<1>1. Retries \in Nat
  BY CapFacts
<1>2. /\ IsFiniteSet(1 .. Retries)
      /\ Cardinality(1 .. Retries) = IF 1 > Retries THEN 0 ELSE Retries - 1 + 1
  BY <1>1, FS_Interval
<1> QED
  BY <1>1, <1>2

LEMMA AttemptsBounded ==
    ASSUME NEW L \in SUBSET (Processes \X (1 .. Retries))
    PROVE  /\ IsFiniteSet(L) /\ Cardinality(L) \in Nat
           /\ Cardinality(L) <= Cap - 1
<1>1. IsFiniteSet(1 .. Retries) /\ Cardinality(1 .. Retries) = Retries
  BY AttemptsOfOne
<1>2. /\ IsFiniteSet(Processes \X (1 .. Retries))
      /\ Cardinality(Processes \X (1 .. Retries)) = Cardinality(Processes) * Retries
  BY <1>1, FiniteAssumption, FS_Product
<1>3. IsFiniteSet(L) /\ Cardinality(L) <= Cardinality(Processes) * Retries
  BY <1>2, FS_Subset
<1>4. Cardinality(Processes) * Retries = Cap - 1
  BY CapFacts DEF Cap
<1> QED
  BY <1>3, <1>4, FS_CardinalityType

LEMMA Sizes ==
    ASSUME TypeInv, NEW k \in Keys
    PROVE  /\ IsFiniteSet(Holders(k)) /\ Cardinality(Holders(k)) \in Nat
           /\ IsFiniteSet(Counting(k)) /\ Cardinality(Counting(k)) \in Nat
           /\ Cardinality(Counting(k)) <= Cardinality(Holders(k))
           /\ IsFiniteSet(Left(k)) /\ Cardinality(Left(k)) \in Nat
           /\ Cardinality(Left(k)) <= Cap - 1
           /\ IsFiniteSet(stopping) /\ Cardinality(stopping) \in Nat
           /\ Licences(k) \in Nat /\ Cardinality(Holders(k)) <= Licences(k)
           /\ RoomFor(k) \in Nat
<1>1. Holders(k) \subseteq Workers /\ Counting(k) \subseteq Holders(k)
  BY DEF Holders, Counting, Holds
<1>2. Left(k) \subseteq Processes \X (1 .. Retries)
  BY DEF Left
<1>3. IsFiniteSet(stopping) /\ Cardinality(stopping) \in Nat
  BY FiniteAssumption, FS_Subset, FS_CardinalityType DEF TypeInv, TypeOK
<1>4. Cardinality(Holders(k)) \in Nat /\ Cardinality(Left(k)) \in Nat
  BY <1>1, <1>2, WorkersCounted, AttemptsBounded
<1>5. Licences(k) \in Nat /\ Cardinality(Holders(k)) <= Licences(k)
  BY <1>4 DEF Licences
<1>6. RoomFor(k) \in Nat
  BY <1>3, <1>4, <1>5, RoomType DEF RoomFor
<1> QED
  BY <1>1, <1>2, <1>3, <1>5, <1>6, WorkersCounted, AttemptsBounded

LEMMA SizesAfter ==
    ASSUME TypeInv', NEW k \in Keys
    PROVE  /\ IsFiniteSet(Holders(k)') /\ Cardinality(Holders(k)') \in Nat
           /\ IsFiniteSet(Counting(k)') /\ Cardinality(Counting(k)') \in Nat
           /\ IsFiniteSet(Left(k)') /\ Cardinality(Left(k)') \in Nat
           /\ Cardinality(Left(k)') <= Cap - 1
           /\ IsFiniteSet(stopping') /\ Cardinality(stopping') \in Nat
           /\ Licences(k)' \in Nat
           /\ RoomFor(k)' \in Nat
<1>1. Holders(k)' \subseteq Workers /\ Counting(k)' \subseteq Holders(k)'
  BY DEF Holders, Counting, Holds
<1>2. Left(k)' \subseteq Processes \X (1 .. Retries)
  BY DEF Left
<1>3. IsFiniteSet(stopping') /\ Cardinality(stopping') \in Nat
  BY FiniteAssumption, FS_Subset, FS_CardinalityType DEF TypeInv, TypeOK
<1>4. Cardinality(Holders(k)') \in Nat /\ Cardinality(Left(k)') \in Nat
  BY <1>1, <1>2, WorkersCounted, AttemptsBounded
<1>5. Licences(k)' \in Nat
  BY <1>4 DEF Licences
<1>6. RoomFor(k)' \in Nat
  BY <1>3, <1>4, <1>5, RoomType DEF RoomFor
<1> QED
  BY <1>1, <1>2, <1>3, <1>5, <1>6, WorkersCounted, AttemptsBounded

\* The counts of one process may be forgotten: it has all its attempts again.
LEMMA LeftOfOne ==
    ASSUME TypeInv, NEW k \in Keys, NEW p \in Processes,
           \A q \in Processes \ {p} : attempts'[q][k] = attempts[q][k]
    PROVE  Cardinality(Left(k)') <= Cardinality(Left(k)) + Retries
<1> DEFINE own == {p} \X (1 .. Retries)
<1>1. IsFiniteSet(1 .. Retries) /\ Cardinality(1 .. Retries) = Retries /\ Retries \in Nat
  BY AttemptsOfOne
<1>2. IsFiniteSet({p}) /\ Cardinality({p}) = 1
  BY FS_Singleton
<1>3. IsFiniteSet(own) /\ Cardinality(own) = 1 * Retries
  <2>1. /\ IsFiniteSet(own)
        /\ Cardinality(own) = Cardinality({p}) * Cardinality(1 .. Retries)
    BY <1>1, <1>2, FS_Product
  <2> QED
    BY <1>1, <1>2, <2>1
<1>4. Left(k)' \subseteq Left(k) \cup own
  BY DEF Left
<1>5. IsFiniteSet(Left(k)) /\ Cardinality(Left(k)) \in Nat
  BY Sizes
<1> HIDE DEF own
<1>6. IsFiniteSet(Left(k) \cap own)
  BY <1>5, FS_Subset
<1>7. Cardinality(Left(k) \cap own) \in Nat
  BY <1>6, FS_CardinalityType
<1>8. /\ IsFiniteSet(Left(k) \cup own)
      /\ Cardinality(Left(k) \cup own)
          = Cardinality(Left(k)) + Cardinality(own) - Cardinality(Left(k) \cap own)
  BY <1>3, <1>5, FS_Union
<1>9. /\ IsFiniteSet(Left(k)')
      /\ Cardinality(Left(k)') <= Cardinality(Left(k) \cup own)
  BY <1>4, <1>8, FS_Subset
<1>10. Cardinality(Left(k)') \in Nat
  BY <1>9, FS_CardinalityType
<1> QED
  BY <1>1, <1>3, <1>5, <1>7, <1>8, <1>9, <1>10

\* An attempt is counted: one is left less.
LEMMA LeftAfterCount ==
    ASSUME TypeInv, NEW w \in Workers, NEW k \in Keys, attempts' = Counted(w, k),
           attempts[ProcessOf[w]][k] + 1 <= Retries
    PROVE  /\ Cardinality(Left(k)') = Cardinality(Left(k)) - 1
           /\ Cardinality(Left(k)) >= 1
<1> DEFINE p == ProcessOf[w]
           a == attempts[p][k]
           x == <<p, a + 1>>
<1>1. p \in Processes /\ a \in Nat /\ Retries \in Nat
  BY CapFacts, ProcessAssumption DEF TypeInv, TypeOK
<1>2. x \in Processes \X (1 .. Retries) /\ x[1] = p /\ x[2] = a + 1
  BY <1>1
<1>3. x \in Left(k)
  BY <1>1, <1>2 DEF Left
<1>4. /\ \A q \in Processes \ {p} : attempts'[q][k] = attempts[q][k]
      /\ attempts'[p][k] = a + 1
  BY <1>1 DEF Counted, TypeInv, TypeOK
<1>5. ASSUME NEW y \in Processes \X (1 .. Retries)
      PROVE  attempts'[y[1]][k] < y[2] <=> attempts[y[1]][k] < y[2] /\ y # x
  <2>1. y[1] \in Processes /\ y[2] \in Nat /\ y = <<y[1], y[2]>>
    BY <1>1
  <2>2. attempts[y[1]][k] \in Nat
    BY <2>1 DEF TypeInv, TypeOK
  <2>3. y # x <=> y[1] # p \/ y[2] # a + 1
    BY <1>2, <2>1
  <2> QED
    BY <1>1, <1>4, <2>1, <2>2, <2>3
<1>6. Left(k)' = Left(k) \ {x}
  BY <1>5 DEF Left
<1>7. IsFiniteSet(Left(k)) /\ Cardinality(Left(k)) \in Nat
  BY Sizes
<1>8. Cardinality(Left(k)) # 0
  BY <1>3, <1>7, FS_EmptySet
<1> HIDE DEF x
<1>9. Cardinality(Left(k) \ {x}) = Cardinality(Left(k)) - 1
  BY <1>3, <1>7, FS_RemoveElement
<1> QED
  BY <1>6, <1>7, <1>8, <1>9

\* The balance.

LEMMA Balance ==
    ASSUME TypeInv, TypeInv', NEW k \in Keys, Balanced(k),
           NEW change \in {0, 1}, faults' = faults + change,
           tries'[k] + RoomFor(k)' + Cardinality(Counting(k))
             <= tries[k] + RoomFor(k) + Cardinality(Counting(k)') + change * Cap
    PROVE  Balanced(k)'
<1>1. /\ tries[k] \in Nat /\ tries'[k] \in Nat /\ faults \in Nat
      /\ RoomFor(k) \in Nat /\ RoomFor(k)' \in Nat
      /\ Cardinality(Counting(k)) \in Nat /\ Cardinality(Counting(k)') \in Nat
      /\ Cap \in Nat
  BY Sizes, SizesAfter, CapFacts DEF TypeInv, TypeOK
<1>2. /\ Cap * (faults' + 1) = Cap * (faults + 1) + change * Cap
      /\ Cap * (faults + 1) \in Nat /\ change * Cap \in Nat
  BY <1>1
<1>3. tries[k] + RoomFor(k) <= Cap * (faults + 1) + Cardinality(Counting(k))
  BY DEF Balanced
<1>4. PICK a \in Nat, b \in Nat : a = Cap * (faults + 1) /\ b = change * Cap
  BY <1>2
<1>5. tries'[k] + RoomFor(k)' <= (a + b) + Cardinality(Counting(k)')
  BY <1>1, <1>3, <1>4
<1> QED
  BY <1>2, <1>4, <1>5 DEF Balanced

\* Licences change hands; a fault may add one.
LEMMA LicenceMoves ==
    ASSUME TypeInv, TypeInv', NEW k \in Keys, Balanced(k),
           NEW change \in {0, 1}, faults' = faults + change,
           Licences(k)' <= Licences(k) + change,
           Counting(k)' = Counting(k), Left(k)' = Left(k), stopping' = stopping,
           tries'[k] = tries[k]
    PROVE  Balanced(k)'
<1> DEFINE s == Cardinality(stopping)
           f == Cardinality(Left(k))
<1>1. /\ s \in Nat /\ f \in Nat /\ f <= Cap - 1 /\ Cap \in Nat
      /\ Licences(k) \in Nat /\ Licences(k)' \in Nat
      /\ RoomFor(k) \in Nat /\ RoomFor(k)' \in Nat /\ tries[k] \in Nat
      /\ Cardinality(Counting(k)) \in Nat
  BY Sizes, SizesAfter, CapFacts DEF TypeInv, TypeOK
<1>2. RoomFor(k) = Room(s, Licences(k), f) /\ RoomFor(k)' = Room(s, Licences(k)', f)
  BY DEF RoomFor
<1> HIDE DEF s, f
<1>3. RoomFor(k)' <= RoomFor(k) + change * Cap
  <2>1. CASE change = 0
    BY <1>1, <1>2, <2>1, RoomOfFewer
  <2>2. CASE change = 1
    BY <1>1, <1>2, <2>2, RoomOfMore
  <2> QED
    BY <2>1, <2>2
<1>4. change * Cap \in Nat
  BY <1>1
<1>5. tries'[k] + RoomFor(k)' + Cardinality(Counting(k))
        <= tries[k] + RoomFor(k) + Cardinality(Counting(k)') + change * Cap
  BY <1>1, <1>3, <1>4
<1> QED
  BY <1>5, Balance

\* What a worker lets go of, its licence ends, be it with a last try.
LEMMA LicenceEnds ==
    ASSUME TypeInv, TypeInv', NEW k \in Keys, Balanced(k),
           NEW w \in Workers, Holds(w, k), Done(w),
           claimed' = claimed, stopping' = stopping, faults' = faults,
           \A q \in Processes \ {ProcessOf[w]} : attempts'[q][k] = attempts[q][k],
           tries'[k] <= tries[k] + (IF pc[w] = "counting" THEN 0 ELSE 1)
    PROVE  Balanced(k)'
<1> DEFINE s == Cardinality(stopping)
           f == Cardinality(Left(k))
           g == Cardinality(Left(k)')
           c == Cardinality(Counting(k))
<1>1. /\ s \in Nat /\ f \in Nat /\ g \in Nat /\ g <= Cap - 1 /\ c \in Nat
      /\ Licences(k) \in Nat /\ Cardinality(Holders(k)) \in Nat
      /\ RoomFor(k) \in Nat /\ RoomFor(k)' \in Nat
      /\ tries[k] \in Nat /\ tries'[k] \in Nat
      /\ IsFiniteSet(Holders(k)) /\ IsFiniteSet(Counting(k))
  BY Sizes, SizesAfter DEF TypeInv, TypeOK
<1>2. ProcessOf[w] \in Processes /\ Cap \in Nat /\ Retries \in Nat /\ Cap >= Retries + 1
  BY ProcessAssumption, CapFacts
<1>3. g <= f + Retries
  BY <1>2, LeftOfOne
<1>4. Holders(k)' = Holders(k) \ {w} /\ w \in Holders(k)
  BY DoneHolds DEF Holders
<1>5. Counting(k)' = Counting(k) \ {w} /\ (w \in Counting(k) <=> pc[w] = "counting")
  BY DEF Counting, Done, Holds, Idle, TypeInv, TypeOK
<1>6. Cardinality(Holders(k)') = Cardinality(Holders(k)) - 1 /\ Cardinality(Holders(k)) >= 1
  <2>1. Cardinality(Holders(k) \ {w}) = Cardinality(Holders(k)) - 1
    BY <1>1, <1>4, FS_RemoveElement
  <2>2. Cardinality(Holders(k)) # 0
    BY <1>1, <1>4, FS_EmptySet
  <2> QED
    BY <1>1, <1>4, <2>1, <2>2
<1>7. Cardinality(Counting(k)') = IF pc[w] = "counting" THEN c - 1 ELSE c
  BY <1>1, <1>5, FS_RemoveElement
<1>8. Licences(k)' = Licences(k) - 1 /\ Licences(k) >= 1
  BY <1>1, <1>6 DEF Licences
<1>9. RoomFor(k) = Room(s, Licences(k), f) /\ RoomFor(k)' = Room(s, Licences(k)', g)
  BY DEF RoomFor
<1> HIDE DEF s, f, g, c
<1>10. RoomFor(k)' + 1 <= RoomFor(k)
  BY <1>1, <1>2, <1>3, <1>8, <1>9, RoomOfLess
<1>11. tries'[k] + RoomFor(k)' + c
         <= tries[k] + RoomFor(k) + Cardinality(Counting(k)') + 0 * Cap
  BY <1>1, <1>2, <1>7, <1>10
<1>12. faults' = faults + 0
  BY DEF TypeInv, TypeOK
<1> QED
  BY <1>11, <1>12, Balance DEF c

\* An alert that no worker in question has in its hands.
LEMMA OtherAlert ==
    ASSUME TypeInv, TypeInv', NEW k \in Keys, NEW w \in Workers, job[w] # k,
           \/ Done(w)
           \/ \E l \in Locations : Goto(w, l)
    PROVE  Holders(k)' = Holders(k) /\ Counting(k)' = Counting(k)
BY DEF TypeInv, TypeOK, Done, Goto, Holders, Holds, Counting, Idle

LEMMA SameLeft ==
    ASSUME NEW k \in Keys, \A p \in Processes : attempts'[p][k] = attempts[p][k]
    PROVE  Left(k)' = Left(k)
BY DEF Left

LEMMA SameLicences ==
    ASSUME NEW k \in Keys, Holders(k)' = Holders(k), k \in claimed <=> k \in claimed'
    PROVE  Licences(k)' = Licences(k)
BY DEF Licences

LEMMA OtherCounts ==
    ASSUME TypeInv, NEW k \in Keys, NEW w \in Workers, NEW c, c # k,
           NEW a \in {attempts, Forgotten(w, c), Counted(w, c)}
    PROVE  \A p \in Processes : a[p][k] = attempts[p][k]
<1>1. /\ attempts \in [Processes -> [Keys -> Nat]]
      /\ ProcessOf[w] \in Processes
  BY ProcessAssumption DEF TypeInv, TypeOK
<1> SUFFICES ASSUME NEW p \in Processes
             PROVE  a[p][k] = attempts[p][k]
  OBVIOUS
<1>2. attempts[p] \in [Keys -> Nat]
  BY <1>1
<1>3. CASE a = Forgotten(w, c)
  BY <1>1, <1>2, <1>3 DEF Forgotten
<1>4. CASE a = Counted(w, c)
  BY <1>1, <1>2, <1>4 DEF Counted
<1> QED
  BY <1>3, <1>4

\* No step of a worker about one alert says anything about another.
LEMMA BalanceOfOthers ==
    ASSUME TypeInv, TypeInv', NEW k \in Keys, Balanced(k), NEW w \in Workers, job[w] # k,
           \/ Step(w) /\ ~ Pop(w)
           \/ ClaimError(w) \/ ClaimRepeated(w) \/ ReleaseError(w) \/ RequeueError(w)
    PROVE  Balanced(k)'
<1>1. /\ claimed' \in {claimed, claimed \cup {job[w]}, claimed \ {job[w]}}
      /\ stopping' = stopping
  BY DEF Step, Claim, SendOk, SendPermanent, SendRetryable, CountAttempt, Release,
         Unclaimed, Requeue, DropOnShutdown, ClaimError, ClaimRepeated, ReleaseError,
         RequeueError
<1>2. faults' = faults + 0 \/ faults' = faults + 1
  BY DEF Step, Claim, SendOk, SendPermanent, SendRetryable, CountAttempt, Release,
         Requeue, DropOnShutdown, ClaimError, ClaimRepeated, ReleaseError, RequeueError,
         Fault, TypeInv, TypeOK
<1>3. Done(w) \/ \E l \in Locations : Goto(w, l)
  BY DEF Step, Claim, Skip, SendOk, SendPermanent, SendRetryable, CountAttempt, Release,
         Requeue, DropOnShutdown, ClaimError, ClaimRepeated, ReleaseError, RequeueError,
         Locations
<1>4. tries'[k] = tries[k]
  BY DEF Step, Claim, SendOk, SendPermanent, SendRetryable, CountAttempt, Release,
         Requeue, DropOnShutdown, ClaimError, ClaimRepeated, ReleaseError, RequeueError,
         messages, TypeInv, TypeOK
<1>5. attempts' = attempts \/ attempts' = Forgotten(w, job[w]) \/ attempts' = Counted(w, job[w])
  BY DEF Step, Claim, SendOk, SendPermanent, SendRetryable, CountAttempt, Release,
         Requeue, DropOnShutdown, ClaimError, ClaimRepeated, ReleaseError, RequeueError
<1>6. \A p \in Processes : attempts'[p][k] = attempts[p][k]
  BY <1>5, OtherCounts
<1>7. Left(k)' = Left(k)
  BY <1>6, SameLeft
<1>8. Holders(k)' = Holders(k) /\ Counting(k)' = Counting(k)
  BY <1>3, OtherAlert
<1>9. Licences(k)' = Licences(k) /\ Licences(k) \in Nat
  BY <1>1, <1>8, SameLicences, Sizes
<1> QED
  BY <1>1, <1>2, <1>4, <1>7, <1>8, <1>9, LicenceMoves

\* A worker that is done and held no licence for the alert.
LEMMA NotInHand ==
    ASSUME TypeInv, NEW w \in Workers, Done(w), NEW k \in Keys, ~ Holds(w, k)
    PROVE  Holders(k)' = Holders(k) /\ Counting(k)' = Counting(k)
<1>1. Holders(k)' = Holders(k)
  BY DoneHolds DEF Holders
<1>2. \A v \in Workers : v # w => pc'[v] = pc[v] /\ job'[v] = job[v]
  BY DEF Done, TypeInv, TypeOK
<1>3. pc'[w] # "counting" /\ ~ (job[w] = k /\ pc[w] = "counting")
  BY DEF Done, Idle, Holds, TypeInv, TypeOK
<1>4. Counting(k)' = Counting(k)
  BY <1>2, <1>3 DEF Counting
<1> QED
  BY <1>1, <1>4

\* The licence goes back to the alert, unless somebody took the claim away before.
LEMMA GivenBack ==
    ASSUME TypeInv, NEW w \in Workers, NEW k \in Keys, Holds(w, k), pc[w] = "releasing",
           \/ Done(w)
           \/ Goto(w, "sleeping"),
           claimed' \in {claimed, claimed \ {k}}
    PROVE  Licences(k)' <= Licences(k) /\ Counting(k)' = Counting(k)
<1>1. Holders(k)' = Holders(k) \ {w} /\ w \in Holders(k)
  BY DoneHolds, GotoHolds DEF Holders
<1>2. Counting(k)' = Counting(k)
  BY DEF Counting, Done, Goto, Idle, TypeInv, TypeOK
<1>3. IsFiniteSet(Holders(k)) /\ Cardinality(Holders(k)) \in Nat
  BY Sizes
<1>4. Cardinality(Holders(k) \ {w}) = Cardinality(Holders(k)) - 1
  BY <1>1, <1>3, FS_RemoveElement
<1> QED
  BY <1>1, <1>2, <1>3, <1>4 DEF Licences

\* The steps of a worker about the alert in its hands.
LEMMA BalanceOfStep ==
    ASSUME TypeInv, TypeInv', NEW w \in Workers, Step(w), ~ Pop(w), NEW k \in Keys,
           Balanced(k), job[w] = k
    PROVE  Balanced(k)'
<1>1. faults \in Nat /\ faults + 0 = faults /\ Licences(k) + 0 = Licences(k)
  BY Sizes DEF TypeInv, TypeOK
<1>2. ASSUME UNCHANGED <<attempts, stopping, tries, faults>>,
             Counting(k)' = Counting(k), Licences(k)' <= Licences(k)
      PROVE  Balanced(k)'
  <2>1. Left(k)' = Left(k)
    BY <1>2, SameLeft
  <2> QED
    BY <1>1, <1>2, <2>1, LicenceMoves
<1>3. CASE Claim(w)
  <2>1. /\ UNCHANGED <<attempts, stopping, tries, faults>>
        /\ claimed' = claimed \cup {k} /\ pc[w] = "popped" /\ ~ Holds(w, k)
    BY <1>3 DEF Claim, messages, Holds
  <2>2. CASE Taken(w)
    <3>1. Done(w) /\ k \in claimed
      BY <1>3, <2>2 DEF Claim, Skip, Taken
    <3>2. Holders(k)' = Holders(k) /\ Counting(k)' = Counting(k)
      BY <2>1, <3>1, NotInHand
    <3> QED
      BY <1>1, <1>2, <2>1, <3>1, <3>2, Sizes DEF Licences
  <2>3. CASE ~ Taken(w)
    <3>1. Goto(w, "sending") /\ k \notin claimed
      BY <1>3, <2>3 DEF Claim, Taken
    <3>2. Holders(k)' = Holders(k) \cup {w} /\ w \notin Holders(k)
      BY <2>1, <3>1, GotoHolds DEF Holders
    <3>3. Counting(k)' = Counting(k)
      BY <2>1, <3>1 DEF Counting, Goto, TypeInv, TypeOK
    <3>4. IsFiniteSet(Holders(k)) /\ Cardinality(Holders(k)) \in Nat
      BY Sizes
    <3>5. Cardinality(Holders(k) \cup {w}) = Cardinality(Holders(k)) + 1
      BY <3>2, <3>4, FS_AddElement
    <3>6. Licences(k)' = Licences(k)
      BY <2>1, <3>1, <3>2, <3>4, <3>5 DEF Licences
    <3> QED
      BY <1>1, <1>2, <2>1, <3>3, <3>6, Sizes
  <2> QED
    BY <2>2, <2>3
<1>4. CASE SendOk(w)
  <2>1. /\ Holds(w, k) /\ Done(w) /\ pc[w] = "sending"
        /\ claimed' = claimed /\ stopping' = stopping /\ faults' = faults
        /\ attempts' = Forgotten(w, k)
    BY <1>4 DEF SendOk, Holds, verdicts
  <2>2. tries'[k] <= tries[k] + 1
    BY <1>4 DEF SendOk, TypeInv, TypeOK
  <2>3. \A q \in Processes \ {ProcessOf[w]} : attempts'[q][k] = attempts[q][k]
    BY <2>1 DEF Forgotten, TypeInv, TypeOK
  <2> QED
    BY <2>1, <2>2, <2>3, LicenceEnds
<1>5. CASE SendPermanent(w)
  <2>1. /\ Holds(w, k) /\ Done(w) /\ pc[w] = "sending"
        /\ UNCHANGED <<claimed, stopping, faults, attempts>>
    BY <1>5 DEF SendPermanent, Holds
  <2>2. tries'[k] <= tries[k] + 1
    BY <1>5 DEF SendPermanent, TypeInv, TypeOK
  <2> QED
    BY <2>1, <2>2, LicenceEnds
<1>6. ASSUME NEW arrived \in BOOLEAN, SendRetryable(w, arrived)
      PROVE  Balanced(k)'
  <2>1. /\ UNCHANGED <<claimed, attempts, stopping, faults>>
        /\ Goto(w, "counting") /\ pc[w] = "sending"
    BY <1>6 DEF SendRetryable
  <2>2. tries'[k] = tries[k] + 1 /\ tries[k] \in Nat
    BY <1>6 DEF SendRetryable, TypeInv, TypeOK
  <2>3. Holders(k)' = Holders(k)
    BY <2>1, GotoHolds DEF Holders, Holds
  <2>4. Counting(k)' = Counting(k) \cup {w} /\ w \notin Counting(k)
    BY <2>1 DEF Counting, Goto, TypeInv, TypeOK
  <2>5. /\ IsFiniteSet(Counting(k)) /\ Cardinality(Counting(k)) \in Nat
        /\ RoomFor(k) \in Nat /\ Cap \in Nat
    BY Sizes, CapFacts
  <2>6. Cardinality(Counting(k) \cup {w}) = Cardinality(Counting(k)) + 1
    BY <2>4, <2>5, FS_AddElement
  <2>7. Left(k)' = Left(k) /\ Licences(k)' = Licences(k)
    BY <2>1, <2>3, SameLeft, SameLicences
  <2>8. RoomFor(k)' = RoomFor(k)
    BY <2>1, <2>7 DEF RoomFor
  <2>9. tries'[k] + RoomFor(k)' + Cardinality(Counting(k))
          <= tries[k] + RoomFor(k) + Cardinality(Counting(k)') + 0 * Cap
    BY <2>2, <2>4, <2>5, <2>6, <2>8
  <2> QED
    BY <1>1, <2>1, <2>9, Balance
<1>7. CASE CountAttempt(w)
  <2>1. /\ UNCHANGED <<claimed, stopping, tries, faults>>
        /\ Holds(w, k) /\ pc[w] = "counting"
    BY <1>7 DEF CountAttempt, Holds, messages
  <2>2. CASE Spent(w)
    <3>1. Done(w) /\ attempts' = Forgotten(w, k)
      BY <1>7, <2>2 DEF CountAttempt
    <3>2. \A q \in Processes \ {ProcessOf[w]} : attempts'[q][k] = attempts[q][k]
      BY <3>1 DEF Forgotten, TypeInv, TypeOK
    <3>3. tries'[k] <= tries[k] + 0
      BY <2>1 DEF TypeInv, TypeOK
    <3> QED
      BY <2>1, <3>1, <3>2, <3>3, LicenceEnds
  <2>3. CASE ~ Spent(w)
    <3>1. Goto(w, "releasing") /\ attempts' = Counted(w, k)
      BY <1>7, <2>3 DEF CountAttempt
    <3>2. attempts[ProcessOf[w]][k] + 1 <= Retries
      BY <2>3, BoundsAssumption, ProcessAssumption DEF Spent, Retries, TypeInv, TypeOK
    <3>3. /\ Cardinality(Left(k)') = Cardinality(Left(k)) - 1
          /\ Cardinality(Left(k)) >= 1
      BY <3>1, <3>2, LeftAfterCount
    <3>4. Holders(k)' = Holders(k) /\ w \in Holders(k)
      BY <2>1, <3>1, GotoHolds DEF Holders
    <3>5. Counting(k)' = Counting(k) \ {w} /\ w \in Counting(k)
      BY <2>1, <3>1 DEF Counting, Goto, TypeInv, TypeOK
    <3>6. /\ IsFiniteSet(Counting(k)) /\ Cardinality(Counting(k)) \in Nat
          /\ IsFiniteSet(Holders(k)) /\ Cardinality(Holders(k)) \in Nat
          /\ Cardinality(stopping) \in Nat /\ Cardinality(Left(k)) \in Nat
          /\ Licences(k) \in Nat /\ RoomFor(k) \in Nat /\ tries[k] \in Nat
          /\ Cap \in Nat /\ Retries \in Nat
      BY Sizes, CapFacts DEF TypeInv, TypeOK
    <3>7. Cardinality(Counting(k) \ {w}) = Cardinality(Counting(k)) - 1
      BY <3>5, <3>6, FS_RemoveElement
    <3>8. Licences(k)' = Licences(k)
      BY <2>1, <3>4, SameLicences
    <3>9. Cardinality(Holders(k)) # 0
      BY <3>4, <3>6, FS_EmptySet
    <3>10. Licences(k) # 0
      BY <3>6, <3>9 DEF Licences
    <3>11. RoomFor(k)' + 1 = RoomFor(k)
      <4>1. Retries * Cardinality(stopping) \in Nat /\ (Licences(k) - 1) * Cap \in Nat
        BY <3>6, <3>10
      <4> QED
        BY <2>1, <3>3, <3>6, <3>8, <3>10, <4>1 DEF RoomFor, Room
    <3>12. tries'[k] + RoomFor(k)' + Cardinality(Counting(k))
             <= tries[k] + RoomFor(k) + Cardinality(Counting(k)') + 0 * Cap
      <4>1. RoomFor(k)' = RoomFor(k) - 1 /\ Cardinality(Counting(k)') = Cardinality(Counting(k)) - 1
        BY <3>5, <3>6, <3>7, <3>11, SizesAfter
      <4>2. tries'[k] = tries[k] /\ 0 * Cap = 0
        BY <2>1, <3>6
      <4> QED
        BY <3>6, <4>1, <4>2
    <3> QED
      BY <1>1, <2>1, <3>12, Balance
  <2> QED
    BY <2>2, <2>3
<1>8. CASE Release(w)
  <2>1. /\ UNCHANGED <<attempts, stopping, tries, faults>>
        /\ claimed' = claimed \ {k} /\ pc[w] = "releasing" /\ Goto(w, "sleeping")
        /\ Holds(w, k)
    BY <1>8 DEF Release, Unclaimed, messages, Holds
  <2> QED
    BY <1>2, <2>1, GivenBack
<1>9. CASE Requeue(w)
  <2>1. /\ UNCHANGED <<claimed, attempts, stopping, tries, faults>>
        /\ pc[w] = "sleeping" /\ Done(w) /\ ~ Holds(w, k)
    BY <1>9 DEF Requeue, messages, verdicts, Holds
  <2>2. Holders(k)' = Holders(k) /\ Counting(k)' = Counting(k)
    BY <2>1, NotInHand
  <2> QED
    BY <1>1, <1>2, <2>1, <2>2, SameLicences, Sizes
<1>10. CASE DropOnShutdown(w)
  <2>1. UNCHANGED <<claimed, attempts, stopping, tries, faults>> /\ Done(w)
    BY <1>10 DEF DropOnShutdown, messages
  <2>2. CASE Holds(w, k)
    <3>1. tries'[k] <= tries[k] + (IF pc[w] = "counting" THEN 0 ELSE 1)
      BY <2>1 DEF TypeInv, TypeOK
    <3> QED
      BY <2>1, <2>2, <3>1, LicenceEnds
  <2>3. CASE ~ Holds(w, k)
    <3>1. Holders(k)' = Holders(k) /\ Counting(k)' = Counting(k)
      BY <2>1, <2>3, NotInHand
    <3> QED
      BY <1>1, <1>2, <2>1, <3>1, SameLicences, Sizes
  <2> QED
    BY <2>2, <2>3
<1> QED
  BY <1>3, <1>4, <1>5, <1>6, <1>7, <1>8, <1>9, <1>10 DEF Step

\* The faults of a worker about the alert in its hands.
LEMMA BalanceOfFault ==
    ASSUME TypeInv, TypeInv', NEW w \in Workers, NEW k \in Keys, Balanced(k), job[w] = k,
           ClaimError(w) \/ ClaimRepeated(w) \/ ReleaseError(w) \/ RequeueError(w)
    PROVE  Balanced(k)'
<1>1. /\ UNCHANGED <<attempts, stopping, tries>> /\ faults' = faults + 1
  BY DEF ClaimError, ClaimRepeated, ReleaseError, RequeueError, Fault, messages
<1>2. Left(k)' = Left(k)
  BY <1>1, SameLeft
<1>3. /\ IsFiniteSet(Holders(k)) /\ Cardinality(Holders(k)) \in Nat
      /\ Licences(k) \in Nat
  BY Sizes
<1>4. Counting(k)' = Counting(k) /\ Licences(k)' <= Licences(k) + 1
  <2>1. CASE ClaimError(w)
    <3>1. /\ Goto(w, "sending") /\ pc[w] = "popped" /\ (k \in claimed => k \in claimed')
      BY <2>1 DEF ClaimError
    <3>2. Holders(k)' = Holders(k) \cup {w} /\ w \notin Holders(k)
      BY <3>1, GotoHolds DEF Holders, Holds
    <3>3. Cardinality(Holders(k) \cup {w}) = Cardinality(Holders(k)) + 1
      BY <1>3, <3>2, FS_AddElement
    <3>4. Counting(k)' = Counting(k)
      BY <3>1 DEF Counting, Goto, TypeInv, TypeOK
    <3> QED
      BY <1>3, <3>1, <3>2, <3>3, <3>4 DEF Licences
  <2>2. CASE ClaimRepeated(w) \/ RequeueError(w)
    <3>1. /\ Done(w) /\ ~ Holds(w, k) /\ (k \in claimed => k \in claimed')
      BY <2>2 DEF ClaimRepeated, RequeueError, Holds
    <3>2. Holders(k)' = Holders(k) /\ Counting(k)' = Counting(k)
      BY <3>1, NotInHand
    <3> QED
      BY <1>3, <3>1, <3>2 DEF Licences
  <2>3. CASE ReleaseError(w)
    <3>1. Done(w) /\ Holds(w, k) /\ pc[w] = "releasing" /\ claimed' \in {claimed, claimed \ {k}}
      BY <2>3 DEF ReleaseError, Holds
    <3>2. Counting(k)' = Counting(k) /\ Licences(k)' <= Licences(k)
      BY <3>1, GivenBack
    <3>3. Licences(k)' \in Nat
      BY SizesAfter
    <3> QED
      BY <1>3, <3>2, <3>3
  <2> QED
    BY <2>1, <2>2, <2>3
<1> QED
  BY <1>1, <1>2, <1>4, LicenceMoves

\* A process is killed: the licences of its workers end with it, and its counts.
LEMMA BalanceOfCrash ==
    ASSUME TypeInv, TypeInv', NEW p \in Processes, Crash(p), NEW k \in Keys, Balanced(k)
    PROVE  Balanced(k)'
<1> DEFINE H == Holders(k)
           I == Holders(k)'
           C == Counting(k)
           D == Counting(k)'
           d == Cardinality(H \ I)
           s == Cardinality(stopping)
           t == Cardinality(stopping')
           f == Cardinality(Left(k))
           g == Cardinality(Left(k)')
<1>1. /\ claimed' = claimed /\ tries' = tries /\ faults' = faults + 1
      /\ stopping' \subseteq stopping
  BY DEF Crash, Fault, messages
<1>2. \A w \in Workers : \/ pc'[w] = pc[w] /\ job'[w] = job[w]
                         \/ pc'[w] = Idle
  BY DEF Crash, TypeInv, TypeOK
<1>3. I \subseteq H /\ D \subseteq C /\ C \ D \subseteq H \ I
  BY <1>2 DEF Holders, Counting, Holds, Idle
<1>4. /\ IsFiniteSet(H) /\ Cardinality(H) \in Nat /\ IsFiniteSet(C) /\ Cardinality(C) \in Nat
      /\ IsFiniteSet(stopping) /\ s \in Nat /\ f \in Nat
      /\ Licences(k) \in Nat /\ RoomFor(k) \in Nat
      /\ Cardinality(I) \in Nat /\ Cardinality(D) \in Nat
      /\ t \in Nat /\ g \in Nat /\ g <= Cap - 1
      /\ Licences(k)' \in Nat /\ RoomFor(k)' \in Nat
      /\ tries[k] \in Nat /\ Cap \in Nat
  BY Sizes, SizesAfter, CapFacts DEF TypeInv, TypeOK
<1>5. t <= s
  BY <1>1, <1>4, FS_Subset
<1>6. RoomFor(k) = Room(s, Licences(k), f) /\ RoomFor(k)' = Room(t, Licences(k)', g)
  BY DEF RoomFor
<1>7. Licences(k)' - Cardinality(I) = Licences(k) - Cardinality(H)
  BY <1>1, <1>4 DEF Licences
<1> HIDE DEF H, I, C, D, s, t, f, g
<1>8. d = Cardinality(H) - Cardinality(I)
  <2>1. H \cap I = I
    BY <1>3
  <2> QED
    BY <1>4, <2>1, FS_Difference
<1>9. Cardinality(C \ D) = Cardinality(C) - Cardinality(D)
  <2>1. C \cap D = D
    BY <1>3
  <2> QED
    BY <1>4, <2>1, FS_Difference
<1>10. IsFiniteSet(H \ I)
  BY <1>4, FS_Subset
<1>11. Cardinality(C \ D) <= d /\ d \in Nat
  BY <1>3, <1>10, FS_Subset, FS_CardinalityType
<1> HIDE DEF d
<1>12. Licences(k)' + d <= Licences(k)
  BY <1>4, <1>7, <1>8
<1>13. Room(t, Licences(k)', g) + d <= Room(s, Licences(k), f) + Cap
  BY <1>4, <1>5, <1>11, <1>12, RoomOfCrash
<1>14. tries'[k] + RoomFor(k)' + Cardinality(C)
         <= tries[k] + RoomFor(k) + Cardinality(D) + 1 * Cap
  <2>1. Cardinality(C) <= Cardinality(D) + d
    BY <1>4, <1>9, <1>11
  <2>2. 1 * Cap = Cap /\ tries'[k] = tries[k]
    BY <1>1, <1>4
  <2> QED
    BY <1>4, <1>6, <1>11, <1>13, <2>1, <2>2
<1> QED
  BY <1>1, <1>14, Balance DEF C, D

\* A process is told to stop, which is paid for with a fault, or has been and is back.
LEMMA BalanceOfStop ==
    ASSUME TypeInv, TypeInv', NEW p \in Processes, Shutdown(p) \/ Restart(p),
           NEW k \in Keys, Balanced(k)
    PROVE  Balanced(k)'
<1> DEFINE s == Cardinality(stopping)
           f == Cardinality(Left(k))
           g == Cardinality(Left(k)')
<1>1. UNCHANGED <<claimed, pc, job, tries>>
  BY DEF Shutdown, Restart, messages
<1>2. Holders(k)' = Holders(k) /\ Counting(k)' = Counting(k)
  BY <1>1 DEF Holders, Counting, Holds
<1>3. Licences(k)' = Licences(k)
  BY <1>1, <1>2, SameLicences
<1>4. /\ IsFiniteSet(stopping) /\ s \in Nat /\ f \in Nat /\ Licences(k) \in Nat
      /\ RoomFor(k) \in Nat /\ RoomFor(k)' \in Nat /\ g \in Nat
      /\ Cardinality(Counting(k)) \in Nat
      /\ tries[k] \in Nat /\ faults \in Nat
      /\ Cap \in Nat /\ Retries \in Nat /\ Cap >= Retries + 1
  BY Sizes, SizesAfter, CapFacts DEF TypeInv, TypeOK
<1>5. RoomFor(k) = Room(s, Licences(k), f)
  BY DEF RoomFor
<1>6. CASE Shutdown(p)
  <2>1. /\ faults' = faults + 1 /\ attempts' = attempts
        /\ stopping' = stopping \cup {p} /\ p \notin stopping
    BY <1>6 DEF Shutdown, Fault
  <2>2. Left(k)' = Left(k)
    BY <2>1, SameLeft
  <2>3. Cardinality(stopping') = s + 1
    BY <1>4, <2>1, FS_AddElement
  <2>4. RoomFor(k)' = Room(s + 1, Licences(k), f)
    BY <1>3, <2>2, <2>3 DEF RoomFor
  <2> HIDE DEF s, f, g
  <2>5. f <= f + Retries
    BY <1>4
  <2>6. RoomFor(k)' = RoomFor(k) + Retries
    BY <1>4, <1>5, <2>4, <2>5, RoomOfStop
  <2>7. tries'[k] + RoomFor(k)' + Cardinality(Counting(k))
          <= tries[k] + RoomFor(k) + Cardinality(Counting(k)') + 1 * Cap
    BY <1>1, <1>2, <1>4, <2>6
  <2> QED
    BY <2>1, <2>7, Balance
<1>7. CASE Restart(p)
  <2>1. /\ faults' = faults + 0 /\ stopping' = stopping \ {p} /\ p \in stopping
        /\ attempts' = [attempts EXCEPT ![p] = [j \in Keys |-> 0]]
    BY <1>4, <1>7 DEF Restart
  <2>2. \A q \in Processes \ {p} : attempts'[q][k] = attempts[q][k]
    BY <2>1 DEF TypeInv, TypeOK
  <2>3. g <= f + Retries
    BY <2>2, LeftOfOne
  <2>4. Cardinality(stopping') = s - 1 /\ s # 0
    BY <1>4, <2>1, FS_RemoveElement, FS_EmptySet
  <2>5. RoomFor(k)' = Room(s - 1, Licences(k), g)
    BY <1>3, <2>4 DEF RoomFor
  <2> HIDE DEF s, f, g
  <2>6. PICK r \in Nat : r = s - 1 /\ s = r + 1
    BY <1>4, <2>4
  <2>7. f <= f + Retries
    BY <1>4
  <2>8. Room(r + 1, Licences(k), f) = Room(r, Licences(k), f) + Retries
    BY <1>4, <2>7, RoomOfStop
  <2>9. Room(r, Licences(k), g) <= Room(r, Licences(k), f) + Retries
    BY <1>4, <2>3, RoomOfStop
  <2>10. Room(r, Licences(k), f) \in Nat
    BY <1>4, RoomType
  <2>11. RoomFor(k)' <= RoomFor(k)
    BY <1>4, <1>5, <2>5, <2>6, <2>8, <2>9, <2>10
  <2>12. tries'[k] + RoomFor(k)' + Cardinality(Counting(k))
           <= tries[k] + RoomFor(k) + Cardinality(Counting(k)') + 0 * Cap
    BY <1>1, <1>2, <1>4, <2>11
  <2> QED
    BY <2>1, <2>12, Balance
<1> QED
  BY <1>6, <1>7

\* No worker past its claim is touched, and no count.
LEMMA BalanceOfRest ==
    ASSUME TypeInv, TypeInv', NEW k \in Keys, Balanced(k),
           \/ \E j \in Keys : Push(j) \/ LapseClaim(j)
           \/ \E w \in Workers : Pop(w)
           \/ PopReplyLost
           \/ UNCHANGED vars
    PROVE  Balanced(k)'
<1>1. UNCHANGED <<attempts, stopping, tries>>
  BY DEF Push, LapseClaim, Pop, PopReplyLost, messages, vars
<1>2. \A w \in Workers : \/ pc'[w] = pc[w] /\ job'[w] = job[w]
                         \/ pc[w] = Idle /\ pc'[w] = "popped"
  BY DEF Push, LapseClaim, Pop, PopReplyLost, vars, TypeInv, TypeOK
<1>3. Holders(k)' = Holders(k) /\ Counting(k)' = Counting(k)
  BY <1>2 DEF Holders, Counting, Holds, Idle
<1>4. Left(k)' = Left(k)
  BY <1>1, SameLeft
<1>5. Licences(k) \in Nat /\ Licences(k)' \in Nat /\ Cardinality(Holders(k)) \in Nat
      /\ faults \in Nat
  BY Sizes, SizesAfter DEF TypeInv, TypeOK
<1>6. \/ claimed' = claimed /\ faults' = faults + 0
      \/ claimed' = claimed /\ faults' = faults + 1
      \/ faults' = faults + 1 /\ \E j \in Keys : claimed' = claimed \ {j}
  BY <1>5 DEF Push, LapseClaim, Pop, PopReplyLost, Fault, vars
<1>7. \/ faults' = faults + 0 /\ Licences(k)' <= Licences(k) + 0
      \/ faults' = faults + 1 /\ Licences(k)' <= Licences(k) + 1
  BY <1>3, <1>5, <1>6 DEF Licences
<1> QED
  BY <1>1, <1>3, <1>4, <1>7, LicenceMoves

LEMMA BalanceStep ==
    ASSUME TypeInv, TypeInv', [Next]_vars, NEW k \in Keys, Balanced(k)
    PROVE  Balanced(k)'
<1>1. ASSUME NEW w \in Workers,
             \/ Step(w) /\ ~ Pop(w)
             \/ ClaimError(w) \/ ClaimRepeated(w) \/ ReleaseError(w) \/ RequeueError(w)
      PROVE  Balanced(k)'
  BY <1>1, BalanceOfOthers, BalanceOfStep, BalanceOfFault
<1>2. CASE \E w \in Workers : Pop(w)
  BY <1>2, BalanceOfRest
<1>3. CASE Trouble
  BY <1>1, <1>3, BalanceOfRest, BalanceOfStop, BalanceOfCrash DEF Trouble
<1>4. CASE (\E j \in Keys : Push(j)) \/ UNCHANGED vars
  BY <1>4, BalanceOfRest
<1>5. CASE \E p \in Processes : Restart(p)
  BY <1>5, BalanceOfStop
<1> QED
  BY <1>1, <1>2, <1>3, <1>4, <1>5 DEF Next

LEMMA LowStep ==
    ASSUME TypeInv, [Next]_vars, NEW k \in Keys, Low(k)
    PROVE  Low(k)'
<1>1. attempts \in [Processes -> [Keys -> Nat]] /\ Retries \in Nat
  BY CapFacts DEF TypeInv, TypeOK
<1>2. ASSUME NEW w \in Workers, SendOk(w) \/ CountAttempt(w)
      PROVE  Low(k)'
  <2>1. ProcessOf[w] \in Processes
    BY ProcessAssumption
  <2>2. CASE attempts' = Forgotten(w, job[w])
    BY <1>1, <2>1, <2>2 DEF Forgotten, Low
  <2>3. CASE attempts' = Counted(w, job[w]) /\ ~ Spent(w)
    <3>1. CASE job[w] = k
      <4>1. attempts[ProcessOf[w]][k] \in Nat /\ attempts[ProcessOf[w]][k] + 1 <= Retries
        BY <1>1, <2>1, <2>3, <3>1, BoundsAssumption DEF Spent, Retries
      <4> QED
        BY <1>1, <2>1, <2>3, <3>1, <4>1 DEF Counted, Low
    <3>2. CASE job[w] # k
      BY <2>3, <3>2, OtherCounts DEF Low
    <3> QED
      BY <3>1, <3>2
  <2> QED
    BY <1>2, <2>2, <2>3 DEF SendOk, CountAttempt
<1>3. ASSUME NEW p \in Processes, Restart(p) \/ Crash(p)
      PROVE  Low(k)'
  BY <1>1, <1>3 DEF Restart, Crash, Low
<1>4. CASE UNCHANGED attempts
  BY <1>4 DEF Low
<1>5. \/ UNCHANGED attempts
      \/ \E w \in Workers : SendOk(w) \/ CountAttempt(w)
      \/ \E p \in Processes : Restart(p) \/ Crash(p)
  BY DEF Next, vars, Step, Trouble, Push, Pop, Claim, SendPermanent, SendRetryable, Release,
         Requeue, DropOnShutdown, PopReplyLost, ClaimError, ClaimRepeated, ReleaseError,
         RequeueError, LapseClaim, Shutdown
<1> QED
  BY <1>2, <1>3, <1>4, <1>5

-----------------------------------------------------------------------------

LEMMA InitHolds ==
    ASSUME Init
    PROVE  TypeInv /\ GuardInv /\ ClaimStandsForSomething /\ NothingVanishes
<1>1. TypeInv
  BY DEF Init, TypeInv, TypeOK, Hands, Locations
<1>2. GuardInv
  BY DEF Init, GuardInv, Guarded, Holds, Idle
<1>3. ClaimStandsForSomething /\ NothingVanishes
  BY DEF Init, ClaimStandsForSomething, NothingVanishes
<1> QED
  BY <1>1, <1>2, <1>3

LEMMA Typed == Spec => []TypeInv
BY InitHolds, TypeStep, PTL DEF Spec

\* The list, the claims, the workers and the counters keep their shape through retries,
\* shutdowns and crashes (worker.go, queue.go).
THEOREM TypeCorrect == Spec => []TypeOK
BY Typed, PTL DEF TypeInv

\* Claim before send and release before requeue (worker.go's deliver and requeue): an
\* alert whose claim was never failed by Redis, by time or by a lost answer of Telegram
\* reaches the user at most once, for any number of copies, workers and crashes.
THEOREM DeliveredAtMostOnce == Spec => []DeliveredOnce
<1>1. TypeInv /\ GuardInv => DeliveredOnce
  BY DEF GuardInv, Guarded, DeliveredOnce
<1>2. Spec => []GuardInv
  BY InitHolds, Typed, GuardStep, PTL DEF Spec
<1> QED
  BY <1>1, <1>2, Typed, PTL

\* An alert somebody else claimed may be skipped (worker.go's deliver): the claim stands
\* for a worker that still holds the alert, for a message that arrived, or for a loss.
THEOREM ClaimsAreHonest == Spec => []ClaimStandsForSomething
BY InitHolds, Typed, StandsStep, PTL DEF Spec

\* Between BLPOP and the message (queue.go, worker.go) no alert vanishes but for a cause:
\* a failure on record, a verdict of Telegram, the cap on attempts, a stop or a crash.
THEOREM AlertsNeverVanish == Spec => []NothingVanishes
BY InitHolds, Typed, ClaimsAreHonest, VanishStep, PTL DEF Spec

LEMMA CapInit ==
    ASSUME Init
    PROVE  CapInv
<1> SUFFICES ASSUME NEW k \in Keys
             PROVE  Balanced(k) /\ Low(k)
  BY DEF CapInv
<1>1. TypeInv
  BY InitHolds
<1>2. Low(k)
  BY CapFacts DEF Init, Low
<1>3. Holders(k) = {} /\ Counting(k) = {} /\ stopping = {}
  BY DEF Init, Holders, Counting, Holds, Idle
<1>4. /\ Cardinality(Holders(k)) = 0 /\ Cardinality(Counting(k)) = 0
      /\ Cardinality(stopping) = 0
  BY <1>3, FS_EmptySet
<1>5. Licences(k) = 1
  BY <1>4 DEF Licences, Init
<1>6. /\ Cardinality(Left(k)) \in Nat /\ Cardinality(Left(k)) <= Cap - 1
      /\ Cap \in Nat /\ Retries \in Nat
  BY <1>1, Sizes, CapFacts
<1>7. Room(0, 1, Cardinality(Left(k))) <= Cap
  BY <1>6 DEF Room
<1>8. tries[k] = 0 /\ faults = 0
  BY DEF Init
<1>9. RoomFor(k) = Room(0, 1, Cardinality(Left(k))) /\ RoomFor(k) \in Nat
  BY <1>1, <1>4, <1>5, Sizes DEF RoomFor
<1>10. Cap * (faults + 1) = Cap
  BY <1>6, <1>8
<1>11. tries[k] + RoomFor(k) <= Cap * (faults + 1) + Cardinality(Counting(k))
  BY <1>4, <1>6, <1>7, <1>8, <1>9, <1>10
<1> QED
  BY <1>2, <1>11 DEF Balanced

LEMMA CapImplied ==
    ASSUME TypeInv, CapInv
    PROVE  AttemptsCapped
<1> SUFFICES ASSUME NEW k \in Keys
             PROVE  tries[k] <= Cap * (faults + 1)
  BY DEF AttemptsCapped, Cap, Retries
<1>1. Balanced(k)
  BY DEF CapInv
<1>2. /\ Cardinality(Counting(k)) \in Nat /\ Cardinality(stopping) \in Nat
      /\ Cardinality(Left(k)) \in Nat /\ Licences(k) \in Nat
      /\ Cardinality(Counting(k)) <= Licences(k) /\ RoomFor(k) \in Nat
      /\ tries[k] \in Nat /\ faults \in Nat
      /\ Cap \in Nat /\ Cap >= 1 /\ Retries \in Nat
  BY Sizes, CapFacts DEF TypeInv, TypeOK
<1>3. Cardinality(Counting(k)) <= RoomFor(k)
  <2>1. CASE Licences(k) = 0
    BY <1>2, <2>1
  <2>2. CASE Licences(k) # 0
    <3>1. RoomFor(k) >= Retries * Cardinality(stopping) + 1 + (Licences(k) - 1) * Cap
      <4>1. Licences(k) >= 1
        BY <1>2, <2>2
      <4>2. Room(Cardinality(stopping), Licences(k), Cardinality(Left(k)))
              >= Retries * Cardinality(stopping) + 1 + (Licences(k) - 1) * Cap
        BY <1>2, <4>1, RoomType
      <4> QED
        BY <4>2 DEF RoomFor
    <3>2. (Licences(k) - 1) * Cap >= Licences(k) - 1 /\ Retries * Cardinality(stopping) \in Nat
      BY <1>2, <2>2
    <3>3. (Licences(k) - 1) * Cap \in Nat
      BY <1>2, <2>2
    <3> QED
      BY <1>2, <3>1, <3>2, <3>3
  <2> QED
    BY <2>1, <2>2
<1>4. Cap * (faults + 1) \in Nat
  BY <1>2
<1> QED
  BY <1>1, <1>2, <1>3, <1>4 DEF Balanced

\* The cap of requeue (worker.go's maxAttempts) bounds the messages tried about an alert,
\* though the counters live in each process, are forgotten with it, and are shared by all
\* its workers: every process may spend its attempts once, and once more per fault.
THEOREM AttemptsAreCapped == Spec => []AttemptsCapped
<1>1. TypeInv /\ TypeInv' /\ [Next]_vars /\ CapInv => CapInv'
  BY BalanceStep, LowStep DEF CapInv
<1> QED
  BY <1>1, CapInit, CapImplied, Typed, PTL DEF Spec
=============================================================================
