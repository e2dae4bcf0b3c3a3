----------------------------- MODULE DialogProofs -----------------------------
(***************************************************************************)
(* What ends up tracked, for any number of overlapping updates, products   *)
(* and currencies, and that it matters to no answer which store tracks it. *)
(***************************************************************************)
EXTENDS StoreParity, FoldFacts, FiniteSetTheorems, TLAPS

\* A draft is coherent wherever it is: stored, in the hands of a handler, or tracked.
Proper(d) ==
    /\ AtMostOne(d.url) /\ AtMostOne(d.target)
    /\ \A t \in d.target : d.url = {t.for} /\ t.wanted
Linked(s) == s.step \in {"await_target", "await_interval"} => s.url # {}

StoreInv ==
    /\ session \subseteq Session /\ AtMostOne(session)
    /\ \A s \in session : Proper(s) /\ Linked(s)
    /\ items \subseteq Item
    /\ \A i \in items : Proper(i)
    /\ currency \in Currencies /\ currency = chosen

CopyInv ==
    /\ copy \in [Handlers -> SUBSET Session]
    /\ \A h \in Handlers : AtMostOne(copy[h])
    /\ \A h \in Handlers : \A s \in copy[h] : Proper(s) /\ Linked(s)

HandlerInv ==
    /\ pc \in [Handlers -> {"idle", "ensuring", "getting", "setting", "adding",
                            "inserting", "choosing", "removing", "resetting"}]
    /\ update \in [Handlers -> Updates \cup {NoUpdate}]
    /\ read \in [Handlers -> Currencies]
    /\ choices \in [Handlers -> SUBSET Currencies]
    \* Only an update that names a currency gets as far as setting it.
    /\ \A h \in Handlers : pc[h] = "choosing" => Is(h, {"code", "currency button"})
    \* A price in progress has been given its chance to see the last choice.
    /\ \A h \in Handlers : Is(h, {"price"}) =>
        /\ chosen \in choices[h]
        /\ pc[h] # "ensuring" => read[h] \in choices[h]

IInv == StoreInv /\ CopyInv /\ HandlerInv

\* The invariant is enough.
LEMMA Implied == IInv => TypeOK /\ OneDialogue /\ ChosenCurrency
<1> SUFFICES ASSUME IInv PROVE TypeOK /\ OneDialogue /\ ChosenCurrency
  OBVIOUS
<1>1. \A s \in Copies : Proper(s) /\ Linked(s)
  BY DEF IInv, CopyInv, Copies
<1>2. TypeOK
  BY <1>1 DEF IInv, StoreInv, CopyInv, HandlerInv, TypeOK, Proper, Linked
<1>3. OneDialogue /\ ChosenCurrency
  BY DEF IInv, StoreInv, OneDialogue, ChosenCurrency, Proper
<1> QED
  BY <1>2, <1>3

-----------------------------------------------------------------------------

\* An update has the field its kind reads.
LEMMA UpdateFields ==
    ASSUME NEW u \in Updates
    PROVE  /\ u.kind \in {"link", "/add link", "remove button"} => u.url \in Urls
           /\ u.kind \in {"code", "currency button"} => u.currency \in Currencies
BY DEF Updates, Texts, Commands, Buttons

\* The session a link starts.
LEMMA WithLinkType ==
    ASSUME NEW url \in Urls
    PROVE  /\ WithLink(url) \in Session
           /\ WithLink(url).url = {url}
           /\ WithLink(url).target = {}
BY DEF WithLink, Asking, Session, Steps

\* The session a command starts.
LEMMA AskingType ==
    ASSUME NEW step \in Steps
    PROVE  /\ Asking(step) \in Session
           /\ Asking(step).step = step
           /\ Asking(step).url = {} /\ Asking(step).target = {}
BY DEF Asking, Session

\* What a handler handles has a kind, which tells it from nothing.
LEMMA Handling ==
    ASSUME IInv, NEW h \in Handlers, update[h].kind # "none"
    PROVE  update[h] \in Updates
<1>1. NoUpdate.kind = "none"
  BY DEF NoUpdate
<1> QED
  BY <1>1 DEF IInv, HandlerInv

\* What is being set is a currency.
LEMMA NamesCurrency ==
    ASSUME IInv, NEW h \in Handlers, pc[h] = "choosing"
    PROVE  update[h].currency \in Currencies
<1>1. update[h].kind \in {"code", "currency button"}
  BY DEF IInv, HandlerInv, Is
<1>3. update[h] \in Updates
  BY <1>1, Handling
<1> QED
  BY <1>1, <1>3, UpdateFields

\* What an answered threshold puts in the draft.
LEMMA TypedType ==
    ASSUME IInv, NEW h \in Handlers, NEW s \in session, pc[h] = "getting",
           Is(h, {"price", "skip"})
    PROVE  /\ Typed(h, s) \subseteq Target
           /\ AtMostOne(Typed(h, s))
           /\ \A t \in Typed(h, s) : s.url = {t.for} /\ t.wanted
<1>1. s \in Session /\ AtMostOne(s.url)
  BY DEF IInv, StoreInv, Proper
<1>2. s.url \subseteq Urls
  BY <1>1 DEF Session
<1>3. read[h] \in Currencies
  BY DEF IInv, HandlerInv
<1>4. CASE Is(h, {"skip"})
  BY <1>4 DEF Typed, AtMostOne
<1>5. CASE ~ Is(h, {"skip"})
  <2>1. read[h] \in choices[h]
    BY <1>5 DEF IInv, HandlerInv, Is
  <2>2. Typed(h, s) = {[currency |-> read[h], for |-> url, wanted |-> TRUE] : url \in s.url}
    BY <1>5, <2>1 DEF Typed
  <2>3. \A url \in s.url : s.url = {url}
    BY <1>1 DEF AtMostOne
  <2>4. Typed(h, s) \subseteq Target
    <3>1. \A url \in Urls : [currency |-> read[h], for |-> url, wanted |-> TRUE] \in Target
      BY <1>3 DEF Target
    <3> QED
      BY <1>2, <2>2, <3>1
  <2>5. AtMostOne(Typed(h, s))
    BY <2>2, <2>3 DEF AtMostOne
  <2>6. ASSUME NEW t \in Typed(h, s)
        PROVE  s.url = {t.for} /\ t.wanted
    <3>1. PICK url \in s.url : t = [currency |-> read[h], for |-> url, wanted |-> TRUE]
      BY <2>2
    <3>2. t.for = url
      BY <3>1
    <3>3. t.wanted
      BY <3>1
    <3> QED
      BY <2>3, <3>2, <3>3
  <2> QED
    BY <2>4, <2>5, <2>6
<1> QED
  BY <1>4, <1>5

-----------------------------------------------------------------------------

\* A handler that writes sessions or the Store with what it has in its hands.
LEMMA StoreStep ==
    ASSUME IInv, [Next]_vars
    PROVE  StoreInv'
<1> USE DEF IInv
<1>1. ASSUME NEW h \in Handlers, Ensure(h)
      PROVE  StoreInv'
  BY <1>1 DEF StoreInv, Ensure, Ensured
<1>2. ASSUME NEW h \in Handlers, Set(h)
      PROVE  StoreInv'
  BY <1>2 DEF StoreInv, CopyInv, Set, Written
<1>3. ASSUME NEW h \in Handlers, AddItem(h)
      PROVE  StoreInv'
  <2>1. PICK s \in copy[h] : items' = items \cup {[url |-> s.url, target |-> s.target]}
    BY <1>3 DEF AddItem
  <2>2. s \in Session /\ Proper(s)
    BY DEF CopyInv
  <2> DEFINE new == [url |-> s.url, target |-> s.target]
  <2>3. new \in Item
    BY <2>2 DEF Session, Item
  <2>4. Proper(new)
    BY <2>2 DEF Proper
  <2> QED
    BY <1>3, <2>1, <2>3, <2>4 DEF StoreInv, AddItem
<1>4. ASSUME NEW h \in Handlers, SetDefaultCurrency(h)
      PROVE  StoreInv'
  <2>2. update[h].currency \in Currencies
    BY <1>4, NamesCurrency DEF SetDefaultCurrency
  <2> QED
    BY <1>4, <2>2 DEF StoreInv, SetDefaultCurrency
<1>5. ASSUME NEW h \in Handlers, RemoveItem(h)
      PROVE  StoreInv'
  BY <1>5 DEF StoreInv, RemoveItem
<1>6. ASSUME NEW h \in Handlers, Reset(h)
      PROVE  StoreInv'
  BY <1>6 DEF StoreInv, Reset, AtMostOne
<1>7. CASE Expire
  BY <1>7 DEF StoreInv, Expire, AtMostOne
<1>8. CASE Restart
  BY <1>8 DEF StoreInv, Restart, AtMostOne
<1>9. CASE UNCHANGED <<session, currency, items, chosen>>
  BY <1>9 DEF StoreInv
<1>10. ASSUME NEW h \in Handlers,
              \/ \E u \in Updates : Receive(h, u)
              \/ Fails(h) \/ AcceptUrl(h) \/ AcceptWord(h) \/ AcceptTarget(h)
              \/ AcceptCurrency(h) \/ AcceptInterval(h) \/ Cancel(h) \/ Reject(h) \/ CountItems(h)
              \/ AddFails(h)
       PROVE  StoreInv'
  BY <1>9, <1>10 DEF Receive, Fails, AcceptUrl, AcceptWord, AcceptTarget, AcceptCurrency,
                     AcceptInterval, Cancel, Reject, CountItems, AddFails
<1> QED
  BY <1>1, <1>2, <1>3, <1>4, <1>5, <1>6, <1>7, <1>8, <1>9, <1>10 DEF Next, vars

-----------------------------------------------------------------------------

\* A handler may take any coherent copy,
LEMMA CopyWritten ==
    ASSUME CopyInv, NEW h \in Handlers, NEW S, S \subseteq Session, AtMostOne(S),
           \A s \in S : Proper(s) /\ Linked(s),
           copy' = [copy EXCEPT ![h] = S]
    PROVE  CopyInv'
BY DEF CopyInv

\* one it sets,
LEMMA OneCopy ==
    ASSUME CopyInv, NEW h \in Handlers, NEW s \in Session, Proper(s), Linked(s), SetTo(h, s)
    PROVE  CopyInv'
<1>1. AtMostOne({s}) /\ {s} \subseteq Session
  BY DEF AtMostOne
<1> QED
  BY <1>1, CopyWritten DEF SetTo

\* or none.
LEMMA NoCopy ==
    ASSUME CopyInv, NEW h \in Handlers, copy' = [copy EXCEPT ![h] = {}]
    PROVE  CopyInv'
<1>1. AtMostOne({})
  BY DEF AtMostOne
<1> QED
  BY <1>1, CopyWritten

\* A session that has just been begun.
LEMMA Fresh ==
    ASSUME NEW s \in Session, s.target = {},
           \/ s.url = {} /\ s.step \notin {"await_target", "await_interval"}
           \/ \E url \in Urls : s.url = {url}
    PROVE  Proper(s) /\ Linked(s)
BY DEF Proper, Linked, AtMostOne

\* A handler takes in its hands what is coherent.
LEMMA CopyStep ==
    ASSUME IInv, [Next]_vars
    PROVE  CopyInv'
<1> USE DEF IInv
<1>1. ASSUME NEW h \in Handlers, Ensure(h)
      PROVE  CopyInv'
  <2>1. CASE Is(h, {"/add"})
    <3>1. Begun(h) = {Asking("await_url")}
      BY <2>1 DEF Begun
    <3>2. Asking("await_url") \in Session /\ Proper(Asking("await_url"))
          /\ Linked(Asking("await_url"))
      BY AskingType, Fresh DEF Steps
    <3> QED
      BY <1>1, <3>1, <3>2, CopyWritten DEF Ensure, AtMostOne
  <2>2. CASE Is(h, {"/settings"})
    <3>1. Begun(h) = {Asking("await_currency")}
      BY <2>2 DEF Begun, Is
    <3>2. Asking("await_currency") \in Session /\ Proper(Asking("await_currency"))
          /\ Linked(Asking("await_currency"))
      BY AskingType, Fresh DEF Steps
    <3> QED
      BY <1>1, <3>1, <3>2, CopyWritten DEF Ensure, AtMostOne
  <2>3. CASE Is(h, {"/add link"})
    <3>1. update[h].url \in Urls
      <4>1. update[h].kind = "/add link"
        BY <2>3 DEF Is
      <4>2. update[h] \in Updates
        BY <4>1, Handling
      <4> QED
        BY <4>1, <4>2, UpdateFields
    <3> DEFINE s == WithLink(update[h].url)
    <3>2. Begun(h) = {s}
      BY <2>3 DEF Begun, Is
    <3>3. s \in Session /\ s.url = {update[h].url} /\ s.target = {}
      BY <3>1, WithLinkType
    <3>4. Proper(s) /\ Linked(s)
      BY <3>1, <3>3, Fresh
    <3> HIDE DEF s
    <3> QED
      <4>1. copy' = [copy EXCEPT ![h] = {s}]
        BY <1>1, <3>2 DEF Ensure
      <4>2. {s} \subseteq Session /\ AtMostOne({s}) /\ CopyInv
        BY <3>3 DEF AtMostOne
      <4> QED
        BY <3>4, <4>1, <4>2, CopyWritten
  <2>4. CASE ~ Is(h, {"/add", "/settings", "/add link"})
    <3>1. Begun(h) = {}
      BY <2>4 DEF Begun, Is
    <3>2. copy' = [copy EXCEPT ![h] = {}]
      BY <1>1, <3>1 DEF Ensure
    <3> QED
      BY <3>2, NoCopy
  <2> QED
    BY <2>1, <2>2, <2>3, <2>4 DEF Is
<1>2. ASSUME NEW h \in Handlers, AcceptUrl(h)
      PROVE  CopyInv'
  <2>1. update[h].url \in Urls
    <3>1. update[h].kind = "link"
      BY <1>2 DEF AcceptUrl, Answered, Is
    <3>2. update[h] \in Updates
      BY <3>1, Handling
    <3> QED
      BY <3>1, <3>2, UpdateFields
  <2>2. WithLink(update[h].url) \in Session /\ Proper(WithLink(update[h].url))
        /\ Linked(WithLink(update[h].url))
    BY <2>1, WithLinkType, Fresh
  <2> QED
    BY <1>2, <2>2, OneCopy DEF AcceptUrl
<1>3. ASSUME NEW h \in Handlers, AcceptWord(h)
      PROVE  CopyInv'
  <2>1. PICK url \in Urls : SetTo(h, WithLink(url))
    BY <1>3 DEF AcceptWord
  <2>2. WithLink(url) \in Session /\ Proper(WithLink(url)) /\ Linked(WithLink(url))
    BY WithLinkType, Fresh
  <2> QED
    BY <2>1, <2>2, OneCopy
<1>4. ASSUME NEW h \in Handlers, AcceptTarget(h)
      PROVE  CopyInv'
  <2> DEFINE next(s) == [s EXCEPT !.step = "await_interval", !.target = Typed(h, s)]
  <2>1. PICK s \in session : SetTo(h, next(s))
    BY <1>4 DEF AcceptTarget
  <2>2. pc[h] = "getting" /\ Is(h, {"price", "skip"}) /\ Step(session) = "await_target"
    BY <1>4 DEF AcceptTarget, Answered
  <2>3. s \in Session /\ Proper(s) /\ Linked(s)
    BY DEF StoreInv
  <2>4. s.step = "await_target"
    BY <2>2 DEF Step, StoreInv, AtMostOne
  <2>5. /\ Typed(h, s) \subseteq Target /\ AtMostOne(Typed(h, s))
        /\ \A t \in Typed(h, s) : s.url = {t.for} /\ t.wanted
    BY <2>2, TypedType
  <2>6. next(s) \in Session
    BY <2>3, <2>5 DEF Session, Steps
  <2>7. next(s).url = s.url /\ next(s).target = Typed(h, s)
    BY <2>3 DEF Session
  <2>8. Proper(next(s)) /\ Linked(next(s))
    BY <2>3, <2>4, <2>5, <2>7 DEF Proper, Linked
  <2> HIDE DEF next
  <2> QED
    BY <2>1, <2>6, <2>8, OneCopy
<1>5. ASSUME NEW h \in Handlers, AcceptInterval(h)
      PROVE  CopyInv'
  BY <1>5, CopyWritten DEF AcceptInterval, StoreInv
<1>6. ASSUME NEW h \in Handlers, Return(h)
      PROVE  CopyInv'
  BY <1>6, NoCopy DEF Return
<1>7. CASE Restart
  BY <1>7 DEF CopyInv, Restart, AtMostOne
<1>8. CASE UNCHANGED copy
  BY <1>8 DEF CopyInv
<1>9. ASSUME NEW h \in Handlers,
             \/ Fails(h) \/ Reject(h) \/ Set(h) \/ Reset(h) \/ RemoveItem(h)
      PROVE  CopyInv'
  BY <1>6, <1>9 DEF Fails, Reject, Set, Reset, RemoveItem
<1>10. ASSUME NEW h \in Handlers,
              \/ \E u \in Updates : Receive(h, u)
              \/ AcceptCurrency(h) \/ Cancel(h)
              \/ CountItems(h) \/ AddItem(h) \/ AddFails(h) \/ SetDefaultCurrency(h)
       PROVE  CopyInv'
  BY <1>8, <1>10 DEF Receive, AcceptCurrency, Cancel, CountItems, AddItem, AddFails,
                     SetDefaultCurrency
<1>11. CASE Expire
  BY <1>8, <1>11 DEF Expire
<1> QED
  BY <1>1, <1>2, <1>3, <1>4, <1>5, <1>7, <1>8, <1>9, <1>10, <1>11 DEF Next, vars

-----------------------------------------------------------------------------

\* A handler that returns forgets its update.
LEMMA Returned ==
    ASSUME IInv, NEW h \in Handlers, Return(h), UNCHANGED chosen
    PROVE  HandlerInv'
<1>1. NoUpdate.kind = "none" /\ NoUpdate \in Updates \cup {NoUpdate}
  BY DEF NoUpdate
<1>2. DefaultCurrency \in Currencies
  BY DefaultAssumption
<1> QED
  BY <1>1, <1>2 DEF IInv, HandlerInv, Return, Goto, Is

\* A handler goes on, and none of what it remembers changes.
LEMMA Continues ==
    ASSUME IInv, NEW h \in Handlers,
           NEW l \in {"getting", "setting", "adding", "inserting", "choosing", "removing",
                  "resetting"},
           pc[h] # "ensuring", Goto(h, l), UNCHANGED <<update, read, chosen, choices>>,
           l = "choosing" => Is(h, {"code", "currency button"})
    PROVE  HandlerInv'
BY DEF IInv, HandlerInv, Goto, Is

\* What a handler of a price remembers of the choices made keeps up with them.
LEMMA HandlerStep ==
    ASSUME IInv, [Next]_vars
    PROVE  HandlerInv'
<1> USE DEF IInv
<1>1. ASSUME NEW h \in Handlers, NEW u \in Updates, Receive(h, u)
      PROVE  HandlerInv'
  <2>1. chosen \in Currencies
    BY DEF StoreInv
  <2> QED
    BY <1>1, <2>1 DEF HandlerInv, Receive, Goto, Is
<1>2. ASSUME NEW h \in Handlers, Ensure(h)
      PROVE  HandlerInv'
  <2>1. currency' = chosen /\ chosen \in Currencies /\ DefaultCurrency \in Currencies
    BY <1>2, DefaultAssumption DEF StoreInv, Ensure, Ensured
  <2>2. AfterEnsure(h) \in {"getting", "setting", "choosing", "removing", "resetting"}
    BY DEF AfterEnsure
  <2>3. AfterEnsure(h) = "choosing" => Is(h, {"code", "currency button"})
    BY DEF AfterEnsure, Is
  <2> QED
    BY <1>2, <2>1, <2>2, <2>3 DEF HandlerInv, Ensure, Goto, Is
<1>3. ASSUME NEW h \in Handlers,
             \/ AcceptUrl(h) \/ AcceptWord(h) \/ AcceptTarget(h) \/ AcceptCurrency(h)
             \/ AcceptInterval(h) \/ Cancel(h)
      PROVE  HandlerInv'
  <2>1. pc[h] = "getting"
    BY <1>3 DEF AcceptUrl, AcceptWord, AcceptTarget, AcceptCurrency, AcceptInterval, Cancel,
                Answered
  <2>2. UNCHANGED <<update, read, chosen, choices>>
    BY <1>3 DEF AcceptUrl, AcceptWord, AcceptTarget, AcceptCurrency, AcceptInterval, Cancel
  <2>3. \/ \E l \in {"setting", "adding", "resetting"} : Goto(h, l)
        \/ Goto(h, "choosing") /\ Is(h, {"code"})
    BY <1>3 DEF AcceptUrl, AcceptWord, AcceptTarget, AcceptCurrency, AcceptInterval, Cancel,
                Answered, SetTo
  <2> QED
    BY <2>1, <2>2, <2>3, Continues DEF Is
<1>4. ASSUME NEW h \in Handlers, CountItems(h) \/ AddItem(h) \/ AddFails(h)
      PROVE  HandlerInv'
  BY <1>4, Continues DEF CountItems, AddItem, AddFails
<1>5. ASSUME NEW h \in Handlers, SetDefaultCurrency(h)
      PROVE  HandlerInv'
  <2> DEFINE c == update[h].currency
  <2>1. c \in Currencies /\ chosen' = c /\ pc[h] = "choosing"
    BY <1>5, NamesCurrency DEF SetDefaultCurrency
  <2>2. choices' = [k \in Handlers |-> IF Is(k, {"price"}) THEN choices[k] \cup {c}
                                       ELSE choices[k]]
    BY <1>5 DEF SetDefaultCurrency
  <2>3. ~ Is(h, {"price"})
    BY <2>1 DEF HandlerInv, Is
  <2>4. NoUpdate.kind = "none"
    BY DEF NoUpdate
  <2>5. read' = read
    BY <1>5 DEF SetDefaultCurrency
  <2>6. \/ Goto(h, "resetting") /\ update' = update
        \/ Goto(h, "idle") /\ update' = [update EXCEPT ![h] = NoUpdate]
    BY <1>5 DEF SetDefaultCurrency
  <2> HIDE DEF c
  <2>7. choices' \in [Handlers -> SUBSET Currencies]
    BY <2>1, <2>2 DEF HandlerInv
  <2>8. ASSUME NEW k \in Handlers
        PROVE  /\ pc'[k] = "choosing" => Is(k, {"code", "currency button"})'
               /\ Is(k, {"price"})' => chosen' \in choices'[k]
                                       /\ (pc'[k] # "ensuring" => read'[k] \in choices'[k])
    BY <2>1, <2>2, <2>3, <2>4, <2>5, <2>6 DEF HandlerInv, Goto, Is
  <2>9. /\ pc' \in [Handlers -> {"idle", "ensuring", "getting", "setting", "adding",
                                 "inserting", "choosing", "removing", "resetting"}]
        /\ update' \in [Handlers -> Updates \cup {NoUpdate}]
        /\ read' \in [Handlers -> Currencies]
    BY <2>5, <2>6 DEF HandlerInv, Goto
  <2> QED
    BY <2>7, <2>8, <2>9 DEF HandlerInv
<1>6. ASSUME NEW h \in Handlers,
             \/ Fails(h) \/ Reject(h) \/ Set(h) \/ Reset(h) \/ RemoveItem(h)
      PROVE  HandlerInv'
  BY <1>6, Returned DEF Fails, Reject, Set, Reset, RemoveItem
<1>7. CASE Restart
  <2>1. NoUpdate.kind = "none"
    BY DEF NoUpdate
  <2> QED
    BY <1>7, <2>1, DefaultAssumption DEF HandlerInv, Restart, Is
<1>8. CASE UNCHANGED <<pc, update, read, chosen, choices>>
  BY <1>8 DEF HandlerInv, Is
<1>9. CASE Expire
  BY <1>8, <1>9 DEF Expire
<1> QED
  BY <1>1, <1>2, <1>3, <1>4, <1>5, <1>6, <1>7, <1>8, <1>9 DEF Next, vars

-----------------------------------------------------------------------------
\* The limit, which several handlers may find not reached at once.

\* A handler past the count has its place in the bound already.
Inserting == {h \in Handlers : pc[h] = "inserting"}
LimitInv ==
    /\ IsFiniteSet(items)
    /\ Cardinality(items) + Cardinality(Inserting) + 1 <= MaxItemsPerUser + Cardinality(Handlers)

\* What is counted are numbers.
LEMMA LimitTypes ==
    ASSUME IsFiniteSet(Handlers), IsFiniteSet(items)
    PROVE  /\ IsFiniteSet(Inserting) /\ Cardinality(Inserting) \in Nat
           /\ Cardinality(Inserting) <= Cardinality(Handlers)
           /\ Cardinality(items) \in Nat /\ Cardinality(Handlers) \in Nat
           /\ MaxItemsPerUser \in Nat
BY FS_Subset, FS_CardinalityType, LimitAssumption DEF Inserting

\* Nothing is added, and nobody passes the count.
LEMMA NoMore ==
    ASSUME IsFiniteSet(Handlers), LimitInv, items' \subseteq items,
           Inserting' \subseteq Inserting
    PROVE  LimitInv'
<1>1. /\ Cardinality(Inserting') <= Cardinality(Inserting) /\ Cardinality(Inserting') \in Nat
      /\ IsFiniteSet(items') /\ Cardinality(items') \in Nat
      /\ Cardinality(items') <= Cardinality(items)
  BY LimitTypes, FS_Subset, FS_CardinalityType DEF LimitInv
<1> QED
  BY <1>1, LimitTypes DEF LimitInv

LEMMA LimitStep ==
    ASSUME IsFiniteSet(Handlers), IInv, LimitInv, [Next]_vars
    PROVE  LimitInv'
<1>1. pc = [h \in Handlers |-> pc[h]]
  BY DEF IInv, HandlerInv
\* The count is passed below the limit.
<1>2. ASSUME NEW h \in Handlers, CountItems(h)
      PROVE  LimitInv'
  <2>1. items' = items /\ Cardinality(items) < MaxItemsPerUser
    BY <1>2 DEF CountItems
  <2>2. Cardinality(Inserting') <= Cardinality(Handlers) /\ Cardinality(Inserting') \in Nat
    BY FS_Subset, FS_CardinalityType DEF Inserting
  <2> QED
    BY <2>1, <2>2, LimitTypes DEF LimitInv
\* An insert gives the place of its handler to one item.
<1>3. ASSUME NEW h \in Handlers, AddItem(h)
      PROVE  LimitInv'
  <2>1. PICK s \in copy[h] : items' = items \cup {[url |-> s.url, target |-> s.target]}
    BY <1>3 DEF AddItem
  <2> DEFINE new == [url |-> s.url, target |-> s.target]
  <2>2. h \in Inserting /\ Inserting' = Inserting \ {h}
    BY <1>1, <1>3 DEF AddItem, Goto, Inserting
  <2>3. /\ IsFiniteSet(items \cup {new})
        /\ Cardinality(items \cup {new})
             = IF new \in items THEN Cardinality(items) ELSE Cardinality(items) + 1
    BY FS_AddElement DEF LimitInv
  <2>4. Cardinality(Inserting') = Cardinality(Inserting) - 1
    BY <2>2, LimitTypes, FS_RemoveElement DEF LimitInv
  <2> HIDE DEF new
  <2>5. /\ IsFiniteSet(items') /\ Cardinality(items') \in Nat
        /\ Cardinality(items') <= Cardinality(items) + 1
    BY <2>1, <2>3, LimitTypes DEF LimitInv, new
  <2> QED
    BY <2>4, <2>5, LimitTypes DEF LimitInv
\* Whoever goes elsewhere leaves its place.
<1>4. ASSUME NEW h \in Handlers, NEW l, l # "inserting", Goto(h, l), items' \subseteq items
      PROVE  LimitInv'
  BY <1>1, <1>4, NoMore DEF Goto, Inserting
<1>5. ASSUME NEW h \in Handlers, NEW u \in Updates, Receive(h, u)
      PROVE  LimitInv'
  <2>1. (IF u.kind = "/cancel" THEN "getting" ELSE "ensuring") # "inserting"
    OBVIOUS
  <2> QED
    BY <1>4, <1>5, <2>1 DEF Receive
<1>6. ASSUME NEW h \in Handlers, Ensure(h)
      PROVE  LimitInv'
  <2>1. AfterEnsure(h) # "inserting"
    BY DEF AfterEnsure
  <2> QED
    BY <1>4, <1>6, <2>1 DEF Ensure
<1>7. ASSUME NEW h \in Handlers,
             \/ AcceptUrl(h) \/ AcceptWord(h) \/ AcceptTarget(h) \/ AcceptCurrency(h)
             \/ AcceptInterval(h) \/ Cancel(h) \/ AddFails(h) \/ SetDefaultCurrency(h)
      PROVE  LimitInv'
  <2>1. \E l \in {"setting", "choosing", "adding", "resetting", "idle"} : Goto(h, l)
    BY <1>7 DEF AcceptUrl, AcceptWord, AcceptTarget, AcceptCurrency, AcceptInterval, Cancel,
                AddFails, SetDefaultCurrency, SetTo
  <2>2. items' = items
    BY <1>7 DEF AcceptUrl, AcceptWord, AcceptTarget, AcceptCurrency, AcceptInterval, Cancel,
                AddFails, SetDefaultCurrency
  <2> QED
    BY <1>4, <2>1, <2>2
<1>8. ASSUME NEW h \in Handlers,
             \/ Fails(h) \/ Reject(h) \/ Set(h) \/ Reset(h) \/ RemoveItem(h)
      PROVE  LimitInv'
  <2>1. Goto(h, "idle") \/ Goto(h, "resetting")
    BY <1>8 DEF Fails, Reject, Set, Reset, RemoveItem, Return
  <2>2. items' \subseteq items
    BY <1>8 DEF Fails, Reject, Set, Reset, RemoveItem
  <2> QED
    BY <1>4, <2>1, <2>2
<1>9. CASE Expire \/ Restart \/ UNCHANGED vars
  BY <1>9, NoMore DEF Expire, Restart, vars, Inserting
<1> QED
  BY <1>2, <1>3, <1>5, <1>6, <1>7, <1>8, <1>9 DEF Next

-----------------------------------------------------------------------------

\* At the start nothing is stored, copied or tracked.
LEMMA InitInv == Init => IInv
<1> SUFFICES ASSUME Init PROVE IInv
  OBVIOUS
<1>1. NoUpdate.kind = "none"
  BY DEF NoUpdate
<1> QED
  BY <1>1, DefaultAssumption DEF Init, IInv, StoreInv, CopyInv, HandlerInv, AtMostOne, Is

\* Every step keeps the invariant.
LEMMA Inductive == Spec => []IInv
<1>1. IInv /\ [Next]_vars => IInv'
  BY StoreStep, CopyStep, HandlerStep DEF IInv
<1> QED
  BY <1>1, InitInv, PTL DEF Spec

\* Sessions, drafts in the hands of handlers and tracked items keep their shape, however
\* many updates of the user are handled at once (handlers.go, session.go).
THEOREM TypeCorrect == Spec => []TypeOK
BY Inductive, Implied, PTL

\* Handlers of one user overlap and write the session as a whole (session.go's set), and
\* still no target is ever attached to another product than the one it was typed for.
THEOREM OneDialogueHolds == Spec => []OneDialogue
BY Inductive, Implied, PTL

\* A threshold typed without a currency is in one that was the user's choice while it was
\* handled: EnsureUser's ON CONFLICT and the order of read and write see to it.
THEOREM ChosenCurrencyHolds == Spec => []ChosenCurrency
BY Inductive, Implied, PTL

\* The count of CreateItem (repo.go) locks nothing, and yet a user passes the limit by
\* less than the number of updates handled at once, whatever is added and removed.
THEOREM OvershootIsBounded ==
    ASSUME IsFiniteSet(Handlers), MaxItemsPerUser > 0
    PROVE  Spec => []OvershootBounded
<1>1. Init => LimitInv
  <2> SUFFICES ASSUME Init PROVE LimitInv
    OBVIOUS
  <2>1. items = {} /\ Inserting = {}
    BY DEF Init, Inserting
  <2>2. Cardinality({}) = 0 /\ IsFiniteSet({}) /\ Cardinality(Handlers) \in Nat
    BY FS_EmptySet, FS_CardinalityType
  <2> QED
    BY <2>1, <2>2, LimitAssumption DEF LimitInv
<1>2. IInv /\ LimitInv /\ [Next]_vars => LimitInv'
  BY LimitStep
<1>3. LimitInv => OvershootBounded
  BY LimitTypes DEF LimitInv, OvershootBounded
<1> QED
  BY <1>1, <1>2, <1>3, Inductive, PTL DEF Spec

-----------------------------------------------------------------------------
(***************************************************************************)
(* The two stores.  Each call is followed through both, from the same      *)
(* contents: the rows of core are those of memory, one by one.             *)
(***************************************************************************)

Whole(d) == (d \div Second) * Second

\* An interval in whole seconds is the interval without its fraction.
LEMMA WholeFacts ==
    ASSUME NEW d \in Nat
    PROVE  /\ d \div Second \in Nat /\ Whole(d) \in Nat
           /\ Whole(d) <= d /\ d < Whole(d) + Second
           /\ Whole(d) \div Second = d \div Second
<1> DEFINE q == d \div Second
<1>1. Second \in Nat /\ Second > 0
  BY IntervalAssumption
<1>2. q \in Nat /\ q * Second <= d /\ d < q * Second + Second
  BY <1>1
<1>3. (q * Second) \div Second = q
  BY <1>1, <1>2
<1> QED
  BY <1>1, <1>2, <1>3 DEF Whole

\* Cutting a fraction off does not take an interval below the smallest one.
LEMMA WholeMonotone ==
    ASSUME NEW d \in Nat, d >= MinCheckInterval
    PROVE  Whole(d) >= MinCheckInterval
<1> DEFINE q == d \div Second
           k == MinCheckInterval \div Second
<1>1. Second \in Nat /\ Second > 0 /\ MinCheckInterval \in Nat
  BY IntervalAssumption
<1>2. k \in Nat /\ MinCheckInterval = k * Second
  BY <1>1, IntervalAssumption
<1>3. q \in Nat /\ d < q * Second + Second
  BY <1>1
<1> HIDE DEF q, k
<1>4. ASSUME q < k PROVE FALSE
  <2>1. PICK j \in Nat : k = q + 1 + j
    BY <1>2, <1>3, <1>4, k - q - 1 \in Nat
  <2>2. k * Second = q * Second + Second + j * Second
    BY <1>1, <1>3, <2>1
  <2>3. j * Second >= 0
    BY <1>1
  <2> QED
    BY <1>1, <1>2, <1>3, <2>2, <2>3
<1>5. PICK j \in Nat : q = k + j
  BY <1>2, <1>3, <1>4, q - k \in Nat
<1>6. q * Second = k * Second + j * Second /\ j * Second >= 0 /\ k * Second \in Nat
      /\ j * Second \in Nat
  BY <1>1, <1>2, <1>5
<1> QED
  BY <1>2, <1>6 DEF Whole, q

Tried == Asked \cup {MinCheckInterval, MaxCheckInterval - 1}

\* Whole seconds are valid when the interval is, and the same seconds.
LEMMA IntervalFacts ==
    ASSUME NEW d \in Tried
    PROVE  /\ d \in Nat
           /\ Core!ValidInterval(Whole(d)) <=> Mem!ValidInterval(d)
           /\ Core!IntervalOf(Whole(d)) \div Second = Mem!IntervalOf(d) \div Second
           /\ Mem!IntervalOf(d) \in Nat /\ Core!IntervalOf(Whole(d)) \in Nat
<1>1. /\ Second \in Nat /\ Second > 0
      /\ MinCheckInterval \in Nat /\ MinCheckInterval > 0
      /\ MaxCheckInterval \in Nat /\ MinCheckInterval < MaxCheckInterval
      /\ DefaultInterval \in Nat
  BY IntervalAssumption
<1>2. d \in Nat
  BY <1>1 DEF Tried, Asked
<1>3. /\ Whole(d) \in Nat /\ Whole(d) <= d /\ d < Whole(d) + Second
      /\ Whole(d) \div Second = d \div Second
  BY <1>2, WholeFacts
<1>4. \/ d = 0
      \/ d = Second
      \/ d \in MinCheckInterval .. MaxCheckInterval
      \/ d = MaxCheckInterval + Second
  BY <1>1 DEF Tried, Asked
<1>5. CASE d = 0
  <2>1. Whole(d) = 0
    BY <1>3, <1>5
  <2> QED
    BY <1>1, <1>2, <1>5, <2>1
    DEF Mem!ValidInterval, Core!ValidInterval, Mem!IntervalOf, Core!IntervalOf
<1>6. CASE d # 0
  <2>1. Mem!IntervalOf(d) = d
    BY <1>6 DEF Mem!IntervalOf
  <2>2. Whole(d) # 0 /\ (Whole(d) \in MinCheckInterval .. MaxCheckInterval <=>
                            d \in MinCheckInterval .. MaxCheckInterval)
    <3>1. CASE d = Second
      <4>1. Whole(d) = d
        <5>1. Second \div Second = 1
          BY <1>1
        <5> QED
          BY <1>1, <3>1, <5>1 DEF Whole
      <4> QED
        BY <1>6, <4>1
    <3>2. CASE d \in MinCheckInterval .. MaxCheckInterval
      <4>1. Whole(d) >= MinCheckInterval
        BY <1>2, <3>2, <1>1, WholeMonotone
      <4> QED
        BY <1>1, <1>2, <1>3, <3>2, <4>1
    <3>3. CASE d = MaxCheckInterval + Second
      BY <1>1, <1>2, <1>3, <3>3
    <3> QED
      BY <1>4, <1>6, <3>1, <3>2, <3>3
  <2>3. Core!IntervalOf(Whole(d)) = Whole(d)
    BY <2>2 DEF Core!IntervalOf
  <2> QED
    BY <1>2, <1>3, <2>1, <2>2, <2>3 DEF Mem!ValidInterval, Core!ValidInterval
<1> QED
  BY <1>2, <1>5, <1>6

-----------------------------------------------------------------------------
\* What a call refuses.

\* The stores' own names of what they take from libraries.
LEMMA SameTools ==
    \A q, S : /\ Mem!Only(q, S) = Only(q, S) /\ Core!Only(q, S) = Only(q, S)
              /\ Mem!ToSet(q) = ToSet(q) /\ Core!ToSet(q) = ToSet(q)
              /\ Mem!Reverse(q) = Reverse(q) /\ Core!Reverse(q) = Reverse(q)
              /\ Mem!SetToSeq(S) = SetToSeq(S) /\ Core!SetToSeq(S) = SetToSeq(S)
              /\ \A k, v : Mem!With(q, k, v) = Core!With(q, k, v)
<1>1. \A q, S : Mem!Only(q, S) = Only(q, S)
  BY DEF Mem!Only, Only, Mem!FoldLeft, FoldLeft, Mem!MapThenFoldSet, MapThenFoldSet, Mem!Max, Max
<1>2. \A q, S : Core!Only(q, S) = Only(q, S)
  BY DEF Core!Only, Only, Core!FoldLeft, FoldLeft, Core!MapThenFoldSet, MapThenFoldSet,
         Core!Max, Max
<1>3. \A q : Mem!ToSet(q) = ToSet(q) /\ Core!ToSet(q) = ToSet(q)
  BY DEF Mem!ToSet, Core!ToSet, ToSet
<1>4. \A q : Mem!Reverse(q) = Reverse(q) /\ Core!Reverse(q) = Reverse(q)
  BY DEF Mem!Reverse, Core!Reverse, Reverse
<1>5. \A S : Mem!SetToSeq(S) = SetToSeq(S) /\ Core!SetToSeq(S) = SetToSeq(S)
  BY DEF Mem!SetToSeq, Core!SetToSeq, SetToSeq, Mem!IsInjective, Core!IsInjective,
         IsInjective, Mem!Cardinality, Core!Cardinality, Cardinality
<1>6. \A q, k, v : Mem!With(q, k, v) = Core!With(q, k, v)
  BY DEF Mem!With, Core!With
<1> QED
  BY <1>1, <1>2, <1>3, <1>4, <1>5, <1>6, Zenon

\* The first check that holds decides.
LEMMA FirstRefusal ==
    ASSUME NEW c, NEW n, DOMAIN c = 1 .. n, n \in Nat
    PROVE  /\ (\A k \in 1 .. n : ~c[k].when) => Mem!Refusal(c) = "none"
           /\ \A k \in 1 .. n : c[k].when /\ (\A j \in 1 .. k - 1 : ~c[j].when) =>
                 Mem!Refusal(c) = c[k].err
<1> DEFINE failed == {k \in DOMAIN c : c[k].when}
<1>1. (\A k \in 1 .. n : ~c[k].when) => Mem!Refusal(c) = "none"
  BY DEF Mem!Refusal
<1>2. ASSUME NEW k \in 1 .. n, c[k].when, \A j \in 1 .. k - 1 : ~c[j].when
      PROVE  Mem!Refusal(c) = c[k].err
  <2>1. k \in failed /\ \A m \in failed : k <= m
    BY <1>2
  <2>2. \A l \in failed : (\A m \in failed : l <= m) => l = k
    BY <2>1
  <2>3. k = CHOOSE l \in failed : \A m \in failed : l <= m
    BY <2>1, <2>2
  <2> QED
    BY <2>1, <2>3, Zenon DEF Mem!Refusal
<1> QED
  BY <1>1, <1>2

\* Both stores decide alike (StoreData).
LEMMA SameRefusal == \A c : Core!Refusal(c) = Mem!Refusal(c)
BY DEF Core!Refusal, Mem!Refusal

\* A check is the same in both stores.
LEMMA SameCheck == \A w, e : Core!Check(w, e) = Mem!Check(w, e)
BY DEF Core!Check, Mem!Check

\* toStatus and fromStatus keep every error of the domain.
LEMMA SentinelsTravel ==
    ASSUME NEW err \in {"none", "not found", "already exists", "validation", "limit reached"}
    PROVE  Core!FromStatus(Core!ToStatus(err)) = err
BY DEF Core!FromStatus, Core!ToStatus

\* The refusals of so many checks.
OutOfOne(a, x) ==
    Mem!Refusal(<<Mem!Check(a, x)>>)
OutOfTwo(a, x, b, y) ==
    Mem!Refusal(<<Mem!Check(a, x), Mem!Check(b, y)>>)
OutOfThree(a, x, b, y, d, z) ==
    Mem!Refusal(<<Mem!Check(a, x), Mem!Check(b, y), Mem!Check(d, z)>>)
OutOfFive(a, x, b, y, d, z, e, v, f, w) ==
    Mem!Refusal(<<Mem!Check(a, x), Mem!Check(b, y), Mem!Check(d, z), Mem!Check(e, v),
                  Mem!Check(f, w)>>)

\* One check.
LEMMA RefusalOfOne ==
    ASSUME NEW a, NEW x
    PROVE  OutOfOne(a, x) = IF a THEN x ELSE "none"
<1> DEFINE c == <<Mem!Check(a, x)>>
<1>1. DOMAIN c = 1 .. 1 /\ (c[1].when <=> a) /\ c[1].err = x
  BY DEF Mem!Check
<1> HIDE DEF c
<1>2. /\ (\A k \in 1 .. 1 : ~c[k].when) => Mem!Refusal(c) = "none"
      /\ \A k \in 1 .. 1 : c[k].when /\ (\A j \in 1 .. k - 1 : ~c[j].when) =>
            Mem!Refusal(c) = c[k].err
  BY <1>1, FirstRefusal
<1>3. Mem!Refusal(c) = IF a THEN x ELSE "none"
  <2>1. CASE a
    <3>1. 1 \in 1 .. 1 /\ c[1].when /\ \A j \in 1 .. 1 - 1 : ~c[j].when
      BY <1>1, <2>1
    <3> QED
      BY <1>1, <1>2, <2>1, <3>1
  <2>2. CASE ~a
    BY <1>1, <1>2, <2>2
  <2> QED
    BY <2>1, <2>2
<1> QED
  BY <1>3 DEF c, OutOfOne

\* Two checks.
LEMMA RefusalOfTwo ==
    ASSUME NEW a, NEW x, NEW b, NEW y
    PROVE  OutOfTwo(a, x, b, y)
             = IF a THEN x ELSE IF b THEN y ELSE "none"
<1> DEFINE c == <<Mem!Check(a, x), Mem!Check(b, y)>>
<1>1. /\ DOMAIN c = 1 .. 2
      /\ (c[1].when <=> a) /\ c[1].err = x
      /\ (c[2].when <=> b) /\ c[2].err = y
  BY DEF Mem!Check
<1> HIDE DEF c
<1>2. /\ (\A k \in 1 .. 2 : ~c[k].when) => Mem!Refusal(c) = "none"
      /\ \A k \in 1 .. 2 : c[k].when /\ (\A j \in 1 .. k - 1 : ~c[j].when) =>
            Mem!Refusal(c) = c[k].err
  BY <1>1, FirstRefusal
<1>3. Mem!Refusal(c) = IF a THEN x ELSE IF b THEN y ELSE "none"
  <2>1. CASE a
    <3>1. 1 \in 1 .. 2 /\ c[1].when /\ \A j \in 1 .. 1 - 1 : ~c[j].when
      BY <1>1, <2>1
    <3> QED
      BY <1>1, <1>2, <2>1, <3>1
  <2>2. CASE ~a /\ b
    <3>1. 2 \in 1 .. 2 /\ c[2].when /\ \A j \in 1 .. 2 - 1 : ~c[j].when
      BY <1>1, <2>2
    <3> QED
      BY <1>1, <1>2, <2>2, <3>1
  <2>3. CASE ~a /\ ~b
    BY <1>1, <1>2, <2>3
  <2> QED
    BY <2>1, <2>2, <2>3
<1> QED
  BY <1>3 DEF c, OutOfTwo

\* Three checks.
LEMMA RefusalOfThree ==
    ASSUME NEW a, NEW x, NEW b, NEW y, NEW d, NEW z
    PROVE  OutOfThree(a, x, b, y, d, z)
             = IF a THEN x ELSE IF b THEN y ELSE IF d THEN z ELSE "none"
<1> DEFINE c == <<Mem!Check(a, x), Mem!Check(b, y), Mem!Check(d, z)>>
<1>1. /\ DOMAIN c = 1 .. 3
      /\ (c[1].when <=> a) /\ c[1].err = x
      /\ (c[2].when <=> b) /\ c[2].err = y
      /\ (c[3].when <=> d) /\ c[3].err = z
  BY DEF Mem!Check
<1> HIDE DEF c
<1>2. /\ (\A k \in 1 .. 3 : ~c[k].when) => Mem!Refusal(c) = "none"
      /\ \A k \in 1 .. 3 : c[k].when /\ (\A j \in 1 .. k - 1 : ~c[j].when) =>
            Mem!Refusal(c) = c[k].err
  BY <1>1, FirstRefusal
<1>3. Mem!Refusal(c) = IF a THEN x ELSE IF b THEN y ELSE IF d THEN z ELSE "none"
  <2>1. CASE a
    <3>1. 1 \in 1 .. 3 /\ c[1].when /\ \A j \in 1 .. 1 - 1 : ~c[j].when
      BY <1>1, <2>1
    <3> QED
      BY <1>1, <1>2, <2>1, <3>1
  <2>2. CASE ~a /\ b
    <3>1. 2 \in 1 .. 3 /\ c[2].when /\ \A j \in 1 .. 2 - 1 : ~c[j].when
      BY <1>1, <2>2
    <3> QED
      BY <1>1, <1>2, <2>2, <3>1
  <2>3. CASE ~a /\ ~b /\ d
    <3>1. 3 \in 1 .. 3 /\ c[3].when /\ \A j \in 1 .. 3 - 1 : ~c[j].when
      BY <1>1, <2>3
    <3> QED
      BY <1>1, <1>2, <2>3, <3>1
  <2>4. CASE ~a /\ ~b /\ ~d
    BY <1>1, <1>2, <2>4
  <2> QED
    BY <2>1, <2>2, <2>3, <2>4
<1> QED
  BY <1>3 DEF c, OutOfThree

\* Five checks.
LEMMA RefusalOfFive ==
    ASSUME NEW a, NEW x, NEW b, NEW y, NEW d, NEW z, NEW e, NEW v, NEW f, NEW w
    PROVE  OutOfFive(a, x, b, y, d, z, e, v, f, w)
             = IF a THEN x ELSE IF b THEN y ELSE IF d THEN z ELSE IF e THEN v
               ELSE IF f THEN w ELSE "none"
<1> DEFINE c == <<Mem!Check(a, x), Mem!Check(b, y), Mem!Check(d, z), Mem!Check(e, v),
                  Mem!Check(f, w)>>
<1>1. /\ DOMAIN c = 1 .. 5
      /\ (c[1].when <=> a) /\ c[1].err = x
      /\ (c[2].when <=> b) /\ c[2].err = y
      /\ (c[3].when <=> d) /\ c[3].err = z
      /\ (c[4].when <=> e) /\ c[4].err = v
      /\ (c[5].when <=> f) /\ c[5].err = w
  BY DEF Mem!Check
<1> HIDE DEF c
<1>2. /\ (\A k \in 1 .. 5 : ~c[k].when) => Mem!Refusal(c) = "none"
      /\ \A k \in 1 .. 5 : c[k].when /\ (\A j \in 1 .. k - 1 : ~c[j].when) =>
            Mem!Refusal(c) = c[k].err
  BY <1>1, FirstRefusal
<1>3. Mem!Refusal(c) = IF a THEN x ELSE IF b THEN y ELSE IF d THEN z ELSE IF e THEN v
                       ELSE IF f THEN w ELSE "none"
  <2>1. CASE a
    <3>1. 1 \in 1 .. 5 /\ c[1].when /\ \A j \in 1 .. 1 - 1 : ~c[j].when
      BY <1>1, <2>1
    <3> QED
      BY <1>1, <1>2, <2>1, <3>1
  <2>2. CASE ~a /\ b
    <3>1. 2 \in 1 .. 5 /\ c[2].when /\ \A j \in 1 .. 2 - 1 : ~c[j].when
      BY <1>1, <2>2
    <3> QED
      BY <1>1, <1>2, <2>2, <3>1
  <2>3. CASE ~a /\ ~b /\ d
    <3>1. 3 \in 1 .. 5 /\ c[3].when /\ \A j \in 1 .. 3 - 1 : ~c[j].when
      BY <1>1, <2>3
    <3> QED
      BY <1>1, <1>2, <2>3, <3>1
  <2>4. CASE ~a /\ ~b /\ ~d /\ e
    <3>1. 4 \in 1 .. 5 /\ c[4].when /\ \A j \in 1 .. 4 - 1 : ~c[j].when
      BY <1>1, <2>4
    <3> QED
      BY <1>1, <1>2, <2>4, <3>1
  <2>5. CASE ~a /\ ~b /\ ~d /\ ~e /\ f
    <3>1. 5 \in 1 .. 5 /\ c[5].when /\ \A j \in 1 .. 5 - 1 : ~c[j].when
      BY <1>1, <2>5
    <3> QED
      BY <1>1, <1>2, <2>5, <3>1
  <2>6. CASE ~a /\ ~b /\ ~d /\ ~e /\ ~f
    BY <1>1, <1>2, <2>6
  <2> QED
    BY <2>1, <2>2, <2>3, <2>4, <2>5, <2>6
<1> QED
  BY <1>3 DEF c, OutOfFive

-----------------------------------------------------------------------------
\* The same contents in both stores.

Form == [owner : Accounts, url : Links, title : {"host"}, target : {{}, {Threshold}},
         interval : Nat, active : {TRUE}, last : {{}}]

\* The row of an item.
RowOf(i) == Core!Row([i EXCEPT !.title = ""])

\* The items a store is filled with have this form, and are known by their ids.
LEMMA FormFacts ==
    /\ \A id \in Ids, f \in {Plain, Filled} : MemItem(id, f) \in Form /\ Mem!Id(MemItem(id, f)) = id
    /\ \A i \in Form : Mem!Id(i) \in Ids
<1>1. Plain.target = {} /\ Plain.interval \in Nat
  BY IntervalAssumption DEF Plain
<1>2. Filled.target = {Threshold} /\ Filled.interval \in Nat
  BY IntervalAssumption DEF Filled
<1>3. \A id \in Ids : id[1] \in Accounts /\ id[2] \in Links /\ id = <<id[1], id[2]>>
  BY DEF Ids
<1> QED
  BY <1>1, <1>2, <1>3 DEF MemItem, Form, Mem!Id, Ids

\* A memory store holds items of this form, of users it has seen, no two with an id.
LEMMA StoreFacts ==
    ASSUME NEW s \in MemStores
    PROVE  /\ s = [currency |-> s.currency, items |-> s.items]
           /\ s.currency = [u \in DOMAIN s.currency |-> s.currency[u]]
           /\ s.items \in Seq(Form)
           /\ \A n \in 1 .. Len(s.items) : s.items[n].owner \in DOMAIN s.currency
           /\ \A n, m \in 1 .. Len(s.items) :
                 Mem!Id(s.items[n]) = Mem!Id(s.items[m]) => n = m
<1> DEFINE kept(n) == {ids \in [1 .. n -> Ids] :
                          /\ IsInjective(ids)
                          /\ \A u \in Accounts :
                                Cardinality({k \in 1 .. n : ids[k][1] = u}) <= StoreLimit}
           filled(ids) == [k \in DOMAIN ids |-> MemItem(ids[k], IF k = 2 THEN Plain ELSE Filled)]
           C == UNION {[seen -> Currencies] : seen \in SUBSET Accounts}
<1>1. s \in [currency : C, items : {filled(ids) : ids \in UNION {kept(n) : n \in 0 .. MaxHeld}}]
      /\ \A i \in ToSet(s.items) : i.owner \in DOMAIN s.currency
  BY DEF MemStores, Contents
<1>2. PICK n \in 0 .. MaxHeld : \E ids \in kept(n) : s.items = filled(ids)
  <2>1. s.items \in {filled(ids) : ids \in UNION {kept(n) : n \in 0 .. MaxHeld}}
    BY <1>1
  <2> HIDE DEF filled, kept
  <2> QED
    BY <2>1
<1>3. PICK ids \in kept(n) : s.items = filled(ids)
  BY <1>2, Zenon
<1>4. ids \in [1 .. n -> Ids] /\ \A k, l \in 1 .. n : ids[k] = ids[l] => k = l
  BY <1>3 DEF IsInjective
<1>5. /\ DOMAIN s.items = 1 .. n
      /\ \A k \in 1 .. n : s.items[k] = MemItem(ids[k], IF k = 2 THEN Plain ELSE Filled)
  BY <1>3, <1>4
<1>6. \A k \in 1 .. n : s.items[k] \in Form /\ Mem!Id(s.items[k]) = ids[k]
  BY <1>4, <1>5, FormFacts
<1>7. s.items = [k \in 1 .. n |-> s.items[k]]
  BY <1>3, <1>4
<1>8. s.items \in Seq(Form) /\ Len(s.items) = n
  <2> HIDE DEF filled
  <2>1. s.items \in [1 .. n -> Form]
    BY <1>6, <1>7
  <2>2. s.items \in Seq(Form)
    BY <2>1
  <2> QED
    BY <1>5, <2>2
<1>9. s.currency = [u \in DOMAIN s.currency |-> s.currency[u]]
  <2>1. s.currency \in C
    BY <1>1
  <2> QED
    BY <2>1
<1>10. s = [currency |-> s.currency, items |-> s.items]
  <2> HIDE DEF C, filled, kept
  <2> QED
    BY <1>1
<1>11. \A k \in 1 .. n : s.items[k].owner \in DOMAIN s.currency
  BY <1>1, <1>5 DEF ToSet
<1>12. \A k, l \in 1 .. n : Mem!Id(s.items[k]) = Mem!Id(s.items[l]) => k = l
  BY <1>4, <1>6
<1> QED
  BY <1>8, <1>9, <1>10, <1>11, <1>12

\* What a row tells of its item, in core and after the wire.
LEMMA RowFacts ==
    ASSUME NEW i \in Form
    PROVE  /\ RowOf(i) = [owner |-> i.owner, url |-> i.url, title |-> "",
                          target_amount |-> {m.amount : m \in i.target},
                          target_currency |-> {m.currency : m \in i.target},
                          check_interval_seconds |-> i.interval \div Second,
                          active |-> TRUE, s_amount |-> {}, s_currency |-> {},
                          s_converted_amount |-> {}, s_converted_currency |-> {},
                          s_in_stock |-> {}]
           /\ RowOf(i).owner = i.owner /\ RowOf(i).url = i.url /\ RowOf(i).active = TRUE
           /\ RowOf(i).check_interval_seconds = i.interval \div Second
           /\ Shown(Core!OverTheWire(Core!ScanItem(RowOf(i)))) = Shown(i)
<1> DEFINE c == [i EXCEPT !.title = ""]
<1>1. /\ c.owner = i.owner /\ c.url = i.url /\ c.title = "" /\ c.target = i.target
      /\ c.interval = i.interval /\ c.active = TRUE /\ c.last = {}
  BY DEF Form
<1> HIDE DEF c
<1>2. RowOf(i) = [owner |-> i.owner, url |-> i.url, title |-> "",
                  target_amount |-> {m.amount : m \in i.target},
                  target_currency |-> {m.currency : m \in i.target},
                  check_interval_seconds |-> i.interval \div Second,
                  active |-> TRUE, s_amount |-> {}, s_currency |-> {},
                  s_converted_amount |-> {}, s_converted_currency |-> {},
                  s_in_stock |-> {}]
  <2>1. RowOf(i) = Core!Row(c)
    BY DEF RowOf, c
  <2>2. Core!AmountColumn(c.target) = {m.amount : m \in i.target}
        /\ Core!Codes(c.target) = {m.currency : m \in i.target}
    BY <1>1 DEF Core!AmountColumn, Core!Codes
  <2>3. /\ UNION {Core!AmountColumn({s.price}) : s \in c.last} = {}
        /\ UNION {Core!Codes({s.price}) : s \in c.last} = {}
        /\ UNION {Core!AmountColumn(s.converted) : s \in c.last} = {}
        /\ UNION {Core!Codes(s.converted) : s \in c.last} = {}
        /\ {s.inStock : s \in c.last} = {}
    BY <1>1
  <2> QED
    BY <1>1, <2>1, <2>2, <2>3 DEF Core!Row
<1> DEFINE r == RowOf(i)
           x == Core!ScanItem(r)
           y == Core!OverTheWire(x)
           full == [owner |-> i.owner, url |-> i.url, title |-> "",
                    target_amount |-> {m.amount : m \in i.target},
                    target_currency |-> {m.currency : m \in i.target},
                    check_interval_seconds |-> i.interval \div Second,
                    active |-> TRUE, s_amount |-> {}, s_currency |-> {},
                    s_converted_amount |-> {}, s_converted_currency |-> {},
                    s_in_stock |-> {}]
<1>3. /\ full.owner = i.owner /\ full.url = i.url /\ full.active = TRUE /\ full.s_in_stock = {}
      /\ full.check_interval_seconds = i.interval \div Second
      /\ full.target_amount = {m.amount : m \in i.target}
      /\ full.target_currency = {m.currency : m \in i.target}
  OBVIOUS
<1>4. r = full
  BY <1>2, Zenon
<1> HIDE DEF full, r
<1>5. Core!MoneyOf(r.target_amount, r.target_currency) = i.target
  <2>1. i.target = {} \/ i.target = {Threshold}
    BY DEF Form
  <2>2. r.target_amount = {m.amount : m \in i.target}
        /\ r.target_currency = {m.currency : m \in i.target}
    BY <1>3, <1>4
  <2>3. CASE i.target = {}
    BY <2>2, <2>3 DEF Core!MoneyOf
  <2>4. CASE i.target = {Threshold}
    <3>1. r.target_amount = {Threshold.amount} /\ r.target_currency = {Threshold.currency}
      BY <2>2, <2>4
    <3>2. \A m : m \in [amount : {Threshold.amount}, currency : {Threshold.currency}]
                   <=> m = Threshold
      BY DEF Threshold
    <3> QED
      BY <2>4, <3>1, <3>2 DEF Core!MoneyOf
  <2> QED
    BY <2>1, <2>3, <2>4
<1>6. r.owner = i.owner /\ r.url = i.url /\ r.active = TRUE /\ r.s_in_stock = {}
      /\ r.check_interval_seconds = i.interval \div Second
  BY <1>3, <1>4
<1>7. /\ x.owner = i.owner /\ x.url = i.url /\ x.active = TRUE /\ x.target = i.target
      /\ x.interval = Whole(i.interval) /\ x.last = {}
  BY <1>5, <1>6 DEF Core!ScanItem, Whole
<1> HIDE DEF x
<1>8. /\ y.owner = i.owner /\ y.url = i.url /\ y.active = TRUE /\ y.target = i.target
      /\ y.interval = (Whole(i.interval) \div Second) * Second /\ y.last = {}
  BY <1>7 DEF Core!OverTheWire, Core!ItemToProto, Core!ItemFromProto
<1> HIDE DEF y
<1>9. y.interval \div Second = i.interval \div Second
  <2>1. i.interval \in Nat
    BY DEF Form
  <2>2. Whole(i.interval) \div Second = i.interval \div Second
    BY <2>1, WholeFacts
  <2> QED
    BY <1>8, <2>2 DEF Whole
<1>10. Shown(y) = Shown(i)
  BY <1>8, <1>9 DEF Shown, Form
<1> QED
  BY <1>2, <1>6, <1>10 DEF y, x, r

Rows == {RowOf(i) : i \in Form}
RowsOf(its) == [n \in DOMAIN its |-> RowOf(its[n])]

\* The rows stand in the order of the items.
LEMMA RowsFacts ==
    ASSUME NEW its \in Seq(Form)
    PROVE  /\ RowsOf(its) \in Seq(Rows) /\ Len(RowsOf(its)) = Len(its)
           /\ \A n \in 1 .. Len(its) : /\ its[n] \in Form /\ its[n] \in ToSet(its)
                                       /\ RowsOf(its)[n] = RowOf(its[n])
                                       /\ RowsOf(its)[n] \in ToSet(RowsOf(its))
           /\ \A i \in ToSet(its) : \E n \in 1 .. Len(its) : i = its[n]
           /\ \A r \in ToSet(RowsOf(its)) : \E n \in 1 .. Len(its) : r = RowOf(its[n])
<1>1. Len(its) \in Nat /\ DOMAIN its = 1 .. Len(its) /\ \A n \in 1 .. Len(its) : its[n] \in Form
  OBVIOUS
<1>2. RowsOf(its) \in [1 .. Len(its) -> Rows]
  BY <1>1 DEF RowsOf, Rows
<1>3. RowsOf(its) \in Seq(Rows) /\ Len(RowsOf(its)) = Len(its)
  BY <1>1, <1>2
<1>4. DOMAIN RowsOf(its) = 1 .. Len(its)
      /\ \A n \in 1 .. Len(its) : RowsOf(its)[n] = RowOf(its[n])
  BY <1>1 DEF RowsOf
<1> QED
  BY <1>1, <1>3, <1>4 DEF ToSet

\* The tables of a memory store's contents.
LEMMA TableFacts ==
    \A s : Tables(s).currency = s.currency /\ Tables(s).rows = RowsOf(s.items)
           /\ Tables(s) = [currency |-> s.currency, rows |-> RowsOf(s.items)]
BY DEF Tables, RowsOf, RowOf

\* The rows of what passes a test are what passes the test of rows.
LEMMA PickedRows ==
    ASSUME NEW its \in Seq(Form), NEW S, NEW T,
           \A n \in 1 .. Len(its) : its[n] \in S <=> RowOf(its[n]) \in T
    PROVE  /\ Only(its, S) \in Seq(Form)
           /\ Only(RowsOf(its), T) = RowsOf(Only(its, S))
<1> DEFINE rows == RowsOf(its)
<1>1. /\ rows \in Seq(Rows) /\ Len(rows) = Len(its)
      /\ \A n \in 1 .. Len(its) : its[n] \in Form /\ rows[n] = RowOf(its[n])
  BY RowsFacts
<1> HIDE DEF rows
<1>2. PICK m \in Nat : \E I : /\ Picks(I, m, Len(its), its, S)
                              /\ Only(its, S) = [a \in 1 .. m |-> its[I[a]]]
                              /\ Only(rows, T) = [a \in 1 .. m |-> rows[I[a]]]
  <2>1. \A n \in 1 .. Len(its) : its[n] \in S <=> rows[n] \in T
    BY <1>1
  <2>2. Paired(its, S, rows, T)
    BY <1>1, <2>1, OnlyPair
  <2> QED
    BY <2>2, Zenon DEF Paired
<1>3. PICK I : /\ Picks(I, m, Len(its), its, S)
               /\ Only(its, S) = [a \in 1 .. m |-> its[I[a]]]
               /\ Only(rows, T) = [a \in 1 .. m |-> rows[I[a]]]
  BY <1>2, Zenon
<1>4. \A a \in 1 .. m : I[a] \in 1 .. Len(its)
  BY <1>3 DEF Picks
<1>5. Only(its, S) \in Seq(Form)
  BY <1>1, <1>3, <1>4
<1>6. Only(rows, T) = RowsOf(Only(its, S))
  BY <1>1, <1>3, <1>4 DEF RowsOf
<1> QED
  BY <1>5, <1>6 DEF rows

\* The user's items and rows.
LEMMA OwnedFacts ==
    ASSUME NEW s \in MemStores, NEW u
    PROVE  /\ Mem!Owned(s, u) \in Seq(Form)
           /\ Core!Owned(Tables(s), u) = RowsOf(Mem!Owned(s, u))
           /\ Only(RowsOf(s.items), {r \in ToSet(RowsOf(s.items)) : r.owner = u /\ r.active})
                = RowsOf(Mem!Owned(s, u))
<1> DEFINE its == s.items
           S == {i \in ToSet(its) : i.owner = u}
           T == {r \in ToSet(RowsOf(its)) : r.owner = u}
           A == {r \in ToSet(RowsOf(its)) : r.owner = u /\ r.active}
<1>1. its \in Seq(Form)
  BY StoreFacts
<1> HIDE DEF its
<1>2. ASSUME NEW n \in 1 .. Len(its)
      PROVE  (its[n] \in S <=> RowOf(its[n]) \in T) /\ (its[n] \in S <=> RowOf(its[n]) \in A)
  <2>1. /\ its[n] \in Form /\ its[n] \in ToSet(its)
        /\ RowsOf(its)[n] = RowOf(its[n])
        /\ RowsOf(its)[n] \in ToSet(RowsOf(its))
    BY <1>1, RowsFacts
  <2>2. RowOf(its[n]).owner = its[n].owner /\ RowOf(its[n]).active = TRUE
    BY <2>1, RowFacts
  <2> QED
    BY <2>1, <2>2
<1> HIDE DEF S, T, A
<1>3. Only(its, S) \in Seq(Form) /\ Only(RowsOf(its), T) = RowsOf(Only(its, S))
      /\ Only(RowsOf(its), A) = RowsOf(Only(its, S))
  BY <1>1, <1>2, PickedRows
<1>4. Mem!Owned(s, u) = Only(its, S)
  BY SameTools DEF Mem!Owned, its, S
<1>5. Core!Owned(Tables(s), u) = Only(RowsOf(its), T)
  BY TableFacts, SameTools DEF Core!Owned, its, T
<1> QED
  BY <1>3, <1>4, <1>5 DEF its, A

\* What the bot gets of rows is what it shows of the items.
LEMMA ShownRows ==
    ASSUME NEW its \in Seq(Form)
    PROVE  \A n \in 1 .. Len(its) :
              Shown(Core!OverTheWire(Core!ScanItem(RowsOf(its)[n]))) = Shown(its[n])
<1>1. ASSUME NEW n \in 1 .. Len(its)
      PROVE  its[n] \in Form /\ RowsOf(its)[n] = RowOf(its[n])
  BY RowsFacts
<1>2. ASSUME NEW i \in Form
      PROVE  Shown(Core!OverTheWire(Core!ScanItem(RowOf(i)))) = Shown(i)
  BY RowFacts
<1> QED
  BY <1>1, <1>2

\* The item an id names, and its row.
LEMMA Located ==
    ASSUME NEW s \in MemStores, NEW u, NEW id
    PROVE  /\ \A x, y \in Mem!Found(s, u, id) : x = y
           /\ \A x \in Mem!Found(s, u, id) :
                 x \in Form /\ RowOf(x) \in Core!Matching(Tables(s), u, id)
           /\ \A r \in Core!Matching(Tables(s), u, id) :
                 \E x \in Mem!Found(s, u, id) : r = RowOf(x)
           /\ \A n \in 1 .. Len(s.items) :
                 /\ s.items[n] \in Mem!Found(s, u, id)
                       <=> RowOf(s.items[n]) \in Core!Matching(Tables(s), u, id)
                 /\ s.items[n] \in Mem!Found(s, u, id)
                       <=> Mem!Id(s.items[n]) = id /\ s.items[n].owner = u
<1> DEFINE its == s.items
           found == Mem!Found(s, u, id)
           match == Core!Matching(Tables(s), u, id)
<1>1. its \in Seq(Form) /\ \A n, m \in 1 .. Len(its) : Mem!Id(its[n]) = Mem!Id(its[m]) => n = m
  BY StoreFacts
<1>2. found = {i \in ToSet(its) : Mem!Id(i) = id /\ i.owner = u}
  BY SameTools DEF Mem!Found
<1>3. match = {r \in ToSet(RowsOf(its)) : <<r.owner, r.url>> = id /\ r.owner = u}
  BY TableFacts, SameTools DEF Core!Matching
<1> HIDE DEF its, found, match
<1>4. /\ \A n \in 1 .. Len(its) : /\ its[n] \in Form /\ its[n] \in ToSet(its)
                                  /\ RowsOf(its)[n] = RowOf(its[n])
                                  /\ RowsOf(its)[n] \in ToSet(RowsOf(its))
      /\ \A i \in ToSet(its) : \E n \in 1 .. Len(its) : i = its[n]
      /\ \A r \in ToSet(RowsOf(its)) : \E n \in 1 .. Len(its) : r = RowOf(its[n])
  BY <1>1, RowsFacts
<1>5. \A n \in 1 .. Len(its) : /\ RowOf(its[n]).owner = its[n].owner
                               /\ <<RowOf(its[n]).owner, RowOf(its[n]).url>> = Mem!Id(its[n])
  <2>1. \A i \in Form : RowOf(i).owner = i.owner /\ RowOf(i).url = i.url
    BY RowFacts
  <2> QED
    BY <1>4, <2>1 DEF Mem!Id
<1>6. \A n \in 1 .. Len(its) :
         /\ its[n] \in found <=> Mem!Id(its[n]) = id /\ its[n].owner = u
         /\ RowOf(its[n]) \in match <=> Mem!Id(its[n]) = id /\ its[n].owner = u
  BY <1>2, <1>3, <1>4, <1>5
<1>7. \A x, y \in found : x = y
  <2>1. ASSUME NEW x \in found, NEW y \in found PROVE x = y
    <3>1. PICK n \in 1 .. Len(its) : x = its[n]
      BY <1>2, <1>4
    <3>2. PICK m \in 1 .. Len(its) : y = its[m]
      BY <1>2, <1>4
    <3>3. Mem!Id(its[n]) = id /\ Mem!Id(its[m]) = id
      BY <1>6, <3>1, <3>2
    <3> QED
      BY <1>1, <3>1, <3>2, <3>3
  <2> QED
    BY <2>1
<1>8. \A x \in found : x \in Form /\ RowOf(x) \in match
  BY <1>2, <1>4, <1>6
<1>9. \A r \in match : \E x \in found : r = RowOf(x)
  BY <1>3, <1>4, <1>6
<1> QED
  BY <1>6, <1>7, <1>8, <1>9 DEF its, found, match

-----------------------------------------------------------------------------
\* The calls.

Known == {"none", "not found", "already exists", "validation", "limit reached"}

\* What a method of the memory store returns.
LEMMA MemAnswer ==
    ASSUME NEW s, NEW err, NEW after, NEW value
    PROVE  Mem!Result(s, err, after, value)
             = IF err = "none" THEN [store |-> after, err |-> err, value |-> value]
               ELSE [store |-> s, err |-> err, value |-> <<>>]
BY DEF Mem!Result

\* What the bot gets of rows.
Received(rows) == [n \in DOMAIN rows |-> Core!OverTheWire(Core!ScanItem(rows[n]))]

\* What a method behind gRPC returns.
LEMMA CoreAnswer ==
    ASSUME NEW db, NEW err \in Known, NEW after, NEW rows
    PROVE  Core!Reply(db, err, after, rows)
             = IF err = "none" THEN [store |-> after, err |-> err, value |-> Received(rows)]
               ELSE [store |-> db, err |-> err, value |-> <<>>]
<1>1. Core!FromStatus(Core!ToStatus(err)) = err
  BY SentinelsTravel DEF Known
<1> QED
  BY <1>1 DEF Core!Reply, Core!Result, Received

\* A call with the same refusal, the same change and the same items in its answer.
LEMMA SameCall ==
    ASSUME NEW s, NEW err \in Known, NEW after, NEW value, NEW db, NEW rows
    PROVE  LET m == Mem!Result(s, err, after, value)
               r == Core!Reply(Tables(s), err, db, rows)
           IN  /\ (err = "none" => Tables(after) = db) => Same(m, r)
               /\ /\ err = "none" => Tables(after) = db
                  /\ DOMAIN value = DOMAIN rows
                  /\ \A n \in DOMAIN rows :
                        Shown(Core!OverTheWire(Core!ScanItem(rows[n]))) = Shown(value[n])
                  => SameItems(m, r)
<1> DEFINE m == Mem!Result(s, err, after, value)
           r == Core!Reply(Tables(s), err, db, rows)
<1>1. CASE err = "none"
  <2>1. m.store = after /\ m.err = err /\ m.value = value
    BY <1>1, MemAnswer
  <2>2. r.store = db /\ r.err = err /\ r.value = Received(rows)
    BY <1>1, CoreAnswer
  <2> HIDE DEF m, r
  <2>3. Tables(after) = db => Same(m, r)
    BY <2>1, <2>2 DEF Same
  <2>4. ASSUME DOMAIN value = DOMAIN rows,
               \A n \in DOMAIN rows :
                  Shown(Core!OverTheWire(Core!ScanItem(rows[n]))) = Shown(value[n])
        PROVE  Items(m) = Items(r)
    <3>1. /\ DOMAIN r.value = DOMAIN rows
          /\ \A n \in DOMAIN rows : r.value[n] = Core!OverTheWire(Core!ScanItem(rows[n]))
      BY <2>2 DEF Received
    <3> QED
      BY <2>1, <2>4, <3>1 DEF Items
  <2> QED
    BY <1>1, <2>3, <2>4 DEF SameItems, m, r
<1>2. CASE err # "none"
  <2>1. m.store = s /\ m.err = err /\ m.value = <<>>
    BY <1>2, MemAnswer
  <2>2. r.store = Tables(s) /\ r.err = err /\ r.value = <<>>
    BY <1>2, CoreAnswer
  <2> HIDE DEF m, r
  <2>3. Same(m, r)
    BY <2>1, <2>2 DEF Same
  <2>4. Items(m) = Items(r)
    BY <2>1, <2>2 DEF Items
  <2> QED
    BY <2>3, <2>4 DEF SameItems, m, r
<1> QED
  BY <1>1, <1>2

\* Contents after a call.
LEMMA TablesAfter ==
    ASSUME NEW s \in MemStores, NEW c, NEW its
    PROVE  /\ Tables([s EXCEPT !.currency = c]) = [Tables(s) EXCEPT !.currency = c]
           /\ Tables([s EXCEPT !.items = its]) = [Tables(s) EXCEPT !.rows = RowsOf(its)]
<1>1. s = [currency |-> s.currency, items |-> s.items]
  BY StoreFacts
<1>2. /\ [s EXCEPT !.currency = c] = [currency |-> c, items |-> s.items]
      /\ [s EXCEPT !.items = its] = [currency |-> s.currency, items |-> its]
  BY <1>1
<1>3. /\ Tables([currency |-> c, items |-> s.items]) = [currency |-> c, rows |-> RowsOf(s.items)]
      /\ Tables([currency |-> s.currency, items |-> its])
           = [currency |-> s.currency, rows |-> RowsOf(its)]
  BY DEF Tables, RowsOf, RowOf
<1>4. Tables(s) = [currency |-> s.currency, rows |-> RowsOf(s.items)]
  BY TableFacts
<1> QED
  BY <1>2, <1>3, <1>4

\* EnsureUser and SetDefaultCurrency.
LEMMA UsersAgree ==
    ASSUME NEW s \in MemStores, NEW u \in Accounts
    PROVE  SameUsers(s, u)
<1> DEFINE seen == IF u \in DOMAIN s.currency THEN s.currency
                   ELSE Mem!With(s.currency, u, DefaultCurrency)
<1>1. Core!Upserted(Tables(s), u) = seen
  BY TableFacts, SameTools DEF Core!Upserted
<1>2. /\ [s EXCEPT !.currency = seen].currency = seen
      /\ [Tables(s) EXCEPT !.currency = seen].currency = seen
  BY StoreFacts, TableFacts
<1>3. Tables([s EXCEPT !.currency = seen]) = [Tables(s) EXCEPT !.currency = seen]
  BY TablesAfter
<1> DEFINE m == Mem!EnsureUser(s, u)
           r == Core!EnsureUser(Tables(s), u)
<1>4. /\ m.store = [s EXCEPT !.currency = seen] /\ m.err = "none"
      /\ m.value = <<[user |-> u, currency |-> seen[u]]>>
  BY <1>2 DEF Mem!EnsureUser, Mem!Result
<1>5. /\ r.store = [Tables(s) EXCEPT !.currency = seen] /\ r.err = "none"
      /\ r.value = <<[user |-> u, currency |-> seen[u]]>>
  BY <1>1, <1>2 DEF Core!EnsureUser, Core!Result
<1>6. ASSUME NEW c \in Currencies
      PROVE  Same(Mem!SetDefaultCurrency(s, u, c), Core!SetDefaultCurrency(Tables(s), u, c))
  <2> DEFINE err == Mem!Refusal(<<Mem!Check(c \notin Currencies, "validation"),
                                  Mem!Check(u \notin DOMAIN s.currency, "not found")>>)
             after == Mem!With(s.currency, u, c)
  <2>1. err = IF c \notin Currencies THEN "validation"
              ELSE IF u \notin DOMAIN s.currency THEN "not found" ELSE "none"
    <3>1. OutOfTwo(c \notin Currencies, "validation", u \notin DOMAIN s.currency, "not found")
            = IF c \notin Currencies THEN "validation"
              ELSE IF u \notin DOMAIN s.currency THEN "not found" ELSE "none"
      BY RefusalOfTwo
    <3> QED
      BY <3>1, Zenon DEF OutOfTwo
  <2>2. err \in Known
    BY <2>1 DEF Known
  <2>3. Mem!SetDefaultCurrency(s, u, c)
          = Mem!Result(s, err, [s EXCEPT !.currency = after], <<>>)
    BY Zenon DEF Mem!SetDefaultCurrency
  <2>4. Core!Refusal(<<Core!Check(c \notin Currencies, "validation"),
                       Core!Check(u \notin DOMAIN Tables(s).currency, "not found")>>) = err
    <3>1. DOMAIN Tables(s).currency = DOMAIN s.currency
      BY TableFacts
    <3> QED
      BY <3>1, SameRefusal, SameCheck, Zenon
  <2>5. Core!With(Tables(s).currency, u, c) = after
    BY TableFacts, SameTools, Zenon
  <2>6. Core!SetDefaultCurrency(Tables(s), u, c)
          = Core!Reply(Tables(s), err, [Tables(s) EXCEPT !.currency = after], <<>>)
    BY <2>4, <2>5, Zenon DEF Core!SetDefaultCurrency
  <2>7. Tables([s EXCEPT !.currency = after]) = [Tables(s) EXCEPT !.currency = after]
    BY TablesAfter
  <2> HIDE DEF err, after
  <2> QED
    BY <2>2, <2>3, <2>6, <2>7, SameCall
<1> HIDE DEF m, r, seen
<1>7. Same(m, r) /\ m.value = r.value
  BY <1>3, <1>4, <1>5 DEF Same
<1> QED
  BY <1>6, <1>7 DEF SameUsers, m, r

\* Rows in the order of items show them.
LEMMA ReadsAgree ==
    ASSUME NEW s \in MemStores, NEW u
    PROVE  SameReads(s, u)
<1>1. SameItems(Mem!ListItems(s, u), Core!ListItems(Tables(s), u))
  <2> DEFINE o == Mem!Owned(s, u)
             value == Reverse(o)
             rows == Reverse(RowsOf(o))
  <2>1. o \in Seq(Form)
    BY OwnedFacts
  <2>2. Mem!ListItems(s, u) = Mem!Result(s, "none", s, value)
    BY SameTools, Zenon DEF Mem!ListItems
  <2>3. Core!ListItems(Tables(s), u) = Core!Reply(Tables(s), "none", Tables(s), rows)
    <3>1. Core!Only(Tables(s).rows, {r \in Core!ToSet(Tables(s).rows) : r.owner = u /\ r.active})
            = RowsOf(o)
      BY OwnedFacts, TableFacts, SameTools
    <3>2. Core!NewestFirst(RowsOf(o)) = rows
      BY SameTools, Zenon DEF Core!NewestFirst
    <3> QED
      BY <3>1, <3>2, Zenon DEF Core!ListItems
  <2> HIDE DEF o
  <2>4. /\ Len(RowsOf(o)) = Len(o) /\ Len(o) \in Nat
        /\ \A n \in 1 .. Len(o) :
              Shown(Core!OverTheWire(Core!ScanItem(RowsOf(o)[n]))) = Shown(o[n])
    BY <2>1, RowsFacts, ShownRows
  <2>5. /\ DOMAIN value = 1 .. Len(o) /\ DOMAIN rows = 1 .. Len(o)
        /\ \A n \in 1 .. Len(o) : /\ value[n] = o[Len(o) - n + 1]
                                  /\ rows[n] = RowsOf(o)[Len(o) - n + 1]
                                  /\ Len(o) - n + 1 \in 1 .. Len(o)
    BY <2>4 DEF Reverse
  <2> HIDE DEF value, rows
  <2>6. \A n \in DOMAIN rows :
           Shown(Core!OverTheWire(Core!ScanItem(rows[n]))) = Shown(value[n])
    BY <2>4, <2>5
  <2>7. "none" \in Known
    BY DEF Known
  <2> QED
    BY <2>2, <2>3, <2>5, <2>6, <2>7, SameCall
<1>2. ASSUME NEW id \in Ids
      PROVE  SameItems(Mem!GetItem(s, u, id), Core!GetItem(Tables(s), u, id))
  <2> DEFINE found == Mem!Found(s, u, id)
             match == Core!Matching(Tables(s), u, id)
             err == Mem!Refusal(<<Mem!Check(found = {}, "not found")>>)
             value == SetToSeq(found)
             rows == SetToSeq(match)
  <2>1. err = IF found = {} THEN "not found" ELSE "none"
    <3>1. OutOfOne(found = {}, "not found") = IF found = {} THEN "not found" ELSE "none"
      BY RefusalOfOne
    <3> QED
      BY <3>1, Zenon DEF OutOfOne
  <2>2. err \in Known
    BY <2>1 DEF Known
  <2>3. /\ \A x, y \in found : x = y
        /\ \A x \in found : x \in Form /\ RowOf(x) \in match
        /\ \A r \in match : \E x \in found : r = RowOf(x)
    BY Located
  <2>4. (match = {}) <=> (found = {})
    BY <2>3
  <2>5. Mem!GetItem(s, u, id) = Mem!Result(s, err, s, value)
    BY SameTools, Zenon DEF Mem!GetItem
  <2>6. Core!GetItem(Tables(s), u, id) = Core!Reply(Tables(s), err, Tables(s), rows)
    <3>1. Core!Refusal(<<Core!Check(match = {}, "not found")>>) = err
      BY <2>4, SameRefusal, SameCheck, Zenon
    <3> QED
      BY <3>1, SameTools, Zenon DEF Core!GetItem
  <2> HIDE DEF found, match, err
  <2>7. /\ DOMAIN value = DOMAIN rows
        /\ \A n \in DOMAIN rows :
              Shown(Core!OverTheWire(Core!ScanItem(rows[n]))) = Shown(value[n])
    <3>1. CASE found = {}
      <4>1. value = <<>> /\ rows = <<>>
        BY <2>3, <2>4, <3>1, SeqOfOption
      <4> QED
        BY <4>1
    <3>2. CASE found # {}
      <4>1. PICK x : x \in found
        BY <3>2
      <4>2. x \in Form /\ RowOf(x) \in match /\ \A r, q \in match : r = q
        BY <2>3, <4>1
      <4>3. value = <<x>> /\ rows = <<RowOf(x)>>
        BY <2>3, <4>1, <4>2, SeqOfOption
      <4>4. Shown(Core!OverTheWire(Core!ScanItem(RowOf(x)))) = Shown(x)
        BY <4>2, RowFacts
      <4>5. DOMAIN value = {1} /\ DOMAIN rows = {1} /\ value[1] = x /\ rows[1] = RowOf(x)
        BY <4>3
      <4> HIDE DEF value, rows
      <4> QED
        BY <4>4, <4>5
    <3> QED
      BY <3>1, <3>2
  <2> HIDE DEF value, rows
  <2> QED
    BY <2>2, <2>5, <2>6, <2>7, SameCall
<1> QED
  BY <1>1, <1>2, Zenon DEF SameReads

\* What an item's owner asks of it is refused when no item has the id.
LEMMA NotFound ==
    ASSUME NEW s \in MemStores, NEW u, NEW id
    PROVE  LET err == Mem!Refusal(<<Mem!Check(Mem!Found(s, u, id) = {}, "not found")>>)
           IN  /\ err = IF Mem!Found(s, u, id) = {} THEN "not found" ELSE "none"
               /\ Core!Refusal(<<Core!Check(Core!Matching(Tables(s), u, id) = {}, "not found")>>)
                    = err
<1> DEFINE found == Mem!Found(s, u, id)
           match == Core!Matching(Tables(s), u, id)
<1>1. OutOfOne(found = {}, "not found") = IF found = {} THEN "not found" ELSE "none"
  BY RefusalOfOne
<1>2. (match = {}) <=> (found = {})
  <2>1. /\ \A x \in found : RowOf(x) \in match
        /\ \A r \in match : \E x \in found : r = RowOf(x)
    BY Located
  <2> QED
    BY <2>1
<1>3. Core!Refusal(<<Core!Check(match = {}, "not found")>>)
        = Mem!Refusal(<<Mem!Check(found = {}, "not found")>>)
  BY <1>2, SameRefusal, SameCheck, Zenon
<1> QED
  BY <1>1, <1>3, Zenon DEF OutOfOne

\* RemoveItem.
LEMMA RemovalsAgree ==
    ASSUME NEW s \in MemStores, NEW u, NEW id
    PROVE  Same(Mem!RemoveItem(s, u, id), Core!RemoveItem(Tables(s), u, id))
<1> DEFINE found == Mem!Found(s, u, id)
           match == Core!Matching(Tables(s), u, id)
           err == Mem!Refusal(<<Mem!Check(found = {}, "not found")>>)
           its == s.items
           S == {i \in ToSet(its) : Mem!Id(i) # id}
           T == ToSet(RowsOf(its)) \ match
           after == [s EXCEPT !.items = Only(its, S)]
           db == [Tables(s) EXCEPT !.rows = Only(RowsOf(its), T)]
<1>1. err = IF found = {} THEN "not found" ELSE "none"
  BY NotFound, Zenon
<1>2. err \in Known
  BY <1>1 DEF Known
<1>3. Mem!RemoveItem(s, u, id) = Mem!Result(s, err, after, <<>>)
  BY SameTools, Zenon DEF Mem!RemoveItem
<1>4. Core!RemoveItem(Tables(s), u, id) = Core!Reply(Tables(s), err, db, <<>>)
  <2>1. Core!Refusal(<<Core!Check(match = {}, "not found")>>) = err
    BY NotFound, Zenon
  <2>2. Core!Deleted(Tables(s), u, id) = Only(RowsOf(its), T)
    BY SameTools, TableFacts, Zenon DEF Core!Deleted
  <2> QED
    BY <2>1, <2>2, Zenon DEF Core!RemoveItem
<1>5. ASSUME err = "none" PROVE Tables(after) = db
  <2>1. PICK x : x \in found
    BY <1>1, <1>5
  <2>2. its \in Seq(Form)
    BY StoreFacts
  <2>3. PICK k \in 1 .. Len(its) : Mem!Id(its[k]) = id /\ its[k].owner = u
    <3>1. found = {i \in ToSet(its) : Mem!Id(i) = id /\ i.owner = u}
      BY SameTools DEF Mem!Found
    <3>2. \A i \in ToSet(its) : \E n \in 1 .. Len(its) : i = its[n]
      BY <2>2, RowsFacts
    <3> QED
      BY <2>1, <3>1, <3>2
  <2>4. ASSUME NEW n \in 1 .. Len(its)
        PROVE  its[n] \in S <=> RowOf(its[n]) \in T
    <3>1. /\ its[n] \in ToSet(its) /\ RowOf(its[n]) \in ToSet(RowsOf(its))
      BY <2>2, RowsFacts
    <3>2. RowOf(its[n]) \in match <=> Mem!Id(its[n]) = id /\ its[n].owner = u
      BY Located
    <3>3. Mem!Id(its[n]) = id => its[n].owner = u
      BY <2>3 DEF Mem!Id
    <3> QED
      BY <3>1, <3>2, <3>3
  <2> HIDE DEF S, T, its
  <2>5. Only(RowsOf(its), T) = RowsOf(Only(its, S))
    BY <2>2, <2>4, PickedRows
  <2>6. Tables(after) = [Tables(s) EXCEPT !.rows = RowsOf(Only(its, S))]
    BY TablesAfter
  <2> QED
    BY <2>5, <2>6, Zenon
<1> HIDE DEF err, after, db
<1> QED
  BY <1>2, <1>3, <1>4, <1>5, SameCall

FullRow(owner, url, amounts, codes, seconds) ==
    [owner |-> owner, url |-> url, title |-> "",
     target_amount |-> amounts, target_currency |-> codes,
     check_interval_seconds |-> seconds, active |-> TRUE,
     s_amount |-> {}, s_currency |-> {}, s_converted_amount |-> {},
     s_converted_currency |-> {}, s_in_stock |-> {}]

\* UpdateTrackedItem changes one column.
LEMMA FullRowChanged ==
    ASSUME NEW o, NEW l, NEW a, NEW c, NEW x, NEW y
    PROVE  [FullRow(o, l, a, c, x) EXCEPT !.check_interval_seconds = y] = FullRow(o, l, a, c, y)
<1> DEFINE r == FullRow(o, l, a, c, x)
           p == FullRow(o, l, a, c, y)
           q == [r EXCEPT !.check_interval_seconds = y]
<1>1. DOMAIN r = {"owner", "url", "title", "target_amount", "target_currency",
                  "check_interval_seconds", "active", "s_amount", "s_currency",
                  "s_converted_amount", "s_converted_currency", "s_in_stock"}
  BY DEF FullRow
<1>2. /\ p.owner = r.owner /\ p.url = r.url /\ p.title = r.title
      /\ p.target_amount = r.target_amount /\ p.target_currency = r.target_currency
      /\ p.active = r.active /\ p.s_amount = r.s_amount /\ p.s_currency = r.s_currency
      /\ p.s_converted_amount = r.s_converted_amount
      /\ p.s_converted_currency = r.s_converted_currency /\ p.s_in_stock = r.s_in_stock
      /\ p.check_interval_seconds = y
  BY DEF FullRow
<1>3. p = [f \in DOMAIN r |-> p[f]]
  BY DEF FullRow
<1>4. q = [f \in DOMAIN r |-> IF f = "check_interval_seconds" THEN y ELSE r[f]]
  OBVIOUS
<1> HIDE DEF p, q, r
<1>5. ASSUME NEW f \in DOMAIN r
      PROVE  (IF f = "check_interval_seconds" THEN y ELSE r[f]) = p[f]
  BY <1>1, <1>2
<1>6. q = [f \in DOMAIN r |-> p[f]]
  BY <1>4, <1>5
<1>7. q = p
  BY <1>3, <1>6, Zenon
<1> QED
  BY <1>7, Zenon DEF p, q, r

\* A new interval of an item is one of its row.
LEMMA RowChanged ==
    ASSUME NEW i \in Form, NEW v \in Nat
    PROVE  RowOf([i EXCEPT !.interval = v])
             = [RowOf(i) EXCEPT !.check_interval_seconds = v \div Second]
<1> DEFINE j == [i EXCEPT !.interval = v]
           row(secs) == FullRow(i.owner, i.url, {m.amount : m \in i.target},
                                {m.currency : m \in i.target}, secs)
<1>1. j \in Form /\ j.owner = i.owner /\ j.url = i.url /\ j.target = i.target /\ j.interval = v
  BY DEF Form
<1> HIDE DEF j
<1>2. RowOf(j) = row(v \div Second)
  BY <1>1, RowFacts DEF FullRow
<1>3. RowOf(i) = row(i.interval \div Second)
  BY RowFacts DEF FullRow
<1>4. [row(i.interval \div Second) EXCEPT !.check_interval_seconds = v \div Second]
        = row(v \div Second)
  BY FullRowChanged
<1> HIDE DEF row
<1> QED
  BY <1>2, <1>3, <1>4 DEF j

\* SetInterval.
LEMMA IntervalsAgree ==
    ASSUME NEW s \in MemStores, NEW u, NEW id, NEW d \in Asked
    PROVE  Same(Mem!SetInterval(s, u, id, d), Core!SetInterval(Tables(s), u, id, d))
<1> DEFINE found == Mem!Found(s, u, id)
           match == Core!Matching(Tables(s), u, id)
           err == Mem!Refusal(<<Mem!Check(~Mem!ValidInterval(d), "validation"),
                                Mem!Check(found = {}, "not found")>>)
           its == s.items
           rows == RowsOf(its)
           v == Mem!IntervalOf(d)
           w == Core!IntervalOf(Whole(d)) \div Second
           new == [n \in DOMAIN its |->
                     IF Mem!Id(its[n]) = id THEN [its[n] EXCEPT !.interval = v] ELSE its[n]]
           set == [n \in DOMAIN rows |->
                     IF rows[n] \in match THEN [rows[n] EXCEPT !.check_interval_seconds = w]
                     ELSE rows[n]]
           after == [s EXCEPT !.items = new]
           db == [Tables(s) EXCEPT !.rows = set]
<1>1. err = IF ~Mem!ValidInterval(d) THEN "validation"
            ELSE IF found = {} THEN "not found" ELSE "none"
  <2>1. OutOfTwo(~Mem!ValidInterval(d), "validation", found = {}, "not found")
          = IF ~Mem!ValidInterval(d) THEN "validation"
            ELSE IF found = {} THEN "not found" ELSE "none"
    BY RefusalOfTwo
  <2> QED
    BY <2>1, Zenon DEF OutOfTwo
<1>2. err \in Known
  BY <1>1 DEF Known
<1>3. Mem!SetInterval(s, u, id, d) = Mem!Result(s, err, after, <<>>)
  BY SameTools, Zenon DEF Mem!SetInterval
<1>4. /\ d \in Nat /\ (Core!ValidInterval(Whole(d)) <=> Mem!ValidInterval(d))
      /\ w = v \div Second /\ v \in Nat
  BY IntervalFacts DEF Tried
<1>5. Core!SetInterval(Tables(s), u, id, d) = Core!Reply(Tables(s), err, db, <<>>)
  <2>1. (match = {}) <=> (found = {})
    <3>1. /\ \A x \in found : RowOf(x) \in match
          /\ \A r \in match : \E x \in found : r = RowOf(x)
      BY Located
    <3> QED
      BY <3>1
  <2>2. Core!Refusal(<<Core!Check(~Core!ValidInterval(Whole(d)), "validation"),
                       Core!Check(match = {}, "not found")>>) = err
    BY <1>4, <2>1, SameRefusal, SameCheck, Zenon
  <2>3. Tables(s).rows = rows
    BY TableFacts
  <2> QED
    BY <2>2, <2>3, Zenon DEF Core!SetInterval, Whole
<1>6. ASSUME err = "none" PROVE Tables(after) = db
  <2>1. PICK x : x \in found
    BY <1>1, <1>6
  <2>2. its \in Seq(Form)
    BY StoreFacts
  <2>3. PICK k \in 1 .. Len(its) : Mem!Id(its[k]) = id /\ its[k].owner = u
    <3>1. found = {i \in ToSet(its) : Mem!Id(i) = id /\ i.owner = u}
      BY SameTools DEF Mem!Found
    <3>2. \A i \in ToSet(its) : \E n \in 1 .. Len(its) : i = its[n]
      BY <2>2, RowsFacts
    <3> QED
      BY <2>1, <3>1, <3>2
  <2>4. /\ DOMAIN its = 1 .. Len(its) /\ DOMAIN rows = 1 .. Len(its)
        /\ \A n \in 1 .. Len(its) : its[n] \in Form /\ rows[n] = RowOf(its[n])
    BY <2>2, RowsFacts
  <2>5. ASSUME NEW n \in 1 .. Len(its)
        PROVE  set[n] = RowOf(new[n])
    <3>1. RowOf(its[n]) \in match <=> Mem!Id(its[n]) = id
      <4>1. RowOf(its[n]) \in match <=> Mem!Id(its[n]) = id /\ its[n].owner = u
        BY Located
      <4>2. Mem!Id(its[n]) = id => its[n].owner = u
        BY <2>3 DEF Mem!Id
      <4> QED
        BY <4>1, <4>2
    <3>2. CASE Mem!Id(its[n]) = id
      <4>1. /\ new[n] = [its[n] EXCEPT !.interval = v]
            /\ set[n] = [RowOf(its[n]) EXCEPT !.check_interval_seconds = w]
        BY <2>4, <3>1, <3>2
      <4> HIDE DEF new, set, its
      <4> QED
        BY <1>4, <2>4, <4>1, RowChanged
    <3>3. CASE Mem!Id(its[n]) # id
      BY <2>4, <3>1, <3>3
    <3> QED
      BY <3>2, <3>3
  <2>6. set = RowsOf(new)
    <3>1. DOMAIN set = 1 .. Len(its) /\ DOMAIN new = 1 .. Len(its)
          /\ set = [n \in 1 .. Len(its) |-> set[n]]
      BY <2>4
    <3> HIDE DEF set, new
    <3> QED
      BY <2>5, <3>1 DEF RowsOf
  <2> HIDE DEF set, new
  <2> QED
    BY <2>6, TablesAfter
<1> HIDE DEF err, after, db
<1> QED
  BY <1>2, <1>3, <1>5, <1>6, SameCall

\* A user owns no more items than the limit.
LEMMA OwnedLimit ==
    ASSUME NEW s \in MemStores, NEW u \in Accounts
    PROVE  Len(Mem!Owned(s, u)) <= StoreLimit
<1> DEFINE mine(ids, n) == {k \in 1 .. n : ids[k][1] = u}
           kept(n) == {ids \in [1 .. n -> Ids] :
                          /\ IsInjective(ids)
                          /\ \A w \in Accounts :
                                Cardinality({k \in 1 .. n : ids[k][1] = w}) <= StoreLimit}
           filled(ids) == [k \in DOMAIN ids |-> MemItem(ids[k], IF k = 2 THEN Plain ELSE Filled)]
           its == s.items
           S == {i \in ToSet(its) : i.owner = u}
<1>1. its \in {filled(ids) : ids \in UNION {kept(n) : n \in 0 .. MaxHeld}}
  BY DEF MemStores, Contents
<1>2. its \in Seq(Form)
  BY StoreFacts
<1>3. Mem!Owned(s, u) = Only(its, S)
  BY SameTools DEF Mem!Owned
<1> HIDE DEF its
<1>4. PICK n \in 0 .. MaxHeld : \E ids \in kept(n) : its = filled(ids)
  <2> HIDE DEF filled, kept
  <2> QED
    BY <1>1
<1>5. PICK ids \in kept(n) : its = filled(ids)
  BY <1>4, Zenon
<1>6. ids \in [1 .. n -> Ids] /\ Cardinality(mine(ids, n)) <= StoreLimit
  BY <1>5
<1>7. /\ DOMAIN its = 1 .. n
      /\ \A k \in 1 .. n : its[k].owner = ids[k][1]
  BY <1>5, <1>6 DEF MemItem
<1>8. Len(its) = n
  BY <1>2, <1>7
<1> HIDE DEF S
<1>9. PICK m \in Nat : \E I : Picks(I, m, n, its, S) /\ Only(its, S) = [a \in 1 .. m |-> its[I[a]]]
  BY <1>2, <1>8, OnlyFacts
<1>10. PICK I : Picks(I, m, n, its, S) /\ Only(its, S) = [a \in 1 .. m |-> its[I[a]]]
  BY <1>9, Zenon
<1>11. Len(Only(its, S)) = m
  <2>1. \A a \in 1 .. m : its[I[a]] \in Form
    BY <1>2, <1>8, <1>10 DEF Picks
  <2>2. Only(its, S) \in [1 .. m -> Form]
    BY <1>10, <2>1
  <2> QED
    BY <2>2
<1> DEFINE J == [a \in 1 .. m |-> I[a]]
           C == mine(ids, n)
<1>12. \A a \in 1 .. m : I[a] \in C
  BY <1>7, <1>10 DEF Picks, S
<1>13. \A a, b \in 1 .. m : I[a] = I[b] => a = b
  <2>1. \A a, b \in 1 .. m : a < b => I[a] < I[b]
    BY <1>10 DEF Picks
  <2>2. \A a \in 1 .. m : I[a] \in Int
    BY <1>12
  <2> QED
    BY <2>1, <2>2
<1>14. IsFiniteSet(C)
  <2>1. IsFiniteSet(1 .. n)
    BY FS_Interval
  <2> QED
    BY <2>1, FS_Subset
<1> HIDE DEF C
<1>15. J \in Injection(1 .. m, C)
  BY <1>12, <1>13 DEF Injection, IsInjective
<1> HIDE DEF J
<1>16. Cardinality(1 .. m) <= Cardinality(C) /\ Cardinality(1 .. m) = m
  BY <1>14, <1>15, FS_Injection, FS_Interval
<1>17. Cardinality(C) \in Nat
  BY <1>14, FS_CardinalityType
<1> QED
  BY <1>3, <1>6, <1>11, <1>16, <1>17, HeldAssumption DEF C

\* A new item and its row.
NewItem(u, url, f) ==
    [owner |-> u, url |-> url, title |-> "host", target |-> f.target,
     interval |-> Mem!IntervalOf(f.interval), active |-> TRUE, last |-> {}]
NewRow(u, url, f) ==
    Core!Row([owner |-> u, url |-> url, title |-> "", target |-> f.target,
              interval |-> Core!IntervalOf(Whole(f.interval)), active |-> TRUE, last |-> {}])

\* A new item passes the checks of both stores but the limit and the duplicate, and its
\* row is the row of the item.
LEMMA AddedFacts ==
    ASSUME NEW u \in Accounts, NEW url \in Links, NEW f \in {Plain, Filled}
    PROVE  /\ f.interval \in Tried /\ Mem!ValidInterval(f.interval)
           /\ \A p \in f.target : ~Core!Invalid(p)
           /\ NewItem(u, url, f) \in Form
           /\ NewRow(u, url, f) = RowOf(NewItem(u, url, f))
<1>1. /\ Second \in Nat /\ MinCheckInterval \in Nat /\ MinCheckInterval > 0
      /\ MaxCheckInterval \in Nat /\ MinCheckInterval < MaxCheckInterval
  BY IntervalAssumption
<1>2. f.target \in {{}, {Threshold}} /\ f.interval \in {MinCheckInterval, MaxCheckInterval - 1}
  BY DEF Plain, Filled
<1>3. f.interval \in Tried /\ f.interval \in Nat /\ f.interval # 0
      /\ f.interval \in MinCheckInterval .. MaxCheckInterval
  BY <1>1, <1>2 DEF Tried
<1>4. Mem!ValidInterval(f.interval)
  BY <1>3 DEF Mem!ValidInterval, Mem!IntervalOf
<1>5. ~Core!Invalid(Threshold)
  BY DefaultAssumption DEF Core!Invalid, Threshold
<1>6. \A p \in f.target : ~Core!Invalid(p)
  BY <1>2, <1>5
<1> DEFINE v == Mem!IntervalOf(f.interval)
           w == Core!IntervalOf(Whole(f.interval))
<1>7. v \in Nat /\ w \in Nat /\ v \div Second = w \div Second
  BY <1>3, IntervalFacts
<1> HIDE DEF v, w
<1>8. NewItem(u, url, f) \in Form 
  BY <1>2, <1>7 DEF NewItem, Form, v
<1>9. NewRow(u, url, f) = FullRow(u, url, {m.amount : m \in f.target},
                              {m.currency : m \in f.target}, w \div Second)
  <2> DEFINE c == [owner |-> u, url |-> url, title |-> "", target |-> f.target,
                   interval |-> w, active |-> TRUE, last |-> {}]
  <2>1. NewRow(u, url, f) = Core!Row(c)
    BY Zenon DEF NewRow, w
  <2>2. /\ c.owner = u /\ c.url = url /\ c.title = "" /\ c.target = f.target
        /\ c.interval = w /\ c.active = TRUE /\ c.last = {}
    OBVIOUS
  <2> HIDE DEF c
  <2>3. Core!AmountColumn(c.target) = {m.amount : m \in f.target}
        /\ Core!Codes(c.target) = {m.currency : m \in f.target}
    BY <2>2 DEF Core!AmountColumn, Core!Codes
  <2>4. /\ UNION {Core!AmountColumn({x.price}) : x \in c.last} = {}
        /\ UNION {Core!Codes({x.price}) : x \in c.last} = {}
        /\ UNION {Core!AmountColumn(x.converted) : x \in c.last} = {}
        /\ UNION {Core!Codes(x.converted) : x \in c.last} = {}
        /\ {x.inStock : x \in c.last} = {}
    BY <2>2
  <2> QED
    BY <2>1, <2>2, <2>3, <2>4 DEF Core!Row, FullRow
<1>10. RowOf(NewItem(u, url, f)) = FullRow(u, url, {m.amount : m \in f.target},
                              {m.currency : m \in f.target}, v \div Second)
  <2> DEFINE item == NewItem(u, url, f)
  <2>1. item.owner = u /\ item.url = url /\ item.target = f.target /\ item.interval = v
    BY DEF NewItem, v
  <2>2. item \in Form
    BY <1>8
  <2> HIDE DEF item
  <2>3. RowOf(item) = FullRow(u, url, {m.amount : m \in f.target},
                              {m.currency : m \in f.target}, v \div Second)
    BY <2>1, <2>2, RowFacts DEF FullRow
  <2> QED
    BY <2>3 DEF item
<1>11. NewRow(u, url, f) = RowOf(NewItem(u, url, f))
  BY <1>7, <1>9, <1>10
<1> QED
  BY <1>3, <1>4, <1>6, <1>8, <1>11

\* AddItem.
LEMMA AddsAgree ==
    ASSUME NEW s \in MemStores, NEW u \in Accounts, u \in DOMAIN s.currency,
           NEW url \in Links, NEW f \in {Plain, Filled}
    PROVE  LET m == Mem!AddItem(s, u, url, f.target, f.interval)
               r == Core!AddItem(Tables(s), u, url, f.target, f.interval)
           IN  \/ SameItems(m, r)
               \/ /\ Len(Mem!Owned(s, u)) = StoreLimit
                  /\ <<m.err, r.err>> = <<"already exists", "limit reached">>
<1> DEFINE o == Mem!Owned(s, u)
           d == f.interval
           item == NewItem(u, url, f)
           row == NewRow(u, url, f)
           tracked == \E i \in ToSet(o) : i.url = url
           full == Len(o) >= StoreLimit
           merr == Mem!Refusal(<<Mem!Check(tracked, "already exists"),
                                 Mem!Check(full, "limit reached"),
                                 Mem!Check(~Mem!ValidInterval(d), "validation")>>)
           rtracked == \E q \in ToSet(RowsOf(o)) : q.url = url
           rfull == Len(RowsOf(o)) >= StoreLimit
           cerr == Core!Refusal(<<Core!Check(~Core!ValidInterval(Whole(d)), "validation"),
                                  Core!Check(\E p \in f.target : Core!Invalid(p), "validation"),
                                  Core!Check(rfull, "limit reached"),
                                  Core!Check(rtracked, "already exists"),
                                  Core!Check(u \notin DOMAIN s.currency, "not found")>>)
           after == [s EXCEPT !.items = Append(s.items, item)]
           db == [Tables(s) EXCEPT !.rows = Append(RowsOf(s.items), row)]
           m == Mem!AddItem(s, u, url, f.target, d)
           r == Core!AddItem(Tables(s), u, url, f.target, d)
<1>1. /\ d \in Tried /\ Mem!ValidInterval(d) /\ \A p \in f.target : ~Core!Invalid(p)
      /\ item \in Form /\ row = RowOf(item)
  BY AddedFacts
<1>2. Core!ValidInterval(Whole(d))
  BY <1>1, IntervalFacts
<1>3. o \in Seq(Form) /\ Core!Owned(Tables(s), u) = RowsOf(o) /\ Len(o) <= StoreLimit
  BY OwnedFacts, OwnedLimit
<1>4. m = Mem!Result(s, merr, after, <<item>>)
  BY SameTools, Zenon DEF Mem!AddItem, NewItem
<1>5. r = Core!Reply(Tables(s), cerr, db, <<row>>)
  <2>1. Core!ToSet(RowsOf(o)) = ToSet(RowsOf(o))
    BY SameTools
  <2>2. Tables(s).rows = RowsOf(s.items) /\ Tables(s).currency = s.currency
    BY TableFacts
  <2> QED
    BY <1>3, <2>1, <2>2, Zenon DEF Core!AddItem, NewRow, Whole
<1> HIDE DEF o, d, item, row, m, r
<1>6. (rfull <=> full) /\ (rtracked <=> tracked)
  <2>1. /\ Len(RowsOf(o)) = Len(o)
        /\ \A n \in 1 .. Len(o) : /\ o[n] \in Form /\ o[n] \in ToSet(o)
                                  /\ RowsOf(o)[n] = RowOf(o[n])
                                  /\ RowsOf(o)[n] \in ToSet(RowsOf(o))
        /\ \A i \in ToSet(o) : \E n \in 1 .. Len(o) : i = o[n]
        /\ \A q \in ToSet(RowsOf(o)) : \E n \in 1 .. Len(o) : q = RowOf(o[n])
    BY <1>3, RowsFacts
  <2>2. \A n \in 1 .. Len(o) : RowOf(o[n]).url = o[n].url
    BY <2>1, RowFacts
  <2>3. ASSUME NEW i \in ToSet(o), i.url = url PROVE rtracked
    <3>1. PICK n \in 1 .. Len(o) : i = o[n]
      BY <2>1
    <3>2. RowOf(o[n]).url = url /\ RowOf(o[n]) \in ToSet(RowsOf(o))
      BY <2>1, <2>2, <2>3, <3>1
    <3> QED
      BY <3>2
  <2>4. ASSUME NEW q \in ToSet(RowsOf(o)), q.url = url PROVE tracked
    <3>1. PICK n \in 1 .. Len(o) : q = RowOf(o[n])
      BY <2>1
    <3>2. o[n].url = url /\ o[n] \in ToSet(o)
      BY <2>1, <2>2, <2>4, <3>1
    <3> QED
      BY <3>2
  <2>5. rfull <=> full
    BY <2>1
  <2> HIDE DEF rfull, full
  <2> QED
    BY <2>3, <2>4, <2>5
<1> DEFINE none == u \notin DOMAIN s.currency
           early == ~Core!ValidInterval(Whole(d))
           bad == \E p \in f.target : Core!Invalid(p)
           late == ~Mem!ValidInterval(d)
<1>7. merr = IF tracked THEN "already exists" ELSE IF full THEN "limit reached"
             ELSE IF late THEN "validation" ELSE "none"
  <2>1. OutOfThree(tracked, "already exists", full, "limit reached", late, "validation")
          = IF tracked THEN "already exists" ELSE IF full THEN "limit reached"
            ELSE IF late THEN "validation" ELSE "none"
    BY RefusalOfThree
  <2> QED
    BY <2>1, Zenon DEF OutOfThree
<1>8. cerr = IF early THEN "validation" ELSE IF bad THEN "validation"
             ELSE IF rfull THEN "limit reached" ELSE IF rtracked THEN "already exists"
             ELSE IF none THEN "not found" ELSE "none"
  <2>1. OutOfFive(early, "validation", bad, "validation", rfull, "limit reached",
                  rtracked, "already exists", none, "not found")
          = IF early THEN "validation" ELSE IF bad THEN "validation"
            ELSE IF rfull THEN "limit reached" ELSE IF rtracked THEN "already exists"
            ELSE IF none THEN "not found" ELSE "none"
    BY RefusalOfFive
  <2> QED
    BY <2>1, SameRefusal, SameCheck, Zenon DEF OutOfFive
<1>9. ~early /\ ~bad /\ ~none /\ ~late
  BY <1>1, <1>2
<1> HIDE DEF merr, cerr, early, bad, none, late
<1>10. /\ merr = IF tracked THEN "already exists" ELSE IF full THEN "limit reached" ELSE "none"
       /\ cerr = IF full THEN "limit reached" ELSE IF tracked THEN "already exists" ELSE "none"
  BY <1>6, <1>7, <1>8, <1>9
<1> HIDE DEF full, rfull, tracked, rtracked
<1>11. CASE tracked /\ full
  <2>1. merr = "already exists" /\ cerr = "limit reached" /\ cerr \in Known
    BY <1>10, <1>11 DEF Known
  <2>2. m.err = "already exists"
    BY <1>4, <2>1, MemAnswer
  <2>3. r.err = "limit reached"
    <3> DEFINE rows == <<row>>
    <3>1. r = Core!Reply(Tables(s), cerr, db, rows)
      BY <1>5
    <3> HIDE DEF db, rows, r
    <3>2. cerr \in Known
      BY <2>1
    <3>3. Core!Reply(Tables(s), cerr, db, rows)
            = IF cerr = "none" THEN [store |-> db, err |-> cerr, value |-> Received(rows)]
              ELSE [store |-> Tables(s), err |-> cerr, value |-> <<>>]
      BY <3>2, CoreAnswer
    <3>4. r.err = cerr
      BY <3>1, <3>3
    <3> QED
      BY <2>1, <3>4
  <2>4. Len(o) = StoreLimit
    BY <1>3, <1>11, HeldAssumption DEF full
  <2> QED
    BY <2>2, <2>3, <2>4 DEF o, d, m, r
<1>12. CASE ~(tracked /\ full)
  <2>1. merr = cerr /\ merr \in Known
    BY <1>10, <1>12 DEF Known
  <2>2. Tables(after) = db
    <3>1. s.items \in Seq(Form)
      BY StoreFacts
    <3> DEFINE its == s.items
               new == Append(its, item)
    <3>2. RowsOf(new) = Append(RowsOf(its), row)
      <4> HIDE DEF its
      <4>1. /\ RowsOf(its) \in Seq(Rows) /\ Len(RowsOf(its)) = Len(its)
            /\ \A n \in 1 .. Len(its) : RowsOf(its)[n] = RowOf(its[n])
        BY <3>1, RowsFacts DEF its
      <4>2. /\ DOMAIN new = 1 .. Len(its) + 1 /\ new[Len(its) + 1] = item
            /\ \A n \in 1 .. Len(its) : new[n] = its[n]
        BY <3>1 DEF its
      <4> DEFINE rows == Append(RowsOf(its), row)
      <4>3. /\ rows = [n \in 1 .. Len(its) + 1 |-> rows[n]] /\ rows[Len(its) + 1] = row
            /\ \A n \in 1 .. Len(its) : rows[n] = RowsOf(its)[n]
        <5>1. row \in Rows
          BY <1>1 DEF Rows
        <5>2. rows \in Seq(Rows) /\ Len(rows) = Len(its) + 1 /\ Len(its) \in Nat
          BY <4>1, <5>1
        <5>3. rows = [n \in 1 .. Len(its) + 1 |-> rows[n]]
          <6> HIDE DEF rows
          <6>1. rows \in [1 .. Len(rows) -> Rows]
            BY <5>2
          <6> QED
            BY <5>2, <6>1
        <5> QED
          BY <4>1, <5>1, <5>3
      <4> HIDE DEF rows, new
      <4>4. \A n \in 1 .. Len(its) + 1 : rows[n] = RowOf(new[n])
        <5>1. Len(its) \in Nat
          BY <3>1 DEF its
        <5>2. \A n \in 1 .. Len(its) + 1 : n \in 1 .. Len(its) \/ n = Len(its) + 1
          BY <5>1
        <5> QED
          BY <1>1, <4>1, <4>2, <4>3, <5>2
      <4>5. rows = RowsOf(new)
        BY <4>2, <4>3, <4>4 DEF RowsOf
      <4> QED
        BY <4>5 DEF rows
    <3>3. Tables([s EXCEPT !.items = new]) = [Tables(s) EXCEPT !.rows = RowsOf(new)]
      BY TablesAfter
    <3> QED
      BY <3>2, <3>3, Zenon
  <2>3. /\ DOMAIN <<item>> = DOMAIN <<row>>
        /\ \A n \in DOMAIN <<row>> :
              Shown(Core!OverTheWire(Core!ScanItem(<<row>>[n]))) = Shown(<<item>>[n])
    <3>1. Shown(Core!OverTheWire(Core!ScanItem(row))) = Shown(item)
      BY <1>1, RowFacts
    <3> QED
      BY <3>1
  <2> DEFINE value == <<item>>
             rows == <<row>>
  <2> HIDE DEF after, db, value, rows
  <2>4. SameItems(Mem!Result(s, merr, after, value), Core!Reply(Tables(s), merr, db, rows))
    BY <2>1, <2>2, <2>3, SameCall DEF value, rows
  <2>5. SameItems(m, r)
    BY <1>4, <1>5, <2>1, <2>4, Zenon DEF value, rows
  <2> QED
    BY <2>5 DEF d, m, r
<1> QED
  BY <1>11, <1>12

\* Money that may be missing is the same after its columns.
LEMMA MoneyBack ==
    ASSUME NEW t \in {{}} \cup {{p} : p \in Priced}
    PROVE  Core!MoneyOf(Core!AmountColumn(t), Core!Codes(t)) = t
<1>1. CASE t = {}
  BY <1>1 DEF Core!MoneyOf, Core!AmountColumn, Core!Codes
<1>2. ASSUME NEW p \in Priced, t = {p}
      PROVE  Core!MoneyOf(Core!AmountColumn(t), Core!Codes(t)) = t
  <2>1. Core!AmountColumn(t) = {p.amount} /\ Core!Codes(t) = {p.currency}
    BY <1>2 DEF Core!AmountColumn, Core!Codes
  <2>2. \A m : m \in [amount : {p.amount}, currency : {p.currency}] <=> m = p
    BY DEF Priced
  <2> QED
    BY <1>2, <2>1, <2>2 DEF Core!MoneyOf
<1> QED
  BY <1>1, <1>2

\* A reading is the same after its columns, in core and over the wire.
LEMMA ReadingBack ==
    ASSUME NEW q \in Readings
    PROVE  /\ [price : {q.price}, converted : {q.converted}, inStock : {q.inStock}] = {q}
           /\ Core!SnapshotFromProto(Core!SnapshotToProto(q)) = q
<1>1. /\ q = [price |-> q.price, converted |-> q.converted, inStock |-> q.inStock]
      /\ q.price \in Priced /\ q.converted \in {{}} \cup {{p} : p \in Priced}
  BY DEF Readings
<1>2. \A x : x \in [price : {q.price}, converted : {q.converted}, inStock : {q.inStock}] <=> x = q
  BY <1>1
<1>3. (CHOOSE p \in {q.price} : TRUE) = q.price
  OBVIOUS
<1>4. Core!SnapshotFromProto(Core!SnapshotToProto(q))
        = [price |-> CHOOSE p \in {q.price} : TRUE, converted |-> q.converted,
           inStock |-> q.inStock]
  BY DEF Core!SnapshotFromProto, Core!SnapshotToProto
<1> QED
  BY <1>1, <1>2, <1>3, <1>4

\* The fields of an item with everything.
LEMMA FullFacts ==
    ASSUME NEW i \in FullItems
    PROVE  /\ i = [owner |-> i.owner, url |-> i.url, title |-> i.title, target |-> i.target,
                   interval |-> i.interval, active |-> i.active, last |-> i.last]
           /\ i.target \in {{}} \cup {{p} : p \in Priced}
           /\ i.interval = MinCheckInterval
           /\ i.last \in {{}} \cup {{x} : x \in Readings}
<1> DEFINE T == {{}} \cup {{p} : p \in Priced}
           R == {{}} \cup {{x} : x \in Readings}
<1>1. PICK id \in Ids, t \in T, r \in R, a \in BOOLEAN : i = FullItem(id, t, r, a)
  BY DEF FullItems
<1>2. i = [owner |-> id[1], url |-> id[2], title |-> "host", target |-> t,
           interval |-> MinCheckInterval, active |-> a, last |-> r]
  BY <1>1 DEF FullItem, MemItem
<1> QED
  BY <1>2

\* An item is the same after its columns and its message.
LEMMA WireKeepsAll == WireKeeps
<1> SUFFICES ASSUME NEW i \in FullItems
             PROVE  Core!OverTheWire(Core!ScanItem(Core!Row(i))) = i
  BY DEF WireKeeps
<1> DEFINE r == Core!Row(i)
           x == Core!ScanItem(r)
           y == Core!OverTheWire(x)
<1>1. /\ i = [owner |-> i.owner, url |-> i.url, title |-> i.title, target |-> i.target,
              interval |-> i.interval, active |-> i.active, last |-> i.last]
      /\ i.target \in {{}} \cup {{p} : p \in Priced}
      /\ i.interval = MinCheckInterval
      /\ i.last \in {{}} \cup {{q} : q \in Readings}
  BY FullFacts
<1>2. /\ r.owner = i.owner /\ r.url = i.url /\ r.title = i.title /\ r.active = i.active
      /\ r.target_amount = Core!AmountColumn(i.target)
      /\ r.target_currency = Core!Codes(i.target)
      /\ r.check_interval_seconds = i.interval \div Second
      /\ r.s_amount = UNION {Core!AmountColumn({q.price}) : q \in i.last}
      /\ r.s_currency = UNION {Core!Codes({q.price}) : q \in i.last}
      /\ r.s_converted_amount = UNION {Core!AmountColumn(q.converted) : q \in i.last}
      /\ r.s_converted_currency = UNION {Core!Codes(q.converted) : q \in i.last}
      /\ r.s_in_stock = {q.inStock : q \in i.last}
  BY DEF Core!Row
<1> HIDE DEF r
<1>3. Core!MoneyOf(r.target_amount, r.target_currency) = i.target
  BY <1>1, <1>2, MoneyBack
<1>4. [price : Core!MoneyOf(r.s_amount, r.s_currency),
       converted : {Core!MoneyOf(r.s_converted_amount, r.s_converted_currency)},
       inStock : r.s_in_stock] = i.last
  <2>1. CASE i.last = {}
    BY <1>2, <2>1
  <2>2. ASSUME NEW q \in Readings, i.last = {q}
        PROVE  [price : Core!MoneyOf(r.s_amount, r.s_currency),
                converted : {Core!MoneyOf(r.s_converted_amount, r.s_converted_currency)},
                inStock : r.s_in_stock] = i.last
    <3>1. q.price \in Priced /\ q.converted \in {{}} \cup {{p} : p \in Priced}
      BY DEF Readings
    <3>2. /\ r.s_amount = Core!AmountColumn({q.price}) /\ r.s_currency = Core!Codes({q.price})
          /\ r.s_converted_amount = Core!AmountColumn(q.converted)
          /\ r.s_converted_currency = Core!Codes(q.converted)
          /\ r.s_in_stock = {q.inStock}
      BY <1>2, <2>2
    <3>3. /\ Core!MoneyOf(r.s_amount, r.s_currency) = {q.price}
          /\ Core!MoneyOf(r.s_converted_amount, r.s_converted_currency) = q.converted
      BY <3>1, <3>2, MoneyBack
    <3> QED
      BY <2>2, <3>2, <3>3, ReadingBack
  <2> QED
    BY <1>1, <2>1, <2>2
<1>5. /\ x.owner = i.owner /\ x.url = i.url /\ x.title = i.title /\ x.active = i.active
      /\ x.target = i.target /\ x.interval = Whole(i.interval) /\ x.last = i.last
  BY <1>2, <1>3, <1>4 DEF Core!ScanItem, Whole
<1> HIDE DEF x
<1>6. Whole(i.interval) = i.interval /\ (Whole(i.interval) \div Second) * Second = i.interval
  <2>1. Second \in Nat /\ Second > 0 /\ MinCheckInterval \in Nat /\ MinCheckInterval % Second = 0
    BY IntervalAssumption
  <2>2. Whole(MinCheckInterval) = MinCheckInterval
    BY <2>1 DEF Whole
  <2> QED
    BY <1>1, <2>2 DEF Whole
<1>7. {Core!SnapshotFromProto(m) : m \in {Core!SnapshotToProto(q) : q \in i.last}} = i.last
  <2>1. \A q \in i.last : Core!SnapshotFromProto(Core!SnapshotToProto(q)) = q
    <3>1. \A q \in i.last : q \in Readings
      BY <1>1
    <3> QED
      BY <3>1, ReadingBack
  <2> QED
    BY <2>1
<1>8. y = [owner |-> i.owner, url |-> i.url, title |-> i.title, target |-> i.target,
           interval |-> i.interval, active |-> i.active, last |-> i.last]
  <2>1. Core!ItemToProto(x)
          = [user_id |-> i.owner, url |-> i.url, title |-> i.title, target_price |-> i.target,
             check_interval_seconds |-> Whole(i.interval) \div Second, active |-> i.active,
             last_snapshot |-> {Core!SnapshotToProto(q) : q \in i.last}]
    BY <1>5, Zenon DEF Core!ItemToProto
  <2> DEFINE p == Core!ItemToProto(x)
  <2>2. /\ p.user_id = i.owner /\ p.url = i.url /\ p.title = i.title /\ p.target_price = i.target
        /\ p.check_interval_seconds = Whole(i.interval) \div Second /\ p.active = i.active
        /\ p.last_snapshot = {Core!SnapshotToProto(q) : q \in i.last}
    BY <2>1
  <2> HIDE DEF p
  <2>3. Core!ItemFromProto(p)
          = [owner |-> i.owner, url |-> i.url, title |-> i.title, target |-> i.target,
             interval |-> i.interval, active |-> i.active, last |-> i.last]
    BY <1>6, <1>7, <2>2, Zenon DEF Core!ItemFromProto
  <2> QED
    BY <2>3 DEF p, Core!OverTheWire
<1> QED
  BY <1>1, <1>8 DEF x, r

\* AddItem with a threshold that is not positive: core refuses it, memory does not look.
LEMMA WorthlessRefused ==
    ASSUME NEW s \in MemStores, NEW u \in Accounts, NEW url \in Links, NEW f \in Worthless
    PROVE  LET m == Mem!AddItem(s, u, url, f.target, f.interval)
               r == Core!AddItem(Tables(s), u, url, f.target, f.interval)
           IN  /\ m.err = Mem!AddItem(s, u, url, {}, f.interval).err
               /\ r.err = "validation" /\ r.store = Tables(s)
<1> DEFINE t == Tables(s)
           w == (f.interval \div Second) * Second
           owned == Core!Owned(t, u)
           early == ~Core!ValidInterval(w)
           bad == \E p \in f.target : Core!Invalid(p)
           full == Len(owned) >= StoreLimit
           tracked == \E q \in Core!ToSet(owned) : q.url = url
           none == u \notin DOMAIN t.currency
           cerr == Core!Refusal(<<Core!Check(early, "validation"), Core!Check(bad, "validation"),
                                  Core!Check(full, "limit reached"),
                                  Core!Check(tracked, "already exists"),
                                  Core!Check(none, "not found")>>)
           r == Core!AddItem(t, u, url, f.target, f.interval)
<1>1. bad
  <2>1. PICK n \in {0, -1} : f.target = {[amount |-> n, currency |-> DefaultCurrency]}
    BY DEF Worthless
  <2>2. [amount |-> n, currency |-> DefaultCurrency].amount <= 0
    BY <2>1
  <2> QED
    BY <2>1, <2>2 DEF Core!Invalid
<1>2. cerr = "validation"
  <2>1. OutOfFive(early, "validation", bad, "validation", full, "limit reached",
                  tracked, "already exists", none, "not found")
          = IF early THEN "validation" ELSE IF bad THEN "validation"
            ELSE IF full THEN "limit reached" ELSE IF tracked THEN "already exists"
            ELSE IF none THEN "not found" ELSE "none"
    BY RefusalOfFive
  <2>2. cerr = OutOfFive(early, "validation", bad, "validation", full, "limit reached",
                         tracked, "already exists", none, "not found")
    BY SameRefusal, SameCheck, Zenon DEF OutOfFive
  <2> HIDE DEF cerr, early, bad, full, tracked, none
  <2> QED
    BY <1>1, <2>1, <2>2
<1>3. PICK after, rows : r = Core!Reply(t, cerr, after, rows)
  BY Zenon DEF Core!AddItem
<1> HIDE DEF cerr, r, t
<1>4. r = Core!Result(t, "validation", after,
                      [n \in DOMAIN rows |-> Core!OverTheWire(Core!ScanItem(rows[n]))])
  <2>1. Core!FromStatus(Core!ToStatus("validation")) = "validation"
    BY SentinelsTravel
  <2> QED
    BY <1>2, <1>3, <2>1, Zenon DEF Core!Reply
<1>5. r.err = "validation" /\ r.store = t
  BY <1>4 DEF Core!Result
<1>6. Mem!AddItem(s, u, url, f.target, f.interval).err = Mem!AddItem(s, u, url, {}, f.interval).err
  <2> DEFINE merr == Mem!Refusal(<<
                 Mem!Check(\E i \in Mem!ToSet(Mem!Owned(s, u)) : i.url = url, "already exists"),
                 Mem!Check(Len(Mem!Owned(s, u)) >= StoreLimit, "limit reached"),
                 Mem!Check(~Mem!ValidInterval(f.interval), "validation")>>)
  <2>1. \A x : \E after1, value :
            Mem!AddItem(s, u, url, x, f.interval) = Mem!Result(s, merr, after1, value)
    BY Zenon DEF Mem!AddItem
  <2> HIDE DEF merr
  <2>2. \A after1, value : Mem!Result(s, merr, after1, value).err = merr
    BY DEF Mem!Result
  <2>3. ASSUME NEW x PROVE Mem!AddItem(s, u, url, x, f.interval).err = merr
    <3>1. PICK after1, value :
            Mem!AddItem(s, u, url, x, f.interval) = Mem!Result(s, merr, after1, value)
      BY <2>1, Zenon
    <3>2. Mem!Result(s, merr, after1, value).err = merr
      BY <2>2, Zenon
    <3> QED
      BY <3>1, <3>2, Zenon
  <2>4. Mem!AddItem(s, u, url, f.target, f.interval).err = merr
    BY <2>3, Zenon
  <2>5. Mem!AddItem(s, u, url, {}, f.interval).err = merr
    BY <2>3, Zenon
  <2> QED
    BY <2>4, <2>5, Zenon
<1> QED
  BY <1>5, <1>6 DEF r, t

\* The methods that write.
LEMMA WritesAgree ==
    ASSUME NEW s \in MemStores, NEW u \in Accounts, u \in DOMAIN s.currency
    PROVE  SameWrites(s, u)
<1>1. \A id \in Ids :
         /\ Same(Mem!RemoveItem(s, u, id), Core!RemoveItem(Tables(s), u, id))
         /\ \A d \in Asked : Same(Mem!SetInterval(s, u, id, d),
                                  Core!SetInterval(Tables(s), u, id, d))
  BY RemovalsAgree, IntervalsAgree
<1>2. ASSUME NEW url \in Links, NEW f \in {Plain, Filled}
      PROVE  LET m == Mem!AddItem(s, u, url, f.target, f.interval)
                 r == Core!AddItem(Tables(s), u, url, f.target, f.interval)
             IN  \/ SameItems(m, r)
                 \/ /\ Len(Mem!Owned(s, u)) = StoreLimit
                    /\ <<m.err, r.err>> = <<"already exists", "limit reached">>
  BY AddsAgree
<1>3. ASSUME NEW url \in Links, NEW f \in Worthless
      PROVE  LET m == Mem!AddItem(s, u, url, f.target, f.interval)
                 r == Core!AddItem(Tables(s), u, url, f.target, f.interval)
             IN  /\ m.err = Mem!AddItem(s, u, url, {}, f.interval).err
                 /\ r.err = "validation" /\ r.store = Tables(s)
  BY WorthlessRefused
<1> QED
  BY <1>1, <1>2, <1>3, Zenon DEF SameWrites

\* How far a handler cannot tell a memory store from a remote one (grpcstore.go:25):
\* whatever the users, the links, the currencies, the limit and the number of items kept,
\* every call gives the same items in the same order, or the same error, and leaves the
\* same contents, but for a duplicate at the limit, refused for different reasons, and a
\* threshold that is not positive, which core alone refuses (repo.go:164).
THEOREM StoresAlwaysAgree == Spec => []AnswersAgree
<1>1. ASSUME NEW s \in MemStores, NEW u \in DOMAIN s.currency
      PROVE  u \in Accounts
  <2>1. s.currency \in UNION {[seen -> Currencies] : seen \in SUBSET Accounts}
    BY DEF MemStores, Contents
  <2> QED
    BY <2>1
<1>2. AllAnswersAgree
  <2>1. \A s \in MemStores : \A u \in Accounts : SameUsers(s, u)
    BY UsersAgree
  <2>2. \A s \in MemStores : \A u \in DOMAIN s.currency : SameReads(s, u) /\ SameWrites(s, u)
    BY <1>1, ReadsAgree, WritesAgree
  <2> QED
    BY <2>1, <2>2, WireKeepsAll, Zenon DEF AllAnswersAgree
<1>3. AnswersAgree
  BY <1>2, Zenon DEF AnswersAgree
<1> QED
  BY <1>3, PTL
=============================================================================
