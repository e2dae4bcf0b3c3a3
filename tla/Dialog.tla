-------------------------------- MODULE Dialog --------------------------------
(***************************************************************************)
(* The conversation of the bot with one user (internal/bot/handlers.go and *)
(* session.go) over its Store (memstore.go, grpcstore.go).                 *)
(*                                                                         *)
(* The Telegram library runs each update in a goroutine of its own, so     *)
(* handlers of one user overlap.  An access to the session store and a     *)
(* call to the Store are one step each, but for AddItem, which core does   *)
(* in two (internal/core/repo.go); what a handler read is a copy in its    *)
(* hands.  Replies are left out, and what a handler rejects changes        *)
(* nothing.                                                                *)
(***************************************************************************)
EXTENDS FiniteSets, Naturals

CONSTANTS
    Handlers,         \* updates of the user in progress at once
    Urls,             \* normalized links
    Currencies,
    DefaultCurrency,  \* of a user seen for the first time
    MaxItemsPerUser

ASSUME DefaultAssumption == DefaultCurrency \in Currencies
ASSUME LimitAssumption == MaxItemsPerUser \in Nat

VARIABLES
    session,   \* sessionStore.m of the user: at most one session
    currency,  \* users.default_currency
    items,     \* the user's tracked items
    pc,        \* where each handler is
    update,    \* what it handles
    read,      \* the default currency it read
    copy,      \* at most one session: the one it read, or is about to write
    \* History
    chosen,    \* the currency the user chose last
    choices    \* per handler of a price: what was chosen when it came, and since

vars == <<session, currency, items, pc, update, read, copy, chosen, choices>>

\* What a user sends.  A price comes without a currency code.
Texts == [kind : {"link"}, url : Urls]
         \cup [kind : {"code"}, currency : Currencies]
         \cup [kind : {"price", "skip", "duration"}]
Commands == [kind : {"/start", "/add", "/settings", "/cancel"}]
            \cup [kind : {"/add link"}, url : Urls]
Buttons == [kind : {"cancel button", "interval button"}]
           \cup [kind : {"currency button"}, currency : Currencies]
           \cup [kind : {"remove button"}, url : Urls]
Updates == Texts \cup Commands \cup Buttons

NoUpdate == [kind |-> "none"]

AtMostOne(S) == \A x, y \in S : x = y

\* A target remembers, as history, the link it was typed for, and whether its
\* currency had been chosen by the user at the time.
Target == [currency : Currencies, for : Urls, wanted : BOOLEAN]
Steps == {"await_url", "await_target", "await_interval", "await_currency"}
Session == [step : Steps, url : SUBSET Urls, target : SUBSET Target]
Item == [url : SUBSET Urls, target : SUBSET Target]

Copies == UNION {copy[h] : h \in Handlers}

\* From the second question on a session has a link.
TypeOK ==
    /\ session \subseteq Session /\ AtMostOne(session)
    /\ copy \in [Handlers -> SUBSET Session] /\ \A h \in Handlers : AtMostOne(copy[h])
    /\ items \subseteq Item
    /\ \A d \in session \cup Copies \cup items : AtMostOne(d.url) /\ AtMostOne(d.target)
    /\ \A s \in session \cup Copies : s.step \in {"await_target", "await_interval"} => s.url # {}
    /\ pc \in [Handlers -> {"idle", "ensuring", "getting", "setting", "adding",
                            "inserting", "choosing", "removing", "resetting"}]
    /\ update \in [Handlers -> Updates \cup {NoUpdate}]
    /\ currency \in Currencies /\ chosen \in Currencies
    /\ read \in [Handlers -> Currencies]
    /\ choices \in [Handlers -> SUBSET Currencies]

Asking(step) == [step |-> step, url |-> {}, target |-> {}]
Init ==
    /\ session = {}
    /\ currency = DefaultCurrency
    /\ items = {}
    /\ pc = [h \in Handlers |-> "idle"]
    /\ update = [h \in Handlers |-> NoUpdate]
    /\ read = [h \in Handlers |-> DefaultCurrency]
    /\ copy = [h \in Handlers |-> {}]
    /\ chosen = DefaultCurrency
    /\ choices = [h \in Handlers |-> {}]

Is(h, kinds) == update[h].kind \in kinds
Goto(h, l) == pc' = [pc EXCEPT ![h] = l]
SetTo(h, s) == copy' = [copy EXCEPT ![h] = {s}] /\ Goto(h, "setting")

\* The handler returns.
Return(h) ==
    /\ Goto(h, "idle")
    /\ update' = [update EXCEPT ![h] = NoUpdate]
    /\ read' = [read EXCEPT ![h] = DefaultCurrency]
    /\ copy' = [copy EXCEPT ![h] = {}]
    /\ choices' = [choices EXCEPT ![h] = {}]

-----------------------------------------------------------------------------
\* Until the session: the user is looked up, except by /cancel.

Receive(h, u) ==
    /\ pc[h] = "idle"
    /\ update' = [update EXCEPT ![h] = u]
    /\ choices' = [choices EXCEPT ![h] = IF u.kind = "price" THEN {chosen} ELSE {}]
    /\ Goto(h, IF u.kind = "/cancel" THEN "getting" ELSE "ensuring")
    /\ UNCHANGED <<session, currency, items, read, copy, chosen>>

\* Mutation: the row is written anew.
EnsuredAnew == DefaultCurrency
\* ON CONFLICT keeps the currency of a user that exists.
Ensured == currency

AfterEnsure(h) ==
    IF Is(h, {"/start", "cancel button"}) THEN "resetting"
    ELSE IF Is(h, {"currency button"}) THEN "choosing"
    ELSE IF Is(h, {"remove button"}) THEN "removing"
    ELSE IF Is(h, {"/add", "/add link", "/settings"}) THEN "setting"
    ELSE "getting"

\* Mutation: the link is not kept.
WithoutLink(url) == Asking("await_target")
WithLink(url) == [Asking("await_target") EXCEPT !.url = {url}]

\* The commands that begin a dialogue do not look at the session.
Begun(h) == IF Is(h, {"/add"}) THEN {Asking("await_url")}
            ELSE IF Is(h, {"/add link"}) THEN {WithLink(update[h].url)}
            ELSE IF Is(h, {"/settings"}) THEN {Asking("await_currency")} ELSE {}

Ensure(h) ==
    /\ pc[h] = "ensuring"
    /\ currency' = Ensured
    /\ read' = [read EXCEPT ![h] = IF Is(h, {"price"}) THEN currency' ELSE DefaultCurrency]
    /\ copy' = [copy EXCEPT ![h] = Begun(h)]
    /\ Goto(h, AfterEnsure(h))
    /\ UNCHANGED <<session, items, update, chosen, choices>>

\* The store cannot be reached.
Fails(h) ==
    /\ pc[h] \in {"ensuring", "choosing", "removing"}
    /\ Return(h)
    /\ UNCHANGED <<session, currency, items, chosen>>

-----------------------------------------------------------------------------
\* onFreeText, onCancel and the interval button: what the session asks for decides.

Step(s) == IF s = {} THEN "idle" ELSE (CHOOSE x \in s : TRUE).step

\* What is an answer at each step.  A link outside of any dialogue begins one; a text
\* without a scheme is completed to one, so almost any word answers await_url.
Words == {"code", "price", "skip", "duration"}
Answers == [idle           |-> {"link"},
            await_url      |-> Words \cup {"link", "/cancel"},
            await_target   |-> {"price", "skip", "/cancel"},
            await_interval |-> {"duration", "interval button", "/cancel"},
            await_currency |-> {"code", "/cancel"}]

Answered(h, kinds) ==
    /\ pc[h] = "getting"
    /\ Is(h, kinds)
    /\ update[h].kind \in Answers[Step(session)]

AcceptUrl(h) ==
    /\ Answered(h, {"link"})
    /\ SetTo(h, WithLink(update[h].url))
    /\ UNCHANGED <<session, currency, items, update, read, chosen, choices>>

AcceptWord(h) ==
    /\ Answered(h, Words)
    /\ Step(session) = "await_url"
    /\ \E url \in Urls : SetTo(h, WithLink(url))
    /\ UNCHANGED <<session, currency, items, update, read, chosen, choices>>

Typed(h, s) ==
    IF Is(h, {"skip"}) THEN {}
    ELSE {[currency |-> read[h], for |-> url, wanted |-> read[h] \in choices[h]] : url \in s.url}

AcceptTarget(h) ==
    /\ Answered(h, {"price", "skip"})
    /\ Step(session) = "await_target"
    /\ \E s \in session : SetTo(h, [s EXCEPT !.step = "await_interval", !.target = Typed(h, s)])
    /\ UNCHANGED <<session, currency, items, update, read, chosen, choices>>

AcceptCurrency(h) ==
    /\ Answered(h, {"code"})
    /\ Step(session) = "await_currency"
    /\ Goto(h, "choosing")
    /\ UNCHANGED <<session, currency, items, update, read, copy, chosen, choices>>

AcceptInterval(h) ==
    /\ Answered(h, {"duration", "interval button"})
    /\ Step(session) = "await_interval"
    /\ copy' = [copy EXCEPT ![h] = session]
    /\ Goto(h, "adding")
    /\ UNCHANGED <<session, currency, items, update, read, chosen, choices>>

Cancel(h) ==
    /\ Answered(h, {"/cancel"})
    /\ Goto(h, "resetting")
    /\ UNCHANGED <<session, currency, items, update, read, copy, chosen, choices>>

\* Nothing to cancel, not what was asked for, or a button of an old dialogue.
Reject(h) ==
    /\ pc[h] = "getting"
    /\ \/ update[h].kind \notin Answers[Step(session)]
       \/ Step(session) = "await_url" /\ Is(h, Words)
    /\ Return(h)
    /\ UNCHANGED <<session, currency, items, chosen>>

-----------------------------------------------------------------------------
\* The effects: sessions and the Store.

\* Mutation: the answer goes into the session as it is now.
WrittenInto(h) == LET now == UNION {s.url : s \in session}
                  IN  {IF s.target = {} \/ now = {} THEN s ELSE [s EXCEPT !.url = now] : s \in copy[h]}
Written(h) == copy[h]

\* The session is written as a whole, whatever it is by now.
Set(h) ==
    /\ pc[h] = "setting"
    /\ session' = Written(h)
    /\ Return(h)
    /\ UNCHANGED <<currency, items, chosen>>

Reset(h) ==
    /\ pc[h] = "resetting"
    /\ session' = {}
    /\ Return(h)
    /\ UNCHANGED <<currency, items, chosen>>

\* Mutation: a user at the limit is let through once more.
CountPast(h) ==
    /\ pc[h] = "adding"
    /\ Cardinality(items) <= MaxItemsPerUser
    /\ Goto(h, "inserting")
    /\ UNCHANGED <<session, currency, items, update, read, copy, chosen, choices>>

\* The transaction of CreateItem counts what others have committed, and the count is a
\* plain SELECT that locks nothing.  In memory the count and the insert are one step.
CountItems(h) ==
    /\ pc[h] = "adding"
    /\ Cardinality(items) < MaxItemsPerUser
    /\ Goto(h, "inserting")
    /\ UNCHANGED <<session, currency, items, update, read, copy, chosen, choices>>

\* UNIQUE (user_id, url).
New(s) == \A i \in items : i.url # s.url

\* The Store answers, or the answer is lost: either way the draft is spent.
AddItem(h) ==
    /\ pc[h] = "inserting"
    /\ \E s \in copy[h] :
        /\ New(s)
        /\ items' = items \cup {[url |-> s.url, target |-> s.target]}
    /\ Goto(h, "resetting")
    /\ UNCHANGED <<session, currency, update, read, copy, chosen, choices>>

\* Tracked already, the limit reached, the Store cannot be reached, or the transaction is
\* rolled back.
AddFails(h) ==
    /\ pc[h] \in {"adding", "inserting"}
    /\ Goto(h, "resetting")
    /\ UNCHANGED <<session, currency, items, update, read, copy, chosen, choices>>

\* The session is reset unless the answer of the Store is lost.
SetDefaultCurrency(h) ==
    LET c == update[h].currency
    IN  /\ pc[h] = "choosing"
        /\ currency' = c
        /\ chosen' = c
        /\ \/ Goto(h, "resetting") /\ UNCHANGED <<update, read, copy>>
           \/ Goto(h, "idle") /\ update' = [update EXCEPT ![h] = NoUpdate] /\ UNCHANGED <<read, copy>>
        /\ choices' = [k \in Handlers |-> IF Is(k, {"price"}) THEN choices[k] \cup {c} ELSE choices[k]]
        /\ UNCHANGED <<session, items>>

RemoveItem(h) ==
    /\ pc[h] = "removing"
    /\ items' = {i \in items : i.url # {update[h].url}}
    /\ Return(h)
    /\ UNCHANGED <<session, currency, chosen>>

-----------------------------------------------------------------------------

\* Too old, for get and gc alike: as if it were not there.
Expire ==
    /\ session # {}
    /\ session' = {}
    /\ UNCHANGED <<currency, items, pc, update, read, copy, chosen, choices>>

\* Sessions and handlers are in memory.
Restart ==
    /\ session' = {}
    /\ pc' = [h \in Handlers |-> "idle"]
    /\ update' = [h \in Handlers |-> NoUpdate]
    /\ read' = [h \in Handlers |-> DefaultCurrency]
    /\ copy' = [h \in Handlers |-> {}]
    /\ choices' = [h \in Handlers |-> {}]
    /\ UNCHANGED <<currency, items, chosen>>

Next ==
    \/ \E h \in Handlers :
        \/ \E u \in Updates : Receive(h, u)
        \/ Ensure(h) \/ Fails(h)
        \/ AcceptUrl(h) \/ AcceptWord(h) \/ AcceptTarget(h) \/ AcceptCurrency(h) \/ AcceptInterval(h)
        \/ Cancel(h) \/ Reject(h)
        \/ Set(h) \/ Reset(h)
        \/ CountItems(h) \/ AddItem(h) \/ AddFails(h) \/ SetDefaultCurrency(h) \/ RemoveItem(h)
    \/ Expire \/ Restart

Spec == Init /\ [][Next]_vars

-----------------------------------------------------------------------------
\* Properties

\* Handlers overlap, dialogues are begun in the middle of others, sessions expire, and
\* yet a target is never attached to another product than the one it was typed for.
OneDialogue ==
    \A d \in session \cup items : \A t \in d.target : d.url = {t.for}

\* A price without a currency is in the one the user had chosen when it was typed, or
\* chose while it was handled: greeting the user anew on every update does not undo it.
ChosenCurrency ==
    \A d \in session \cup items : \A t \in d.target : t.wanted

\* repo.go:148 "The count check and the insert share a transaction so two concurrent
\* /add commands cannot both slip past the limit", and repo.go:173 "Lock the user
\* row".  No row is locked, so both see the count from before the other's insert.
LimitHolds == Cardinality(items) <= MaxItemsPerUser

\* What is left of the limit: however updates overlap, fail and remove items, a user is
\* past it by less than the number of updates handled at once, so that one who waits
\* for each answer never passes it.
OvershootBounded ==
    Cardinality(items) + 1 <= MaxItemsPerUser + Cardinality(Handlers)
=============================================================================
