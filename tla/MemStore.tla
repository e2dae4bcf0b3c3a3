------------------------------- MODULE MemStore -------------------------------
(***************************************************************************)
(* The store in the bot's own memory (internal/bot/memstore.go).  A method *)
(* holds the lock from its first access to its last.                       *)
(*                                                                         *)
(* A store is [currency, items]: the default currency of the users it has  *)
(* seen, and the items in the order they were added.  An item is known by  *)
(* its owner and link, which the code's random id stands for.              *)
(***************************************************************************)
EXTENDS StoreData

Owned(s, user) == Only(s.items, {i \in ToSet(s.items) : i.owner = user})
Id(i) == <<i.owner, i.url>>
\* getItemLocked
Found(s, user, id) == {i \in ToSet(s.items) : Id(i) = id /\ i.owner = user}

\* A profile that changed leaves the currency alone.
EnsureUser(s, user) ==
    LET seen == IF user \in DOMAIN s.currency THEN s.currency
                ELSE With(s.currency, user, DefaultCurrency)
        after == [s EXCEPT !.currency = seen]
    IN  Result(s, "none", after, <<[user |-> user, currency |-> after.currency[user]]>>)

SetDefaultCurrency(s, user, code) ==
    Result(s, Refusal(<<Check(code \notin Currencies, "validation"),
                        Check(user \notin DOMAIN s.currency, "not found")>>),
           [s EXCEPT !.currency = With(@, user, code)], <<>>)

\* The bot leaves the title empty: the host stands in for it.
AddItem(s, user, url, target, interval) ==
    LET item == [owner |-> user, url |-> url, title |-> "host", target |-> target,
                 interval |-> IntervalOf(interval), active |-> TRUE, last |-> {}]
    IN  Result(s, Refusal(<<
                 Check(\E i \in ToSet(Owned(s, user)) : i.url = url, "already exists"),
                 Check(Len(Owned(s, user)) >= MaxItemsPerUser, "limit reached"),
                 Check(~ValidInterval(interval), "validation")>>),
               [s EXCEPT !.items = Append(@, item)], <<item>>)

\* Newest first, by the time they were created.
ListItems(s, user) == Result(s, "none", s, Reverse(Owned(s, user)))

GetItem(s, user, id) ==
    Result(s, Refusal(<<Check(Found(s, user, id) = {}, "not found")>>), s,
           SetToSeq(Found(s, user, id)))

RemoveItem(s, user, id) ==
    Result(s, Refusal(<<Check(Found(s, user, id) = {}, "not found")>>),
           [s EXCEPT !.items = Only(@, {i \in ToSet(@) : Id(i) # id})], <<>>)

SetInterval(s, user, id, interval) ==
    Result(s, Refusal(<<Check(~ValidInterval(interval), "validation"),
                        Check(Found(s, user, id) = {}, "not found")>>),
           [s EXCEPT !.items = [n \in DOMAIN @ |->
                IF Id(@[n]) = id THEN [@[n] EXCEPT !.interval = IntervalOf(interval)]
                ELSE @[n]]], <<>>)
=============================================================================
