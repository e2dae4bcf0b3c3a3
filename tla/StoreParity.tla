------------------------------ MODULE StoreParity ------------------------------
(***************************************************************************)
(* The two stores of the bot side by side: whichever is behind a Dialog,   *)
(* the conversation is the same.                                           *)
(***************************************************************************)
EXTENDS Thresholds, Integers

CONSTANTS
    Accounts,          \* users of the bot
    Links,             \* more than a user may have
    StoreLimit,        \* MaxItemsPerUser of both stores: what overlaps in a Dialog does
                       \* not matter here, and each limit is as small as its question asks
    MaxHeld,           \* items in a memory store
    Second, MinCheckInterval, MaxCheckInterval, DefaultInterval

ASSUME HeldAssumption == MaxHeld \in Nat /\ StoreLimit \in Nat
ASSUME IntervalAssumption ==
    /\ Second \in Nat \ {0}
    /\ MinCheckInterval \in Nat \ {0} /\ MaxCheckInterval \in Nat
    /\ MinCheckInterval < MaxCheckInterval
    /\ DefaultInterval \in MinCheckInterval .. MaxCheckInterval
    /\ MinCheckInterval % Second = 0

Mem == INSTANCE MemStore WITH Users <- Accounts, Urls <- Links, MaxItemsPerUser <- StoreLimit
Core == INSTANCE CoreStore WITH Users <- Accounts, Urls <- Links, MaxItemsPerUser <- StoreLimit

\* Items have a threshold and half a second in their interval, or neither.
Threshold == [amount |-> 1, currency |-> DefaultCurrency]
Plain == [target |-> {}, interval |-> MinCheckInterval]
Filled == [target |-> {Threshold}, interval |-> MaxCheckInterval - 1]
\* What a user may ask as well: ParseMoney lets a typed 0 through, what rounds to it, and
\* an amount that wraps around its word.
Worthless == {[target |-> {[amount |-> n, currency |-> DefaultCurrency]},
               interval |-> MinCheckInterval] : n \in {0, -1}}
Ids == Accounts \X Links
MemItem(id, f) == [owner |-> id[1], url |-> id[2], title |-> "host", target |-> f.target,
                   interval |-> f.interval, active |-> TRUE, last |-> {}]

\* The contents of a memory store with up to MaxHeld items, plain or filled: those that
\* core could hold as well.
Contents ==
    LET kept(n) == {ids \in [1 .. n -> Ids] :
                       /\ IsInjective(ids)
                       /\ \A u \in Accounts :
                             Cardinality({k \in 1 .. n : ids[k][1] = u}) <= StoreLimit}
        filled(ids) == [k \in DOMAIN ids |-> MemItem(ids[k], IF k = 2 THEN Plain ELSE Filled)]
    IN  [currency : UNION {[seen -> Currencies] : seen \in SUBSET Accounts},
         items : {filled(ids) : ids \in UNION {kept(n) : n \in 0 .. MaxHeld}}]
MemStores == {s \in Contents : \A i \in ToSet(s.items) : i.owner \in DOMAIN s.currency}

\* The same contents in core's tables.
Tables(s) == [currency |-> s.currency,
              rows |-> [n \in DOMAIN s.items |-> Core!Row([s.items[n] EXCEPT !.title = ""])]]

\* What a message shows of an item, its title apart: core has none before the first
\* reading, where memory names the host.
Shown(i) == [owner |-> i.owner, url |-> i.url, target |-> i.target, active |-> i.active,
             last |-> i.last, seconds |-> i.interval \div Second]
Items(answer) == [n \in DOMAIN answer.value |-> Shown(answer.value[n])]

Same(m, r) == Tables(m.store) = r.store /\ m.err = r.err
SameItems(m, r) == Same(m, r) /\ Items(m) = Items(r)

\* Intervals of every kind: with and without a fraction of a second, none, too short
\* and too long.  What is out of the bounds by a fraction only is not asked: the bot
\* checks an interval before it hands it to a store (handlers.go:240).
Asked == (MinCheckInterval .. MaxCheckInterval) \cup {0, Second, MaxCheckInterval + Second}

SameUsers(s, u) ==
    LET m == Mem!EnsureUser(s, u)
        r == Core!EnsureUser(Tables(s), u)
    IN  /\ Same(m, r) /\ m.value = r.value
        /\ \A c \in Currencies :
              Same(Mem!SetDefaultCurrency(s, u, c), Core!SetDefaultCurrency(Tables(s), u, c))
SameReads(s, u) ==
    /\ SameItems(Mem!ListItems(s, u), Core!ListItems(Tables(s), u))
    /\ \A id \in Ids : SameItems(Mem!GetItem(s, u, id), Core!GetItem(Tables(s), u, id))
SameWrites(s, u) ==
    /\ \A id \in Ids :
          /\ Same(Mem!RemoveItem(s, u, id), Core!RemoveItem(Tables(s), u, id))
          /\ \A d \in Asked : Same(Mem!SetInterval(s, u, id, d),
                                   Core!SetInterval(Tables(s), u, id, d))
    /\ \A url \in Links, f \in {Plain, Filled} :
          LET m == Mem!AddItem(s, u, url, f.target, f.interval)
              r == Core!AddItem(Tables(s), u, url, f.target, f.interval)
          IN  \/ SameItems(m, r)
              \* At the limit a link that is tracked already is refused for either reason.
              \/ /\ Len(Mem!Owned(s, u)) = StoreLimit
                 /\ <<m.err, r.err>> = <<"already exists", "limit reached">>
    \* Only core looks at the amount: memory does with the item as it does without one.
    /\ \A url \in Links, f \in Worthless :
          LET m == Mem!AddItem(s, u, url, f.target, f.interval)
              r == Core!AddItem(Tables(s), u, url, f.target, f.interval)
          IN  /\ m.err = Mem!AddItem(s, u, url, {}, f.interval).err
              /\ r.err = "validation" /\ r.store = Tables(s)

\* An item with everything an item can have reaches the bot as it is in core.
Priced == [amount : {1, 2}, currency : Currencies]
Readings == [price : Priced, converted : {{}} \cup {{p} : p \in Priced}, inStock : BOOLEAN]
FullItem(id, t, r, a) ==
    [MemItem(id, [target |-> t, interval |-> MinCheckInterval]) EXCEPT !.last = r, !.active = a]
FullItems == {FullItem(id, t, r, a) : id \in Ids, t \in {{}} \cup {{p} : p \in Priced},
                                      r \in {{}} \cup {{x} : x \in Readings}, a \in BOOLEAN}
WireKeeps == \A i \in FullItems : Core!OverTheWire(Core!ScanItem(Core!Row(i))) = i

AllAnswersAgree ==
    /\ \A s \in MemStores :
          /\ \A u \in Accounts : SameUsers(s, u)
          /\ \A u \in DOMAIN s.currency : SameReads(s, u) /\ SameWrites(s, u)
    /\ WireKeeps

Calling(h) == pc[h] \in {"ensuring", "adding", "choosing", "removing"}

\* grpcstore.go:25 "the translation between transport errors and the domain sentinels
\* the Telegram layer already knows how to render, so a handler cannot tell a memory
\* store from a remote one": started from the same contents every call of a handler
\* gives the same items, in the same order, or the same error, and leaves the same
\* contents, and nobody reads, changes or removes what another owns.  It holds but for
\* two calls of AddItem: at the limit a duplicate is refused for different reasons, and
\* a threshold that is not positive, as a typed "0" makes one, only core refuses.
AnswersAgree == \A h \in Handlers : Calling(h) => AllAnswersAgree
=============================================================================
