------------------------------ MODULE CoreStore ------------------------------
(***************************************************************************)
(* The store behind gRPC: the bot's side (internal/bot/grpcstore.go), the  *)
(* servers and their conversions (internal/core/grpc.go and convert.go)    *)
(* and the repository over its tables (repo.go and scan.go).  Statements   *)
(* run one at a time here; module Dialog lets two CreateItem overlap.      *)
(*                                                                         *)
(* The tables are [currency, rows]: users.default_currency, and            *)
(* tracked_items in the order of created_at, known by owner and link.      *)
(***************************************************************************)
EXTENDS StoreData

\* toStatus
ToStatus(err) ==
    CASE err = "not found"      -> "NotFound"
      [] err = "already exists" -> "AlreadyExists"
      [] err = "validation"     -> "InvalidArgument"
      [] err = "limit reached"  -> "ResourceExhausted"
      [] err = "none"           -> "OK"
      [] OTHER                  -> "Internal"

\* Mutation: a limit is not told from an outage.
FromStatusNoLimit(code) ==
    CASE code = "NotFound"        -> "not found"
      [] code = "AlreadyExists"   -> "already exists"
      [] code = "InvalidArgument" -> "validation"
      [] code = "OK"              -> "none"
      [] OTHER                    -> "unavailable"
FromStatus(code) ==
    CASE code = "NotFound"          -> "not found"
      [] code = "AlreadyExists"     -> "already exists"
      [] code = "InvalidArgument"   -> "validation"
      [] code = "ResourceExhausted" -> "limit reached"
      [] code = "OK"                -> "none"
      [] OTHER                      -> "unavailable"

-----------------------------------------------------------------------------
\* Between the tables, core and the wire.

\* splitMoney and money: both columns are set or both are NULL.
AmountColumn(money) == {m.amount : m \in money}
Codes(money) == {m.currency : m \in money}
MoneyOf(amounts, codes) == [amount : amounts, currency : codes]

\* The columns of itemColumns; those of the latest snapshot are all NULL without one.
Row(i) == [owner |-> i.owner, url |-> i.url, title |-> i.title,
           target_amount |-> AmountColumn(i.target), target_currency |-> Codes(i.target),
           check_interval_seconds |-> i.interval \div Second, active |-> i.active,
           s_amount |-> UNION {AmountColumn({s.price}) : s \in i.last},
           s_currency |-> UNION {Codes({s.price}) : s \in i.last},
           s_converted_amount |-> UNION {AmountColumn(s.converted) : s \in i.last},
           s_converted_currency |-> UNION {Codes(s.converted) : s \in i.last},
           s_in_stock |-> {s.inStock : s \in i.last}]

\* scanItem
ScanItem(r) ==
    [owner |-> r.owner, url |-> r.url, title |-> r.title,
     target |-> MoneyOf(r.target_amount, r.target_currency),
     interval |-> r.check_interval_seconds * Second, active |-> r.active,
     last |-> [price : MoneyOf(r.s_amount, r.s_currency),
               converted : {MoneyOf(r.s_converted_amount, r.s_converted_currency)},
               inStock : r.s_in_stock]]

\* A message has a price always, a converted one and a snapshot if there is one.
SnapshotToProto(s) == [price |-> {s.price}, converted_price |-> s.converted,
                       in_stock |-> s.inStock]
ItemToProto(i) ==
    [user_id |-> i.owner, url |-> i.url, title |-> i.title, target_price |-> i.target,
     check_interval_seconds |-> i.interval \div Second, active |-> i.active,
     last_snapshot |-> {SnapshotToProto(s) : s \in i.last}]

SnapshotFromProto(m) == [price |-> CHOOSE p \in m.price : TRUE,
                         converted |-> m.converted_price, inStock |-> m.in_stock]
ItemFromProto(m) ==
    [owner |-> m.user_id, url |-> m.url, title |-> m.title, target |-> m.target_price,
     interval |-> m.check_interval_seconds * Second, active |-> m.active,
     last |-> {SnapshotFromProto(s) : s \in m.last_snapshot}]

\* What the bot gets of an item as it is in core.
OverTheWire(i) == ItemFromProto(ItemToProto(i))

-----------------------------------------------------------------------------
\* The calls, from the bot through core and back.

Owned(db, user) == Only(db.rows, {r \in ToSet(db.rows) : r.owner = user})
Matching(db, user, id) ==
    {r \in ToSet(db.rows) : <<r.owner, r.url>> = id /\ r.owner = user}

\* The error crosses the wire as a status; the items do as messages.
Reply(db, err, after, rows) ==
    Result(db, FromStatus(ToStatus(err)), after,
           [n \in DOMAIN rows |-> OverTheWire(ScanItem(rows[n]))])

\* ON CONFLICT (telegram_id): the profile is refreshed, the currency stays.
Upserted(db, user) ==
    IF user \in DOMAIN db.currency THEN db.currency
    ELSE With(db.currency, user, DefaultCurrency)
EnsureUser(db, user) ==
    LET after == [db EXCEPT !.currency = Upserted(db, user)]
    IN  Result(db, "none", after, <<[user |-> user, currency |-> after.currency[user]]>>)

\* UpdateUserSettings
SetDefaultCurrency(db, user, code) ==
    Reply(db, Refusal(<<Check(code \notin Currencies, "validation"),
                        Check(user \notin DOMAIN db.currency, "not found")>>),
          [db EXCEPT !.currency = With(@, user, code)], <<>>)

\* CreateTrackedItem.  The interval travels in whole seconds.  A foreign key is
\* looked at when the statement ends, after the unique one.
AddItem(db, user, url, target, interval) ==
    LET asked == (interval \div Second) * Second
        row == Row([owner |-> user, url |-> url, title |-> "", target |-> target,
                    interval |-> IntervalOf(asked), active |-> TRUE, last |-> {}])
    IN  Reply(db, Refusal(<<
                Check(~ValidInterval(asked), "validation"),
                Check(\E m \in target : Invalid(m), "validation"),
                Check(Len(Owned(db, user)) >= MaxItemsPerUser, "limit reached"),
                Check(\E r \in ToSet(Owned(db, user)) : r.url = url, "already exists"),
                Check(user \notin DOMAIN db.currency, "not found")>>),
              [db EXCEPT !.rows = Append(@, row)], <<row>>)

\* ORDER BY created_at DESC
NewestFirst(rows) == Reverse(rows)
\* ListTrackedItems: WHERE user_id = $1 AND active
ListItems(db, user) ==
    Reply(db, "none", db,
          NewestFirst(Only(db.rows, {r \in ToSet(db.rows) : r.owner = user /\ r.active})))

\* GetTrackedItem
GetItem(db, user, id) ==
    Reply(db, Refusal(<<Check(Matching(db, user, id) = {}, "not found")>>), db,
          SetToSeq(Matching(db, user, id)))

\* WHERE id = $1 AND user_id = $2
Deleted(db, user, id) == Only(db.rows, ToSet(db.rows) \ Matching(db, user, id))
\* DeleteTrackedItem
RemoveItem(db, user, id) ==
    Reply(db, Refusal(<<Check(Matching(db, user, id) = {}, "not found")>>),
          [db EXCEPT !.rows = Deleted(db, user, id)], <<>>)

\* UpdateTrackedItem with an interval and nothing else.
SetInterval(db, user, id, interval) ==
    LET asked == (interval \div Second) * Second
    IN  Reply(db, Refusal(<<Check(~ValidInterval(asked), "validation"),
                            Check(Matching(db, user, id) = {}, "not found")>>),
              [db EXCEPT !.rows = [n \in DOMAIN @ |->
                  IF @[n] \in Matching(db, user, id)
                  THEN [@[n] EXCEPT !.check_interval_seconds = IntervalOf(asked) \div Second]
                  ELSE @[n]]], <<>>)
=============================================================================
