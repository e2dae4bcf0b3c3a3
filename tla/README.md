# Formal models of the price tracker

TLA+ models of the services in this repository, checked with TLC and proved
with TLAPS. Paths are relative to the repository. `PROJECT.json` lists every
run, the definition-to-source map, the mutations each property is tested
against, the findings, the hazards and the theorems.

## 1. The system

Five services over PostgreSQL and Redis, talking gRPC.

| Component | State | Operations | Talks to |
| --- | --- | --- | --- |
| core, alert engine (`internal/core/alerts.go`) | none, pure | `DecideAlerts`, `DecideFailureAlert` | called inside the repository's transactions |
| core, repository (`internal/core/repo.go`, `pricing.go`, `migrations/`) | `tracked_items` (threshold, interval, `next_check_at`, `claimed_until`, `failure_streak`), `price_snapshots`, `alerts` with a unique `dedup_key` | `CreateItem`, `UpdateItem`, `DeleteItem`, `ClaimDueItems`, `RecordSnapshot`, `RecordFailure`, reads | PostgreSQL row locks, `SKIP LOCKED`, read committed |
| core, statistics (`internal/core/grpc.go`, `platform/redisclient`) | Redis entries `stats:<item>:<window>` | `GetStats`, invalidation after `RecordSnapshot` | Redis and PostgreSQL, never atomically |
| scraper, pool (`internal/scraper/pool.go`) | a batch under lease, worker goroutines | claim, observe, convert, report, push alerts | core, currency, shops, the alert queue |
| scraper, client (`internal/scraper/client.go`) | next slot of each host | wait, fetch, retry | shops |
| currency (`internal/currency`) | a rate table in memory and in Redis | `Rate`, `Convert`, refresh | the rates provider |
| notifier (`internal/notify`, `platform/queue`) | Redis list, Redis claims, per-process attempt counters, workers | pop, claim, send, release, re-queue | Redis, Telegram |
| bot (`internal/bot`) | sessions in memory, a store (in memory or core) | commands, dialogue, callbacks | Telegram, core |
| domain (`internal/domain`) | none | money, intervals, URLs | everywhere |

What is hard here, and hardly reached by the unit tests:

* **several scrapers and several reports of one item**: leases expire, reports
  arrive late and out of order, items are retargeted or deleted meanwhile, and
  an alert may be raised once only although every report asks again;
* **the alerts table is a memory that never forgets**: a rule that is right for
  one reading can be wrong for a sequence of them;
* **delivery without transactions**: a Redis list that forgets what it hands
  out, claims that are taken, given back and lapse, retries, crashes and
  shutdowns, a messenger that may accept a message without saying so;
* **caches filled and invalidated in separate steps**;
* **schedules**: backoff, changed intervals and leases on the same columns.

What makes each component correct:

* alert engine and repository: every reached threshold, every new low and every
  stock change is reported, and none twice; every outage should be, and only the
  first one is (section 4); a healthy item is due within its interval; a lease
  never hides an item for longer than itself;
* statistics: only an item's owner is answered, with statistics that are not
  arbitrarily old and that fit together even then;
* notifier: an alert is shown at most once unless Redis failed or Telegram was
  ambiguous; nothing vanishes without one of the known causes; nothing
  circulates for ever;
* scraper pool: an item is in one pair of hands, every decided alert reaches the
  queue in order unless a call failed, every item is read again and again;
* scraper client and readers: a host gets its gap however many workers ask, a
  fetch ends, a page that says a price and an availability in any format is read
  as saying them, and one that says no price is not given one;
* currency: a rate is not older than promised, a burst costs one request, a
  conversion is exact up to its roundings and keeps the order of amounts;
* bot: an item carries the link and the target of one dialogue, in the user's
  currency;
* amounts: the bot and the scraper read the same printed amount alike;
* messages and `/stats`: what the user is told is true of the tables, in one
  currency and in the right direction;
* stores: the conversation is the same whether the bot keeps its items in memory
  or in core;
* user limits should hold under concurrent commands; they are passed by less than
  the number of those that overlap.

## 2. Modules

| Module | Models | State |
| --- | --- | --- |
| `Alerting` | `alerts.go` and the queries `latestSnapshot`, `allTimeMinimum` | operators only |
| `Pricing` | the transactions of `repo.go` and `pricing.go` | `status`, `item`, `snapshots`, `alerts`, history `retargeted` |
| `LowWatch` | abstract specification of all-time lows | `low`, `saleLow`, `announced` |
| `PricingRefinement` | the mapping from the tables to `LowWatch` | none of its own |
| `PricingProofs` | theorems about `Pricing`, and that it implements `LowWatch` | |
| `AlertMessages` | an alert's payload from the decision over the reply of core and the queue to the text | operators only |
| `PriceHistory` | `Stats` and `History` of core and of the memory store, the wire between, the sparkline and its caption | operators only |
| `PricingReports` | the messages of every step of `Pricing` | none of its own |
| `StatsReplies` | answers to `/stats`, computed from the tables of `Pricing` or kept from earlier ones | operators only |
| `ReportProofs` | that messages and answers to `/stats` are true | |
| `Notifier` | queue, claims, workers, attempts | `queue`, `claimed`, `pc`, `job`, `attempts`, `stopping` and history |
| `NotifierProofs` | theorems about `Notifier` | |
| `StatsCache` | `GetStats` against writes, expiry and Redis errors | `commits`, `pending`, `cache`, `reader`, `now` |
| `StatsCacheProofs` | theorems about `StatsCache` | |
| `ScrapePool` | the loops, batches and workers of several scrapers over the leases of core | `due`, `leased`, `batch`, `job`, `hand`, `pc`, `queued`, `reports` and history |
| `ScrapePoolProofs` | theorems about `ScrapePool` and `PageClient` | |
| `PageClient` | `client.go`: slots of a host, attempts of a fetch | operators only |
| `PageReading` | `extract.go`, `wildberries.go`, `adapter.go` and what `pool.go` makes of a reading | operators only |
| `ScrapeClient`, `ScrapeReadings` | the client and the readers, between taking an item and reporting it in `ScrapePool` | none of its own |
| `Rates` | the rate table of several replicas, in memory and in Redis | `memory`, `shared`, `mutex`, `pc`, `left`, `held`, `got` and history |
| `Conversion` | the fixed-point arithmetic of `rates.go` | operators only |
| `CurrencyService` | `Convert`: `Conversion` over the tables `Rates` hands out | none of its own |
| `RatesProofs` | theorems about `Rates` and about conversions | |
| `Dialog` | the handlers of one user's updates over the session store and the Store | `session`, `currency`, `items`, `pc`, `update`, `read`, `copy` and history |
| `DialogProofs` | theorems about `Dialog`, its limit included, and that the two stores agree | |
| `MoneyParse` | the amount parsers of `domain/money.go` and `scraper/money.go`, and printed amounts | operators only |
| `Thresholds` | properties of both parsers, in the states of `Dialog` | none of its own |
| `StoreData`, `MemStore`, `CoreStore` | the Store of the bot: what both implementations share, the one in memory, the one behind gRPC down to the tables | operators only |
| `StoreParity` | the two stores side by side, in the states of `Dialog` | none of its own |
| `Selecting` | what of a sequence is in a set, for the lists of alerts and items | operators only |
| `FoldFacts` | lemmas on folds, sums, quotients and on `Selecting` | |
| `PricingClaims`, `NotifierClaims`, `StatsCacheClaims` | readings of comments that the code contradicts | |
| `MC*` | values of the constants for TLC | |

**Conventions.** A Go pointer that may be nil is a set of at most one element.
An operator that precedes a definition under the comment "Mutation" is a
plausible bug in that definition; no specification uses it, and the property
paired with it in `PROJECT.json` fails when it takes the definition's place.

**Alerting and Pricing.** An action is one committed transaction: transactions
on an existing item take its row lock first (`lockItem`, or the row lock of
`UPDATE`), so they are serial. What the code rejects changes no row and is a
false guard. `RecordSnapshot` is the whole transaction: previous snapshot,
carried price, minimum, insert, decision, `ON CONFLICT DO NOTHING`, reschedule.
An alert is its `dedup_key`: kind, item, and an amount with its currency, a
snapshot or a streak. Time is counted down: `next` and `lease` are the ticks
left until `next_check_at` and `claimed_until`; `Tick` moves both. The reports
are those `Pool.process` can send: an in-stock reading has a price, a
conversion belongs to a price in another currency, and `observed_at` numbers
the readings of an item. Reports may overtake one another by `MaxLate`.

**AlertMessages, PricingReports.** `Alerting` knows an alert by its key;
`AlertMessages` adds the fields that `DecideAlerts` fills in and follows them
through `persistAlerts`, the reply of core, the queued payload and `Render`: a
message is its heading and the amounts of its lines, and formatting is left out.
These are operators: `PricingReports` evaluates them on every transaction of
`Pricing`, so the histories they see are those that carried prices, late
readings and changing currencies really produce.

**PriceHistory, StatsReplies.** A history is a set of snapshots in a table and a
sequence, oldest first, elsewhere; a window is the instant it starts at.
`Bucket` is the cut of `resample`, in exact integers where the code multiplies
floats (the two differ at a few lengths only, for instance 392 readings in 24
columns). `StatsReplies` evaluates them in every state of `Pricing`. `Answers` is
what `GetStats` computes from a window; `Cached` is what it may take from Redis instead, or have on its
way to the user while the tables move on: an answer computed from any part of the
rows, because a live item never loses one. `sendStats` of the bot reads the history for
the chart in a later call, which sees the tables of then, so an answer of either kind
is held to the tables of any later state. Which window an entry is for does not matter
to what is claimed; for how long an entry lives and whom it answers is `StatsCache`.

**Notifier.** One action per call to Redis or Telegram; a worker's `pc` says
which call comes next. `SendRetryable` has two outcomes because a call that
timed out may have been accepted. Faults are actions of their own and counted:
a lost `BLPOP` reply, a failed or repeated `SET NX`, a failed `DEL` or
`RPUSH`, a lapsed claim, a shutdown, a crash. `lost` and `unguarded` record,
per alert, that a copy was dropped and that its claim failed to guard a
delivery; no guard reads them.

**StatsCache.** Each Redis or PostgreSQL call is a step. The statistics are
abstracted to the number of snapshots they could take into account, because
only staleness is at stake. The deadline of a call is the one the caller's
`timeoutInterceptor` sets; a call past it can only give up.

**ScrapePool.** What `Pricing` proves of one row is abstracted to what the pool
sees of it: a claim leases due rows in the order of coming due, and a report of
either kind ends the lease, reschedules the row and returns the number of
alerts it decided, once. Time appears as its effects: a row comes due, a lease
that nobody holds runs out, a batch outlives its lease (a fault). A claimed
batch arrives in any order, because the statement joins after its update. Lost
claims, lost reports, lost replies, failed pushes and stopped processes are
faults. A stopped process starts again with nothing in its hands, since all
calls of its cancelled context fail.

**PageClient, PageReading, ScrapeClient, ScrapeReadings.** `waitForHost` takes its slot under a
lock, so a client is the sequence of its reservations with their times, in the
order of the lock; a cancelled wait keeps its slot. `Fetch` is a function from
the answers of a shop to the outcome and the attempts made. A page is its
JSON-LD blobs, its elements with an `itemprop` and its meta keys in the order of
the document; a price on it is a literal of `MoneyParse` with what stands around
it. Tokenising HTML and JSON is left out, and with it the name of the key a nested
object was under; the recursion through containers and nested offers, the
priority of the formats and the first-wins rules are not. `ScrapeClient` and
`ScrapeReadings` state that a worker that observes an item does so through these
operators, and enumerate schedules and answers, pages and products.

**Rates, CurrencyService.** Each call of a refresh to Redis or to the provider
is a step, made under the mutex of the replica. A table is its age: times are
ages and remaining lifetimes which `Tick` moves, so neither time nor the number
of outages is bounded. `Hold` bounds what the calls of a refresh may take and
`Patience` is the caller's deadline; waiting for the mutex does not look at it.
`Conversion` is pure; its two properties are evaluated over every table, and
stated of every state in which a call is answered.

**Dialog.** The Telegram library runs every update in a goroutine, so handlers of
one user overlap. Looking up the user, reading, writing and dropping the session
and each call to the Store are steps; what a handler has read is its `copy`. A
call to the Store is one step, but for `AddItem`: `CreateItem` of core counts the
items (`CountItems`), which locks nothing, and inserts one, which the unique index
refuses if the link is tracked (`AddItem`); `memStore` does both under its mutex,
which is one of the orders. Calls may fail before or after they took effect. An
expired session is one that is gone, since `get` and `gc` treat it so. A handler that rejects its update
returns; replies, and the commands that only read, are left out. Targets
remember the link they were typed for and whether the user had chosen their
currency: history, read by the properties only.

**MoneyParse, Thresholds.** A literal is groups of digits with separators between
them, as it is once spaces and symbols are dropped; signs and overflow are left
out. `Printed` writes an amount in a style (separator of groups, decimal
separator, number of decimals), which is the reference the parsers are held to.
Whole amounts of a currency with three decimals are left out of it when they are
written with one separator, because "1.234" may be either and nobody can tell;
with several ("1.234.567 KWD") the bot must read them right, and the scraper does
not (section 4).

**StoreData, MemStore, CoreStore, StoreParity.** A method of a store is an operator
that returns its error, its result and the store after it. The memory store is
[currency, items], as its maps are; the one behind gRPC is [currency, rows]
under the bot's client, the servers' checks, the conversions of both sides (a
missing value is an unset field, an interval whole seconds, an error a status
and an error again) and the statements of the repository. Statements run one at
a time; that those of `CreateItem` overlap is in `Dialog`. `AnswersAgree` calls every
method of both on corresponding contents of up to `MaxHeld` items with room for
`StoreLimit` per account, with the inputs handlers send and with intervals that the
checks must refuse. A threshold of 0, which `ParseMoney` lets a user type, or of an
amount that wrapped around, is among the inputs (`Worthless`): there core must refuse
without a change, and memory answers as if no threshold were given, which breaks the
promise of `grpcstore.go:25` (section 4).

## 3. Runs

| Run | Shows | Bounds |
| --- | --- | --- |
| `pricing` | alerts, schedule and leases over all operations of `Pricing`; messages, those of failures included, are true of the tables | one item, one currency, amounts 1..3, three readings in order, intervals 1 and 3 around a cap of 2, threshold 2, streak to 3 |
| `pricing_currencies` | reached targets with conversions and late readings; messages and answers to `/stats`, computed or cached, are true of the tables; `Pricing` implements `LowWatch` | two currencies, amounts 2 and 3, a threshold of 2, three readings that may arrive one late, a history limit of three, charts of two and of five columns; failures are left to `pricing` |
| `notifier` | all properties of delivery, liveness included | one alert pushed twice, three workers in two processes, three attempts, any two faults |
| `stats` | who is answered and how stale the answer is | one item, owner and stranger, two overlapping calls, two snapshots, a lifetime of two ticks, five ticks |
| `pool` | all properties of `ScrapePool`, liveness included, and of `ScrapeReadings` | two items, one of them refused by core, three workers in two processes, batches of two, one report with alerts per item, any two faults; two hosts, a gap of two ticks, up to four reservations, two retries; pages with four amounts in currencies of 0, 2 and 3 decimals |
| `rates` | all properties of `Rates`, `Conversion` and `CurrencyService` | two replicas, three callers, a lifetime of two ticks, a grace of three; every table of two rates 0..24 at scale 10, a word of 8 bits, eight amounts around its limits |
| `dialog` | all properties of `Dialog`, `Thresholds` and `StoreParity` | three products, two currencies, two updates in progress out of any number, a limit of one; 26 amounts of one to ten digits in every style of currencies with 0, 2 and 3 decimals; stores of two accounts with up to three of three links and a limit of two |
| `claim_bounce`, `claim_staying_below` | two comments on the alert rules are refuted | as `pricing` |
| `claim_at_most_once` | at-most-once delivery is refuted without any fault of Redis | one alert, one copy |
| `claim_stats_cache` | a recorded snapshot leaves cached windows behind | two windows, one call at a time |
| `claim_item_limit` | the limit is exceeded by overlapping updates | two links, two updates, a limit of one |

Why the bounds are enough: items never share state in core, so one item is as
good as many; three readings let a price fall, come back and fall again; the
intervals lie on both sides of the cap, so the cap takes effect as well below
as above an interval. Alerts share nothing in the notifier but the workers, so
one alert in two copies with three workers in two processes reaches every race
for a claim, and two faults let one fault repair or worsen another. The stats
run is long enough for an entry to be filled as late as its call allows, and to
be read as late as it lives and answered as late as that call allows;
`StaleBounded` is violated there with a bound one tick smaller.

Two items in batches of two let one process hold a batch while the other
finds a lapsed lease, and let an item that core refuses stand in front of one
it accepts; two workers of one process and one of another reach both the join
of a batch and the race of two batches. Two callers of one replica meet at its
mutex while a third shares Redis only. A grace longer than a lifetime separates
a table that is expired from one that may no longer be served. Eight amounts and
rates from 0 to 24 at a scale of 10 include ties of both roundings, missing and
zero rates, products beyond the word whose quotient is within it, and quotients
beyond it. Two updates in progress reach every pair of steps of two handlers,
and the number of updates is not bounded; a third handler only adds orders of
steps which change the session or the Store on behalf of drafts that two can
already make.

Four reservations let a retry of one worker queue behind the first attempts of
others at one host while another host stays free; with a gap of two ticks a
request can come in the middle of one. Two retries give a first, a middle and a
last attempt, and every sequence of answers is tried. The amounts of the pages
are printed with and without groups, with more and fewer decimals than the
currency has, in JSON that is nested up to three deep on either side. Two columns
are fewer and five more than three readings, so a column holds several readings
and several columns hold one. Two updates at a limit of one take a user one past it,
which is the bound, and a third link would let them go further. For the stores a limit
of two with three links lets a store be empty, full, and hold a duplicate of what is
refused at the limit; half a second in an interval shows what the wire cuts off.

`CHECK_DEADLOCK FALSE` stands in `notifier.cfg` and `pool.cfg` only where the
system rests: everything pushed is delivered or lost, or all items are deleted,
and no fault is left.

**Properties.** `TargetReached`, `NewLowReported` and `StockLedger` relate the
whole history of an item to what the user was told; `ScheduleBound` and `LeasedIsDue` tie the three scheduling columns
together. `ImplementsLowWatch` says that all-time lows are announced exactly
when a product on sale undercuts everything seen before, never twice.
`MessagesTrue` holds the messages of a report, made only of what core replied,
to the rows that were inserted and to the whole history: a "was" is a higher
price in the same currency, a low is below everything, the shop's own price
stands next to a converted one. `StatsTold` holds what core computes for `/stats`
to the window: one currency, five amounts that fit together, what the memory store
would say of the same readings, and a chart from the first price to the current
one in which a higher bar is a higher price. Of an answer that was cached while
readings came it says what is left: it fits together, its amounts are prices of
the item, and if it counts the readings that the window has now, in one currency,
it is the answer of now, so an old answer cannot be taken for a new one.
`DeliveredOnce`, `ClaimStandsForSomething` and
`NothingVanishes` are the three sides of the deduplication: not twice, not
claimed in vain, not gone. `AttemptsCapped` states how far per-process counters
can exceed the cap of the code, and `Drained` that the retries end.
`AnswersOwner` and `StaleBounded` are what is left of the cache's promises
without a working invalidation. `OneHolder` is what the leases are for: whatever
stops or is lost, two scrapers read one item only if a batch outlived its lease.
`QueuedInOrder` and `NothingMissing` follow an alert from the transaction that
decides it, and will never decide it again, to the list. `Attempted` is the
absence of starvation; it holds because a batch is larger than the number of
items core refuses, see section 4. `HostsSpared` is about all schedules of all
workers: requests to a host are apart by the gap, none waits for another host or
longer than those before it make it, and a fetch ends with the first answer that
settles it or its last attempt. `PagesRead` says that a page is read as meaning
what was put on it, whatever the format, the incomplete offers next to it and
the adapter that failed before, and that the request made of it passes the checks
core makes before its transaction (`pricing.go:64`); one of a sold-out product
without a price passes them and is refused inside when the item has no history
(`pricing.go:104`, see section 4). `StaleBounded` adds up the longest way of a table: stored late, passed
on through Redis, loaded at the end of its lifetime, served through an outage or, if the lifetime is
configured longer than the grace, to the end of that.
`OneRequest`, `SharedSpares` and `MutexServes` are what the mutex and the shared
cache are for. `Accurate` bounds the error of two roundings, `OrderKept` lets no
falling price rise by being converted. `OneDialogue` holds although handlers
write sessions over one another, because a session is copied and written whole;
`ChosenCurrency` ties a draft to what the user chose through a row that every
update writes; it allows the choice of before a change made while the price was
handled. `OvershootBounded` is what is left of the limit per user. `PriceRead` and `ThresholdRead` compare the two parsers with one
way of printing: the scraper must decide where the bot may ask back.
`AnswersAgree` compares two independent implementations of one interface, call
by call: the same errors, the same items, and corresponding contents afterwards;
where they are known to differ (section 4) it says how.

**Fairness.** `FairSpec` of `Notifier`: weak fairness of each worker's next step
(a goroutine runs, and each call it makes returns, by its timeout if need be)
and of the restart of a process that was told to stop. Nothing obliges the
scraper to push, Telegram to accept or a fault to occur. `FairSpec` of
`ScrapePool`: weak fairness of each worker's next step, of each process's claim
(its loop runs on a timer), and of time: a row comes due and an abandoned lease
runs out. Weak fairness suffices because a claim stays possible until it is
made while due rows are free; nothing obliges a given process to get a given
row. The other specifications state safety only.

## 4. Findings

1. **A drop to an amount reported before is silent** (`claim_bounce`).
   `alerts.go:77` promises a report after a bounce; the key is unique for the
   life of the item.
2. **A price that stays below the threshold is reported again after a reading
   without a conversion** (`claim_staying_below`), against `alerts.go:25` and
   `pool.go:206`.
3. **A message can be shown twice without any Redis error**
   (`claim_at_most_once`): a timed-out call to Telegram is repeated.
4. **Invalidation deletes a key nobody writes** (`claim_stats_cache`): cached
   windows live out their TTL.
5. **Overlapping `/add` commands exceed the limit** (`claim_item_limit`): the
   row lock that `repo.go:173` speaks of is not taken. They pass it by less than
   the number of updates that overlap (`OvershootBounded`, checked in `dialog`).

Observations that no run states:

* only the first outage of an item is reported. The key of a degraded alert is
  unique for the life of the item (`alerts.go:109`, `pricing.go:419`): after a
  success the next outage is silent, against `pricing.go:16`, `pricing.go:170` and
  `alerts.go:105`, whose reason, not to send a message every few minutes, does not
  apply to it;
* the two stores part on a threshold of 0. `domain.ParseMoney` accepts a typed "0",
  or what rounds to it, and no handler checks it; memory stores it, core refuses it
  (`repo.go:164`) and the bot tells the user of an internal error, against
  `grpcstore.go:25`. `AnswersAgree` says how they part, it does not excuse it;
* a product in stock without a price is read as sold out. `wbBestPrice` skips a size
  without a price before it can count as available (`wildberries.go:163`), so the
  branch for a product "in stock but priced nowhere" (`wildberries.go:128`) is never
  taken. `PagesRead` asks for the reading the code gives;
* "1.234.567 KWD" on a page is 1234.567. `splitDecimal` of the scraper takes the last
  three digits for decimals in a currency with three of them, however many groups
  precede them (`scraper/money.go:184`), where `domain/money.go:190` says that this
  can only be grouping: a threshold typed like the price is a thousand times it;
* a reply of `RecordSnapshot` that is lost takes its alerts along: core has stored
  them as raised and never raises them again (`pool.go:175`), and a SET NX that the
  Redis client repeats finds its own key, so an alert nobody delivered is skipped
  (`telegram.go:119`). The models have both as faults, and the properties allow
  what is lost by them;
* an item that core refuses on every report (sold out, without a price and
  without history) keeps its `next_check_at` and comes first in every claim: as
  many of them as a batch holds starve everybody else. `pool` has one, in
  batches of two;
* `/cancel` drops the session, and an answer in progress may write its copy back
  afterwards: the cancelled dialogue goes on, against `README.md:37`. In the same
  way the end of one dialogue drops another that was begun meanwhile;
* callers wait for the mutex of `currentTable` (`service.go:116`) past their own
  deadline, so while the provider hangs, those behind a refresh give up although
  a table within `staleGrace` is in memory, which `service.go:132` and
  `service_test.go:174` ("A provider outage must not stop conversions") would
  have them use;
* a client or dial timeout matches `context.DeadlineExceeded` and is taken for a
  cancellation (`client.go:200`): it is not retried, although `client.go:28`
  counts timeouts among what is worth retrying. Redirects do not pass
  `waitForHost`;
* `History` returns the oldest part of a window beyond its limit of 1000
  (`pricing.go:235`): at the shortest interval fourteen days have 4032 readings,
  and the chart stops days before the current price next to it. The stream that
  `grpcstore.go:241` praises for not capping a history carries a capped one;
* statistics are restricted to one currency, the sparkline is not: after a switch
  of currency its bars average and rank amounts of both. The three calls of
  `/stats` (`handlers.go:363`) see three moments, and the middle one may be a
  cached answer from a lifetime ago: a caption next to a chart that has gone on;
* `memstore.go:224` says that core reuses its maths; core rounds averages and
  memory truncates them. A window of zero is everything in memory and the default
  of fourteen days in core;
* an unknown item of Wildberries falls through to the page, whose block is what is
  reported;
* the first value of a meta key or `itemprop` wins whichever product of the page
  it belongs to (`extract.go:112`). A bare "1.299" in structured data is 1.30;
* a threshold raised above the current price (`repo.go:278`) has no edge to
  report until the price has gone up and come down;
* at the limit a link that is tracked already is "already tracked" in memory and
  "limit reached" in core; a user core has never seen is an error there and
  accepted in memory; an untitled item is titled after its host in memory only;
  fractions of a second are cut off on the wire, so core takes an interval under
  a second for an unset one and lets one above the maximum by a fraction pass,
  where memory refuses both (`handlers.go:240` checks before it adds, and nothing
  but tests calls `SetInterval`);
* `"-0.50"` has the integer part -0 and is read as positive (`money.go:126`); an
  amount near the limit of a word wraps around (`money.go:156`).

## 5. Proofs

`PricingProofs` proves for every value of the constants that satisfies the
named assumptions (amounts and stamps are natural numbers, `NoCurrency` is no
currency, intervals are positive and exist, targets are at most one amount of
money, the bounds are natural numbers, threshold, cap and lease positive):

* `TypeCorrect`, `ScheduleIsBounded`, `LeasedItemsAreDue`, `TargetAlwaysReached`,
  `LowKeysAlwaysWitnessed`: `Spec => []...`;
* `StockAlertsAddUp`: `Spec => []StockLedger`;
* `NewLowAlwaysReported`: the action property `Spec => NewLowReported`.

The inductive invariant is `IInv == TypeOK /\ ScheduleInv /\ AlertInv`. The
schedule needs the strengthening that a leased item is due, since a claim is
what allows `next` to stay at 0 while a failure or an interval change rewrites
it. `TargetReached` needs a stronger history than its own statement: an item
that has snapshots at or below its target and none above on sale has its drop
alert already (`AlertInv`), because only the first crossing has an edge. That
the backoff is capped (`BackoffBound`), that a decision only adds keys of the
right type (`DecideAlertsType`, `DecideFailureAlertType`), that the minimum of
a non-empty history exists (`MinimumExists`, by well-founded choice over
natural numbers, `LeastOfNats`) are lemmas of their own. `LowKeysWitnessed` is why deduplication cannot swallow a
new low: every key of a low names a price in the history. `NewLowAlwaysReported`
follows in one step from `IInv`: were the key of the new low in the table,
`LowKeysWitnessed` would give a snapshot of the same amount, which the new low
is below.

`StockLedger` counts alerts, so its induction is over cardinalities. `StockInv`
says that, while reports arrive in order, every stock alert names a reading
that exists (`ToldInv`), so the key of a new reading is in no table yet and
adds exactly one to the count of its kind, and that the balance is one of the
first reading and the latest (`BalanceInv`), which the new reading replaces.

It also proves `PricingImplementsLowWatch`, that is `Spec =>
ImplementsLowWatch`: the initial tables are an initial state of `LowWatch`, and
every transaction is one of its steps or a stutter. The minimum query moves
under an insert as `LowWatch` moves its mark (`LowAfter`), and that an
announcement of `LowWatch` is possible when the tables make one is once more
`LowKeysWitnessed`, of the invariant above.

`NotifierProofs` proves `TypeCorrect`, `DeliveredAtMostOnce`, `ClaimsAreHonest`
and `AlertsNeverVanish` for any number of alerts, copies, processes, workers,
attempts and faults, from `ProcessAssumption` and `NoAlertAssumption` alone, and
`AttemptsAreCapped` for finitely many workers and processes and at least one
attempt. They build on each other. `TypeInv` adds to `TypeOK` that a
worker has an alert in its hands exactly when its loop is not idle. Delivery at
most once is inductive only together with what a claim guards (`GuardInv`): a
key has at most one holder past the claim, each holder's key is claimed, and
after a delivery the key stays claimed and nobody holds it; this is where
"claim before send, release before requeue" of `deliver` and `requeue` is used.
`ClaimStandsForSomething` is inductive over the types: a worker that lets go of
an alert delivers it, loses it or has taken the claim back (`LettingGo`).
`NothingVanishes` needs it, because a worker that meets a claim drops its own
copy of the alert, and only what the claim stands for accounts for it
(`OutOfHands`).

`AttemptsCapped` is far from inductive: counters are per process and are
forgotten with it, while several workers try the same alert. `CapInv` bounds the
tries made together with those still possible. A *licence* is a worker past its
claim, or the alert itself as long as nobody has claimed it; without a fault
there is never more than one. `Room` is what the licences are worth: the attempts
left in all counters (counted as the set `Left`) and one for the first licence,
the full `Cap` for every other, and what a process that is stopping will be given
back. A try that is not counted yet (`Counting`) has used no attempt. Each step
keeps tries plus room within `Cap * (faults + 1)`: a try uses an attempt or ends
its licence, giving a claim back moves the licence to the alert, and a repeated
licence or a forgotten counter costs a fault, which pays for a whole `Cap`.

`ReportProofs` proves `MessagesAlwaysTrue`, that is `Spec => MessagesTrue`. Core's
reply is made of sequences: `SetToSeq` of the decided alerts, from which
`persistAlerts` selects those it inserted. `MessagesTrue` counts them, so the
proof needs that the decided alerts have different keys (`DecidedFacts`), that a
selection has the elements it should, each once, and in the order of the
sequence (`FoldFacts`). The amounts are true by `IInv` of `PricingProofs` and one
more fact, that no two snapshots of an item have one stamp (`StampsApart`): only
then is the previous snapshot of a message one price.

It also proves `StatsAlwaysTold`, that is `Spec => []StatsTold`, for histories of any
length, amounts of any size, every window, `HistoryLimit` and width of a chart, from
the assumptions of `Alerting`, `Pricing`, `PriceHistory` and `WidthsAssumption`. The
invariant is `TypeOK /\ StampsApart /\ HistoriesFinite`. That a cached answer is one
computed from some of the rows an item has now, which `Cached` takes for granted, is
`RowsStay`: no step takes a row from a live item (`HistoryGrows`). Such a part is the
window of now when it has as many rows (`ReplyHolds`). A history has one order
(`OldestFirstLists`), a newest reading that every non-empty window has
(`SeenFacts`), and a lowest and a highest amount (`AmountEnds`). A sum over a set
does not depend on the order (`SumAny`), so the query and the loop of
`aggregateStats` add up the same (`ListTotal`), the average is between the extremes
and rounding it adds one at most (`AverageFacts`). The columns of a chart are the
quotients `Edge`, of which no sample falls between two (`BucketFacts`); bars are
in the order of their columns because a quotient is monotonic (`BarFacts`).

`FoldFacts` holds the lemmas on folds that this and the stores need. The
induction theorems of the library take operators, so they are not usable here;
that a fold has a value for every prefix of its sequence (`FoldExists`) is proved
from the least prefix that has none. `Only` selects from a sequence what is in
a set; `OnlyFold` unrolls it, and `Paired` relates two selections from sequences
that correspond position by position (`OnlyPair`). For statistics there are sums
over finite sets (`SumExists`, `SumAny`, `SumBetween`), their ends (`EndsOfInts`) and
what is left of a division (`Parts`).

`DialogProofs` proves `TypeCorrect`, `OneDialogueHolds` and `ChosenCurrencyHolds`
for any number of overlapping updates, links and currencies, from
`DefaultAssumption` and `LimitAssumption`. The inductive invariant is
`IInv == StoreInv /\ CopyInv /\ HandlerInv`: a session is written as a whole, so
the copies in the hands of handlers must be as coherent as what is stored
(`CopyInv` repeats `StoreInv` for them), and a target is in a chosen currency
only because a price being handled has the currency chosen last among those it
may use, before and after it has read the row (`HandlerInv`). That the user's
row is always the last choice (`currency = chosen`, in `StoreInv`) is what
EnsureUser's ON CONFLICT contributes.

`OvershootIsBounded` needs finitely many handlers and a positive limit. `LimitInv`
counts the handlers past their count together with the items: a count that lets a
handler through has seen less than the limit, each of the others can add one item
after it, and an insert turns a handler into an item.

`DialogProofs` also proves `StoresAlwaysAgree`, that is `Spec => []AnswersAgree`, for
any accounts, links, currencies, limit, number of items and bounds of the
interval, from `DefaultAssumption`, `LimitAssumption`, `IntervalAssumption` and
`HeldAssumption`. Each call is followed through both stores from corresponding
contents: the rows are those of the items position by position, so a lookup, a
selection, a removal or an update meets corresponding items, and an item reaches
the bot over the wire as it is in core. Two things are excepted, and the property
says what holds instead: a threshold that is not positive (`WorthlessRefused`) and,
at the limit, a link that is there already. The answers agree because the two
tables of errors are inverse on the errors a call can give, and since an
interval within the bounds is neither unset nor out of bounds in whole seconds.

`StatsCacheProofs` proves `TypeCorrect`, `OwnerAlone` and `StaleNoLonger` for
all lifetimes, deadlines, items, users and calls, from `TimesAssumption`. The inductive invariant is
`IInv == TypeOK /\ CallsOK /\ EntriesOK`. An entry expires at most a lifetime and
a call after the first snapshot it misses (`EntryOK`), because it was computed
within the deadline of the call that stores it; a call has in hand only what is
that recent (`CallOK`, by where it stands). An answer is for the owner although
entries know no owner: a call that has come as far as an answer has passed the
query of ownership, or found an entry and asked afterwards, and an item never
changes hands.

`ScrapePoolProofs` proves `TypeCorrect`, `LeaseHasOneHolder`, `QueueKeepsOrder`
and `NoAlertMissing` for any number of items, workers, processes, alerts and
faults, from `ProcessAssumption` alone. The
invariant is `IInv == Types /\ Leases /\ HandsOrdered /\ QueuedInOrder /\
NothingMissing`. `Leases` says `OneHolder` without counting and adds that a batch
has no row twice and that no row is in a batch and a hand at once; what the claim
contributes is that it takes due rows no lease covers (`TakenFacts`).
`HandsOrdered` says that what a worker holds is the rest of one report whose
beginning is on the list already. It needs facts on removing one row from a
sequence without repetitions (`RemovedFacts`, `DueWithoutRow`).

It also proves `ClientKeepsApart`, that the slots of a `PageClient` are apart and
none is late without cause, for every gap and every schedule of any length, and
from it and `FetchSettles` the property `HostsAlwaysSpared` of the run. A slot is the later of the reservation and the end of the
gap after the last slot of the host (`NextFree`), which bounds it from both
sides; the attempts of a fetch are the least prefix of the answers that settles
it, or all of them.

`RatesProofs` proves `TypeCorrect`, `StaleNoLonger`, `BurstIsOneRequest`,
`RedisSpares` and `MutexAlwaysServes` for any number of replicas and callers and
all positive durations, from `CallerAssumption` and `DurationAssumption`. The
invariant ties together how long a call has held the mutex, what is left of its
deadline and the age of the table it has got (`CallOK`), how old a table in
Redis can become (`SharedOK`), and when the one in memory was asked for and
loaded (`MemoryOK`). It gave the bound of `StaleBounded` its present form: an
expired table serves for the grace, but one that has not expired is served as
well, so the longer of lifetime and grace counts.

It also proves `ConversionIsAccurate` and `ConversionKeepsOrder`
for every table of rates, scale, word and set of amounts, from
`CurrencyAssumption`, `ScaleAssumption` and `InputAssumption`: half-up rounding is
off by half a divisor (`HalfUpClose`) and monotonic (`HalfUpOrdered`), and the
errors of the two roundings add up (`TwoRoundings`, `ErrorsAdd`).
`domain.MinorUnits` gives no currency more than three decimals, which the
assumption says; the powers of ten are taken case by case, because a power of an
arbitrary exponent would need an induction.

All theorems are about the specifications without fairness, and assume nothing
but the named assumptions on constants, which TLC evaluates in the runs.

Model-checked only, because they are about numbers read digit by digit, for which
the prover would need inductions with arithmetic in each step: `PriceRead`,
`ThresholdRead` and `PagesRead`. The value of a literal is a fold over its digits,
and the decimals to cut are decided by comparing group lengths.

Because they are liveness, which the prover does not handle: `Drained` and
`Attempted`.

## 6. Not modelled

* Wording, escaping and truncation of messages, logging, configuration and its
  validation, start-up and shutdown order of the services: no state that the
  properties are about.
* URL normalisation and titles: string rewriting without state.
* Tokenising HTML and JSON, redirects, transport limits and body size: what
  reaches the readers is a parsed page.
* The invented history of the memory store's demo mode: it is random.
* Requests without ids or by strangers, cancelled calls in the middle of a
  handler of core: rejected or rolled back as a whole.
* Generated code: the messages are modelled by the conversions that fill them.
* Signs and overflow of typed amounts, the overflow of a percentage of an
  amount near the limit of a word.

## 7. Plan

In this order, the most consequential first:

1. `Pipeline`: `ScrapePool` composed with `Notifier`, from the transaction that
   decides an alert to the user.
2. Runs for the observations of section 4 that contradict a comment: later outages,
   a threshold of 0, stock without a price, grouped amounts of three decimals,
   timeouts that are not retried, the chart of a long history, the answer that
   outlives a `/cancel`.
3. `/stats` with the windows of its entries, and the chart of a later call next to
   a kept answer.

Proof to add: that a parser reads back what is printed in a style of two decimals.
