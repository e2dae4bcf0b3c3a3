----------------------------- MODULE PriceHistory -----------------------------
(***************************************************************************)
(* /stats: what is told of a price history.  The queries of core (Stats    *)
(* and History in internal/core/pricing.go), the same calls of the memory  *)
(* store (internal/bot/memstore.go), the way over the wire                 *)
(* (internal/core/convert.go, internal/bot/grpcstore.go) and the message   *)
(* (internal/bot/render.go).                                               *)
(*                                                                         *)
(* A history is a set of snapshots in a table and a sequence, oldest       *)
(* first, elsewhere.  A window is the instant it starts at.  Statistics of *)
(* nothing, an ErrNotFound, are an empty set.                              *)
(***************************************************************************)
EXTENDS Integers, Selecting, FiniteSetsExt

CONSTANT HistoryLimit  \* snapshots of one History call; 1000 in the code

ASSUME HistoryLimitAssumption == HistoryLimit \in Nat \ {0}

In(amount, currency) == [amount |-> amount, currency |-> currency]
InWindow(snaps, from) == {s \in snaps : s.at >= from}
\* ORDER BY observed_at
OldestFirst(snaps) ==
    [n \in 1 .. Cardinality(snaps) |->
        CHOOSE s \in snaps : Cardinality({t \in snaps : t.at < s.at}) = n - 1]
AmountsOf(snaps) == {s.price.amount : s \in snaps}
Total(snaps) == MapThenSumSet(LAMBDA s : s.price.amount, snaps)

-----------------------------------------------------------------------------
\* Core

\* ORDER BY observed_at LIMIT: of a longer history, the oldest part.
RepoHistory(snaps, from) ==
    LET rows == OldestFirst(InWindow(snaps, from))
    IN  SubSeq(rows, 1, Min({Len(rows), HistoryLimit}))

\* The WITH clauses of statsSQL: the newest sample, and those in its currency.
Newest(snaps) == {s \in snaps : \A t \in snaps : t.at <= s.at}
\* Mutation: the window has every currency.
WindowRowsMixed(snaps, from) == InWindow(snaps, from)
WindowRows(snaps, from) ==
    {s \in InWindow(snaps, from) : \A l \in Newest(snaps) : s.price.currency = l.price.currency}

\* (avg(amount))::BIGINT
Nearest(sum, n) == (2 * sum + n) \div (2 * n)

RepoStats(snaps, from) ==
    LET rows == WindowRows(snaps, from)
        oldest == CHOOSE s \in rows : \A t \in rows : s.at <= t.at
    IN  {[current |-> l.price, inStock |-> l.inStock, samples |-> Cardinality(rows),
          min |-> In(Min(AmountsOf(rows)), l.price.currency),
          max |-> In(Max(AmountsOf(rows)), l.price.currency),
          avg |-> In(Nearest(Total(rows), Cardinality(rows)), l.price.currency),
          first |-> oldest.price,
          windowFrom |-> oldest.at, windowTo |-> Max({s.at : s \in rows})] :
             l \in IF rows = {} THEN {} ELSE Newest(snaps)}

-----------------------------------------------------------------------------
\* The memory store

MemHistory(history, from) == Only(history, InWindow(ToSet(history), from))

\* The running values of aggregateStats.
Lowest(history) ==
    LET lower(best, s) == IF s.price.amount < best.amount THEN s.price ELSE best
    IN  FoldLeft(lower, Head(history).price, history)
Highest(history) ==
    LET higher(best, s) == IF s.price.amount > best.amount THEN s.price ELSE best
    IN  FoldLeft(higher, Head(history).price, history)
SumOf(history) == FoldLeft(LAMBDA n, s : n + s.price.amount, 0, history)

AggregateStats(history) ==
    LET first == Head(history)
        last == Last(history)
    IN  [current |-> last.price, inStock |-> last.inStock, samples |-> Len(history),
         min |-> Lowest(history), max |-> Highest(history),
         avg |-> In(SumOf(history) \div Len(history), first.price.currency),
         first |-> first.price, windowFrom |-> first.at, windowTo |-> last.at]

MemStats(history, from) ==
    {AggregateStats(h) : h \in {MemHistory(history, from)} \ {<<>>}}

-----------------------------------------------------------------------------
\* Statistics on the wire, and what a domain.Stats says of itself

Moved(s) == s.samples >= 2 /\ s.first.amount # s.current.amount
Trend(s) == IF ~Moved(s) THEN "flat"
            ELSE IF s.current.amount < s.first.amount THEN "down" ELSE "up"

\* In tenths of a percent, the way %.1f prints it.
ChangePercent(s) ==
    IF s.samples < 2 \/ s.first.amount = 0 THEN 0
    ELSE (2000 * (s.current.amount - s.first.amount) + s.first.amount)
             \div (2 * s.first.amount)

StatsToProto(s) ==
    [current |-> s.current, min |-> s.min, max |-> s.max, avg |-> s.avg, first |-> s.first,
     trend |-> Trend(s), change_percent |-> ChangePercent(s), samples |-> s.samples,
     in_stock |-> s.inStock, first_observed_at |-> s.windowFrom,
     last_observed_at |-> s.windowTo]

\* The trend and the change are worked out again.
StatsFromProto(m) ==
    [current |-> m.current, min |-> m.min, max |-> m.max, avg |-> m.avg, first |-> m.first,
     samples |-> m.samples, inStock |-> m.in_stock,
     windowFrom |-> m.first_observed_at, windowTo |-> m.last_observed_at]

-----------------------------------------------------------------------------
\* The message

\* The samples of column i: a share of the history, or the one sample there is.
\* (The code multiplies floats: for some lengths an edge is one sample earlier.)
Bucket(n, width, i) ==
    LET start == ((i - 1) * n) \div width
        end == (i * n) \div width
    IN  IF start < end THEN start + 1 .. end ELSE {Min({start, n - 1}) + 1}

Column(history, width, i) ==
    LET shown == Bucket(Len(history), width, i)
    IN  MapThenSumSet(LAMBDA k : history[k].price.amount, shown) \div Cardinality(shown)

\* One of eight bars per column.
Sparkline(history, width) ==
    IF Len(history) < 2 \/ width < 2 THEN <<>>
    ELSE LET columns == [i \in 1 .. width |-> Column(history, width, i)]
             low == Min(ToSet(columns))
             span == Max(ToSet(columns)) - low
         IN  [i \in 1 .. width |-> IF span = 0 THEN 0 ELSE ((columns[i] - low) * 7) \div span]

\* The caption goes with the chart.
RenderStats(s, history, width) ==
    LET chart == Sparkline(history, width)
    IN  [current |-> s.current, min |-> s.min, max |-> s.max, avg |-> s.avg,
         trend |-> Trend(s), change |-> ChangePercent(s), inStock |-> s.inStock,
         samples |-> s.samples, span |-> s.windowTo - s.windowFrom,
         chart |-> chart,
         caption |-> IF chart = <<>> THEN <<>> ELSE <<s.first, s.current>>]
=============================================================================
