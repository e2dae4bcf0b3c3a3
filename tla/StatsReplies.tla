----------------------------- MODULE StatsReplies -----------------------------
(***************************************************************************)
(* What the user is told of the tables of Pricing when they ask: the       *)
(* answers to /stats.                                                      *)
(*                                                                         *)
(* GetStats of core (internal/core/grpc.go) computes statistics from the   *)
(* tables or takes those that Redis has kept, and the bot reads the        *)
(* history for the chart in a call of its own (sendStats in                *)
(* internal/bot/handlers.go).  So an answer may stand next to tables that  *)
(* have moved on since it was computed.  Who is answered, and how old an   *)
(* answer may be, is the subject of module StatsCache.                     *)
(***************************************************************************)
EXTENDS Pricing, PriceHistory

CONSTANT Widths  \* columns of a chart; 24 in the code

ASSUME WidthsAssumption == Widths \subseteq Nat \ {0, 1}

\* What the bot makes of the statistics of a window, over the wire: a miss.
Answers(snaps, from) == {StatsFromProto(StatsToProto(s)) : s \in RepoStats(snaps, from)}

\* A hit: what a miss found earlier.  A live item loses no row, so the rows that were in
\* the window then are some of those it has now; which, is not restricted to what was
\* recorded first.  The invalidation by RecordSnapshot deletes a key that no entry has.
Cached(snaps) == UNION {Answers(rows, 0) : rows \in SUBSET snaps}

-----------------------------------------------------------------------------
\* Properties

OneCurrency(snaps) == Cardinality({s.price.currency : s \in snaps}) = 1

\* The five amounts are in one currency and in order.
Consistent(s) ==
    /\ \A m \in {s.min, s.max, s.avg, s.first} : m.currency = s.current.currency
    /\ \A m \in {s.current, s.avg, s.first} : m.amount \in s.min.amount .. s.max.amount
    /\ Trend(s) = "down" => ChangePercent(s) <= 0
    /\ Trend(s) = "up" => ChangePercent(s) >= 0

\* Both stores tell the same, but for what they do with the fraction of an average.
SameAsMemory(s, mem) ==
    /\ [s EXCEPT !.avg = mem.avg] = mem
    /\ s.avg.amount - mem.avg.amount \in 0 .. 1

\* The chart starts at the first price and ends at the current one of the caption; the
\* bars are in the order of the prices, from the lowest to the highest.
Drawn(s, history, width) ==
    LET m == RenderStats(s, history, width)
        n == Len(history)
        bucket == [c \in 1 .. width |-> Bucket(n, width, c)]
        shown == [k \in 1 .. n |-> CHOOSE c \in 1 .. width : k \in bucket[c]]
    IN  /\ m.chart = <<>> <=> n < 2
        /\ UNION {bucket[c] : c \in 1 .. width} = 1 .. n
        /\ m.chart # <<>> =>
              /\ m.caption = <<history[1].price, history[n].price>>
              /\ 1 \in bucket[1] /\ n \in bucket[width]
              /\ ToSet(m.chart) \subseteq 0 .. 7 /\ 0 \in ToSet(m.chart)
              /\ n <= width => \A j, k \in 1 .. n :
                    history[j].price.amount <= history[k].price.amount =>
                        m.chart[shown[j]] <= m.chart[shown[k]]

\* As many readings as the window has now, and none from before it.
Counts(s, seen, from) == s.samples = Cardinality(seen) /\ s.windowFrom >= from

\* Whatever was recorded, carried forward or read late, and whichever currencies the
\* shop used: the tables have statistics exactly when the window has a reading, they are
\* in the currency of the newest one and fit together, and in one currency they are what
\* the memory store would tell; a history within the limit is drawn from end to end.
TablesTold ==
    \A i \in Items, from \in Stamps :
        LET snaps == snapshots[i]
            seen == InWindow(snaps, from)
            history == RepoHistory(snaps, from)
            told == Answers(snaps, from)
        IN  /\ told = {} <=> seen = {}
            /\ \A s \in told :
                  /\ Consistent(s)
                  /\ \E l \in Newest(snaps) : s.current = l.price /\ s.inStock = l.inStock
                  /\ OneCurrency(seen) =>
                        /\ \A m \in MemStats(OldestFirst(snaps), from) : SameAsMemory(s, m)
                        /\ Cardinality(seen) <= HistoryLimit =>
                              \A w \in Widths : Drawn(s, history, w)

\* An answer from the cache, or next to a history read later, may be behind the tables.
\* It still fits together and every amount in it is a price of the item; and when it
\* counts the readings that the window has now, in one currency, it is the answer of now.
RepliesHold ==
    \A i \in Items :
        LET cached == Cached(snapshots[i])
            prices == {r.price : r \in snapshots[i]}
        IN  /\ \A s \in cached : Consistent(s) /\ {s.min, s.max, s.first, s.current} \subseteq prices
            /\ \A from \in Stamps :
                  LET seen == InWindow(snapshots[i], from)
                      told == Answers(snapshots[i], from)
                  IN  OneCurrency(seen) =>
                          \A s \in cached : Counts(s, seen, from) => s \in told

\* grpc.go:250 GetStats: what it computes, and what it has kept.
StatsTold == TablesTold /\ RepliesHold
=============================================================================
