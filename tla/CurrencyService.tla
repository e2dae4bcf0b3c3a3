--------------------------- MODULE CurrencyService ---------------------------
(***************************************************************************)
(* Convert (internal/currency/service.go): the table that Rates hands out, *)
(* whichever of the provider's it is, applied by Conversion.               *)
(***************************************************************************)
EXTENDS Rates, Conversion

Answered(c) == pc[c] = "replying" /\ got[c] # {}

Pairs == {p \in Currencies \X Currencies : p[1] # p[2]}

AccurateIn(t) ==
    \A p \in Pairs, a \in Amounts : \A q \in Convert(t, p[1], p[2], a) :
        \A r1 \in RateFromBase(t, p[1]), r2 \in RateFromBase(t, p[2]) :
            LET error == 2 * Scale * (q * r1 * 10 ^ MinorUnits[p[1]]
                                      - a * r2 * 10 ^ MinorUnits[p[2]])
                bound == r1 * (Scale * 10 ^ MinorUnits[p[1]] + a * 10 ^ MinorUnits[p[2]])
            IN  -bound <= error /\ error <= bound
AllAccurate == \A t \in Tables : AccurateIn(t)

OrderKeptIn(t) ==
    \A p \in Pairs, a \in Amounts : \A b \in {b \in Amounts : b > a} :
        \A q \in Convert(t, p[1], p[2], a), r \in Convert(t, p[1], p[2], b) : q <= r
AllOrdered == \A t \in Tables : OrderKeptIn(t)

\* A converted price is the exact one, up to half a minor unit of its own and what
\* half a unit of the fixed-point rate amounts to: deriving the rate through the
\* base currency, then applying it, loses no more than those two roundings.
Accurate == \A c \in Callers : Answered(c) => AllAccurate

\* A price that falls in the shop's currency never rises in the user's: converting
\* keeps the order of amounts, up to the largest the target's width can hold.
OrderKept == \A c \in Callers : Answered(c) => AllOrdered
=============================================================================
