------------------------------ MODULE Conversion ------------------------------
(***************************************************************************)
(* The arithmetic of exchange rates (internal/currency/rates.go): rates in *)
(* fixed point relative to one base currency, the rate of a pair derived   *)
(* from two of them, and an amount in minor units rescaled to the minor    *)
(* units of another currency.  What an operation refuses is an empty set.  *)
(***************************************************************************)
EXTENDS Integers

CONSTANTS
    Currencies,
    Base,       \* PivotCurrency
    MinorUnits, \* decimals of each currency
    Scale,      \* RateScale
    MaxInt,     \* the largest int64
    Tables,     \* provider tables: rates relative to Base, some currencies missing
    Amounts     \* amounts to convert

\* No currency has more than a thousandth subunit (domain.MinorUnits).
ASSUME CurrencyAssumption == Base \in Currencies /\ MinorUnits \in [Currencies -> 0 .. 3]
ASSUME ScaleAssumption == Scale \in Nat \ {0} /\ MaxInt \in Nat \ {0}

ASSUME InputAssumption ==
    /\ \A t \in Tables : DOMAIN t \subseteq Currencies /\ \A c \in DOMAIN t : t[c] \in Nat
    /\ Amounts \subseteq Nat \ {0}

\* Mutation: rounded down.
Floor(n, d) == n \div d
HalfUp(n, d) == n \div d + (IF 2 * (n % d) >= d THEN 1 ELSE 0)

InRange(n) == 0 < n /\ n <= MaxInt

RateFromBase(t, c) ==
    IF c = Base THEN {Scale} ELSE {t[d] : d \in {d \in DOMAIN t : d = c /\ t[d] > 0}}

Cross(t, from, to) ==
    IF from = to THEN {Scale}
    ELSE {r \in {HalfUp(rates[2] * Scale, rates[1]) :
                 rates \in RateFromBase(t, from) \X RateFromBase(t, to)} : InRange(r)}

\* Mutation: the product is a machine word instead of a big integer.
ApplyInWord(rate, from, to, amount) ==
    LET product == ((amount * rate + MaxInt + 1) % (2 * (MaxInt + 1))) - (MaxInt + 1)
    IN  {q \in {HalfUp(product * 10 ^ MinorUnits[to], Scale * 10 ^ MinorUnits[from])} :
         InRange(q)}
\* Amounts are in minor units: those of the two currencies may differ in size.
Apply(rate, from, to, amount) ==
    {q \in {HalfUp(amount * rate * 10 ^ MinorUnits[to], Scale * 10 ^ MinorUnits[from])} :
     InRange(q)}

Convert(t, from, to, amount) ==
    UNION {Apply(rate, from, to, amount) : rate \in Cross(t, from, to)}
=============================================================================
