------------------------------ MODULE Thresholds ------------------------------
(***************************************************************************)
(* The threshold a user types in a Dialog, and the prices it is compared   *)
(* with, are read by two parsers (MoneyParse) from the same ways of        *)
(* writing amounts.                                                        *)
(***************************************************************************)
EXTENDS Dialog, MoneyParse

CONSTANT Amounts  \* in minor units

ASSUME AmountsAssumption == Amounts \subseteq Nat \ {0}

\* Whole amounts of a currency with three decimals: "1.234" may be grouped or split, and
\* nobody can tell; "1.234.567" is grouped, and the scraper takes it for split.
Undivided(p) == p[2] = 3 /\ p[3].places = 0
Separators(p) == Len(Printed(p[1], p[2], p[3]).seps)
Uncertain(p) == Undivided(p) /\ Separators(p) = 1
TakenForSplit(p) == Undivided(p) /\ Separators(p) > 1

\* What shops print, but for what nobody can read.
Prints == {p \in {<<a, exp, style>> : a \in Amounts, exp \in {0, 2, 3},
                                     style \in UNION {Styles(e) : e \in {0, 2, 3}}} :
             /\ p[3] \in Styles(p[2])
             /\ Fits(p[1], p[2], p[3])
             /\ ~Uncertain(p)}

\* Cents a shop prints for a currency without any, to the nearest unit.
Nearest(amount) == (amount + 50) \div 100

AllPricesRead == \A p \in Prints :
    LET l == Printed(p[1], p[2], p[3])
    IN  /\ ~TakenForSplit(p) => ParseAmount(l, p[2]) = {p[1]}
        /\ ParseDecimalAmount(Rendered(p[1], p[2]), p[2]) = {p[1]}
        /\ p[2] = 2 => ParseAmount(l, 0) = {Nearest(p[1])} \ {0}
AllThresholdsRead == \A p \in Prints :
    LET l == Printed(p[1], p[2], p[3])
    IN  /\ ParseTyped(l, p[2]) \subseteq {p[1]}
        /\ p[2] = 2 => ParseTyped(l, 0) \subseteq {Nearest(p[1])}

Drafted(h) == pc[h] = "setting" /\ \E s \in copy[h] : s.target # {}

\* Whichever separators a shop groups and splits with, and however many decimals it
\* prints, the scraper reads the price that was meant, to the nearest unit the currency
\* has, and so it does the one form of structured data; but for millions of a currency
\* with three decimals, of which it takes the last three digits for decimals.
PriceRead == \A h \in Handlers : Drafted(h) => AllPricesRead

\* A threshold typed the way some shop prints it is the amount that was meant, or is
\* asked back: it is never off by the factor between grouping and decimals, so that it
\* is compared with prices of the same size.
ThresholdRead == \A h \in Handlers : Drafted(h) => AllThresholdsRead
=============================================================================
