------------------------------- MODULE LowWatch -------------------------------
(***************************************************************************)
(* What the core service promises about all-time lows: per item and        *)
(* currency there is one lowest price, and a price is announced exactly    *)
(* when a product on sale undercuts it, never twice for the same price.    *)
(* A low set while the product is sold out moves the mark without a word,  *)
(* and coming back on sale at that price is no new low.                    *)
(***************************************************************************)
EXTENDS Naturals

CONSTANTS Items, Currencies, Amounts

VARIABLES
    low,       \* lowest price seen: at most one amount per item and currency
    saleLow,   \* the same over the readings that found the product on sale
    announced  \* prices announced as all-time lows

vars == <<low, saleLow, announced>>

Nothing == [i \in Items |-> [c \in Currencies |-> {}]]

Init == /\ low = Nothing
        /\ saleLow = Nothing
        /\ announced = [i \in Items |-> {}]

Undercuts(amount, mark) == \E l \in mark : amount < l
Lowered(mark, amount) == IF mark = {} \/ Undercuts(amount, mark) THEN {amount}
                         ELSE mark

OnSale(i, amount, c) ==
    /\ low' = [low EXCEPT ![i][c] = Lowered(@, amount)]
    /\ saleLow' = [saleLow EXCEPT ![i][c] = Lowered(@, amount)]
    /\ IF Undercuts(amount, low[i][c])
       THEN /\ <<amount, c>> \notin announced[i]
            /\ announced' = [announced EXCEPT ![i] = @ \cup {<<amount, c>>}]
       ELSE UNCHANGED announced

SoldOut(i, amount, c) ==
    /\ low' = [low EXCEPT ![i][c] = Lowered(@, amount)]
    /\ UNCHANGED <<saleLow, announced>>

Forget(i) ==
    /\ low' = [low EXCEPT ![i] = [c \in Currencies |-> {}]]
    /\ saleLow' = [saleLow EXCEPT ![i] = [c \in Currencies |-> {}]]
    /\ announced' = [announced EXCEPT ![i] = {}]

\* Nothing that moves a mark.  Listed first because TLC stops at the first disjunct
\* that fits, and most steps of an implementation are of this kind.
Other == UNCHANGED vars

Next == \/ Other
        \/ \E i \in Items :
            \/ \E amount \in Amounts, c \in Currencies :
                   OnSale(i, amount, c) \/ SoldOut(i, amount, c)
            \/ Forget(i)

Spec == Init /\ [][Next]_vars
=============================================================================
