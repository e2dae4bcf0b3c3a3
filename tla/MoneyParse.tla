------------------------------ MODULE MoneyParse ------------------------------
(***************************************************************************)
(* Amounts of money as people write them: how the bot reads a threshold    *)
(* (internal/domain/money.go), how the scraper reads a price off a page or *)
(* out of structured data (internal/scraper/money.go), and how amounts are *)
(* printed.                                                                *)
(*                                                                         *)
(* A literal is groups of digits with a separator between each two: spaces *)
(* and symbols are dropped before anything is decided.  An amount is in    *)
(* minor units; exp is the number of decimals of its currency.  What is    *)
(* refused, or asked back, is an empty set.                                *)
(***************************************************************************)
EXTENDS Naturals, Sequences, SequencesExt

\* "1.234,50" is [groups |-> <<<<1>>, <<2, 3, 4>>, <<5, 0>>>>, seps |-> <<".", ",">>].
Value(digits) == FoldLeft(LAMBDA v, d : 10 * v + d, 0, digits)
Mixed(l) == "." \in ToSet(l.seps) /\ "," \in ToSet(l.seps)
NoFraction(l) == [whole |-> FlattenSeq(l.groups), fraction |-> <<>>]
LastDecimal(l) == [whole |-> FlattenSeq(Front(l.groups)), fraction |-> Last(l.groups)]

\* Missing digits are zeros; of more than the currency has, half a unit rounds up.
InMinorUnits(n, exp) ==
    Value(n.whole) * 10^exp
    + IF Len(n.fraction) <= exp THEN Value(n.fraction) * 10^(exp - Len(n.fraction))
      ELSE Value(SubSeq(n.fraction, 1, exp)) + (IF n.fraction[exp + 1] >= 5 THEN 1 ELSE 0)

-----------------------------------------------------------------------------
\* The bot (domain.ParseMoney)

\* Mutation: one separator is the decimal one.
AmbiguousNever(l) == FALSE
\* 1.234 may be 1234 or 1.23.
Ambiguous(l) ==
    /\ Len(l.groups) = 2
    /\ Len(l.groups[2]) = 3
    /\ Len(l.groups[1]) \in 1 .. 3
    /\ l.groups[1][1] # 0

SplitTyped(l) ==
    IF Ambiguous(l) THEN {}
    ELSE IF Len(l.groups) = 2 \/ Mixed(l) THEN {LastDecimal(l)}
    ELSE {NoFraction(l)}

ParseTyped(l, exp) ==
    IF FlattenSeq(l.groups) = <<>> /\ l.seps = <<>> THEN {}
    ELSE {InMinorUnits(n, exp) : n \in SplitTyped(l)}

-----------------------------------------------------------------------------
\* The scraper (ParseAmount, ParseDecimalAmount)

\* Mutation: grouping is not considered.
IsDecimalAlways(l, exp) == l.seps # <<>> /\ Last(l.groups) # <<>>
IsDecimal(l, exp) ==
    LET after == Len(Last(l.groups))
    IN  /\ l.seps # <<>>
        /\ after \in 1 .. 3
        /\ after = 3 => exp = 3

Positive(amounts) == amounts \ {0}

ParseAmount(l, exp) ==
    IF FlattenSeq(l.groups) = <<>> THEN {}
    ELSE Positive({InMinorUnits(IF IsDecimal(l, exp) THEN LastDecimal(l) ELSE NoFraction(l), exp)})

\* In structured data the point is the decimal separator, and the only one.
ParseDecimalAmount(l, exp) ==
    IF l.seps = <<>> THEN Positive({InMinorUnits(NoFraction(l), exp)})
    ELSE IF l.seps = <<".">> THEN Positive({InMinorUnits(LastDecimal(l), exp)})
    ELSE {}

-----------------------------------------------------------------------------
\* How amounts are printed: by shops in some style, by Money.String in one.

Width(n) == CHOOSE w \in 1 .. 10 : n \div 10^(w - 1) \in (IF w = 1 THEN 0 ELSE 1) .. 9
Digits(n, width) == [i \in 1 .. width |-> (n \div 10^(width - i)) % 10]

\* 1234567 in groups of three: <<1>>, <<2, 3, 4>>, <<5, 6, 7>>.
Grouped(n) ==
    LET k == (Width(n) + 2) \div 3
    IN  [i \in 1 .. k |-> LET group == (n \div 1000^(k - i)) % 1000
                          IN  Digits(group, IF i = 1 THEN Width(group) ELSE 3)]

\* A style has a separator of groups, or none (or a space), a decimal separator, and a
\* number of decimals; zeros beyond them are not printed.
Styles(exp) == {s \in [group : {".", ",", "none"}, decimal : {".", ","}, places : 0 .. exp] :
                  s.group # s.decimal}

Fits(amount, exp, style) == amount % 10^(exp - style.places) = 0

Printed(amount, exp, style) ==
    LET whole == amount \div 10^exp
        part == (amount % 10^exp) \div 10^(exp - style.places)
        heads == IF style.group = "none" THEN <<Digits(whole, Width(whole))>> ELSE Grouped(whole)
        seps == [i \in 1 .. Len(heads) - 1 |-> style.group]
    IN  IF style.places = 0 THEN [groups |-> heads, seps |-> seps]
        ELSE [groups |-> Append(heads, Digits(part, style.places)),
              seps |-> Append(seps, style.decimal)]

Rendered(amount, exp) == Printed(amount, exp, [group |-> "none", decimal |-> ".", places |-> exp])
=============================================================================
