------------------------------- MODULE Money -------------------------------
(***************************************************************************)
(* Money as a whole number of minor units (ledgergraph_domain/money.py):   *)
(* what a written amount is read as, how an amount is written, and how one *)
(* is split without losing a minor unit.  An amount as the file writes it  *)
(* is its digits as a number, its decimal places, its sign and the lengths *)
(* of the digit groups before the point.                                   *)
(***************************************************************************)
EXTENDS Numbers, FiniteSets

CONSTANTS
    ContextDigits,   \* significant digits a Decimal operation keeps: 28 in Python
    MinorMax         \* the largest minor amount stored: 2^63 - 1

ASSUME MoneyAssumption == ContextDigits \in Nat \ {0} /\ MinorMax \in Nat

CurrencyExponent == [INR |-> 2, USD |-> 2, EUR |-> 2, GBP |-> 2, AED |-> 2,
                     SGD |-> 2, JPY |-> 0, KWD |-> 3, BHD |-> 3, OMR |-> 3]

Signs == {"none", "minus", "paren", "twice"}   \* 5, -5, (5), (-5)

\* lead: a currency symbol stands before the sign, as in "Rs -5".
Written(sign, lead, groups, coef, places) ==
    [form |-> "text", sign |-> sign, lead |-> lead,
     groups |-> groups, coef |-> coef, places |-> places]
Unwritten(form) == [Written("none", FALSE, <<1>>, 0, 0) EXCEPT !.form = form]

Read(n)      == [code |-> "ok", minor |-> n]
Refuse(code) == [code |-> code, minor |-> 0]

----------------------------------------------------------------------------
(* Reading *)

Plain(groups)   == Len(groups) = 1
Western(groups) == /\ Len(groups) > 1
                   /\ groups[1] \in 1..3
                   /\ \A i \in 2..Len(groups) : groups[i] = 3
Indian(groups)  == /\ Len(groups) > 2
                   /\ groups[1] \in 1..2
                   /\ \A i \in 2..(Len(groups) - 1) : groups[i] = 2
                   /\ groups[Len(groups)] = 3
WellGrouped(groups) == Plain(groups) \/ Western(groups) \/ Indian(groups)

\* A Decimal operation keeps ContextDigits digits, half to even.
Fixed(n) ==
    IF n < Ten[ContextDigits] THEN n
    ELSE LET unit == Ten[DigitCount[n] - ContextDigits]
             kept == n \div unit
             rest == n % unit
             up   == 2 * rest > unit \/ (2 * rest = unit /\ kept % 2 = 1)
         IN  unit * (IF up THEN kept + 1 ELSE kept)

\* Variant: a fraction the currency does not have is cut off.
ToMinorCut(coef, places, exponent) ==
    IF places <= exponent
    THEN Read(Fixed(coef) * Ten[exponent - places])
    ELSE Read(Fixed(coef) \div Ten[places - exponent])

\* _to_minor: scaleb rounds to the context, then the fraction must be empty.
ToMinor(coef, places, exponent) ==
    IF places <= exponent
    THEN Read(Fixed(coef) * Ten[exponent - places])
    ELSE LET unit == Ten[places - exponent]
         IN  IF Fixed(coef) % unit = 0 THEN Read(Fixed(coef) \div unit)
                                       ELSE Refuse("AMOUNT_PRECISION_LOSS")

\* _parse_string: parentheses count only at the two ends, before any symbol.
StringCode(cell) ==
    CASE cell.form = "blank" -> "AMOUNT_EMPTY"
      [] cell.lead /\ cell.sign \in {"paren", "twice"} -> "AMOUNT_MALFORMED"
      [] cell.sign = "twice" -> "AMBIGUOUS_SIGN"
      [] ~WellGrouped(cell.groups) -> "AMOUNT_MALFORMED"
      [] OTHER -> "ok"

\* The amount with its sign again, where the column of 64 bits holds it.
Stored(minor) == IF minor \in (-MinorMax - 1)..MinorMax
                 THEN Read(minor) ELSE Refuse("AMOUNT_OUT_OF_RANGE")
Signed(negative, read) ==
    IF read.code = "ok" THEN Stored(IF negative THEN -read.minor ELSE read.minor)
                        ELSE read

\* parse_money_to_minor
ParseMoney(cell, currency, allowNegative) ==
    LET negative == cell.sign # "none"
    IN  CASE currency \notin DOMAIN CurrencyExponent ->
                 Refuse("AMOUNT_UNSUPPORTED_CURRENCY")
          [] StringCode(cell) # "ok" -> Refuse(StringCode(cell))
          [] negative /\ ~allowNegative -> Refuse("AMOUNT_NEGATIVE")
          [] OTHER ->
                 Signed(negative, ToMinor(cell.coef, cell.places, CurrencyExponent[currency]))

----------------------------------------------------------------------------
(* Writing *)

\* Variant: pairs are cut from the front.
IndianGroupsFromTheFront(n) ==
    IF n <= 3 THEN <<n>>
    ELSE LET pairs == (n - 2) \div 2
         IN  [i \in 1..(pairs + 1) |->
                 CASE i = 1 -> 3
                   [] i = pairs + 1 -> n - 3 - 2 * (pairs - 1)
                   [] OTHER -> 2]

\* _group_western and _group_indian: the lengths of the groups of n digits.
WesternGroups(n) ==
    [i \in 1..((n + 2) \div 3) |->
        IF i = 1 THEN n - 3 * ((n - 1) \div 3) ELSE 3]
IndianGroups(n) ==
    IF n <= 3 THEN <<n>>
    ELSE LET pairs == (n - 2) \div 2
         IN  [i \in 1..(pairs + 1) |->
                 CASE i = pairs + 1 -> 3
                   [] i = 1 -> n - 3 - 2 * (pairs - 1)
                   [] OTHER -> 2]

\* format_minor without the symbol.
FormatMinor(minor, currency) ==
    LET exponent == CurrencyExponent[currency]
        size     == IF minor < 0 THEN -minor ELSE minor
        whole    == DigitCount[size \div Ten[exponent]]
    IN  Written(IF minor < 0 THEN "minus" ELSE "none", FALSE,
                IF currency = "INR" THEN IndianGroups(whole) ELSE WesternGroups(whole),
                size, exponent)

----------------------------------------------------------------------------
(* Splitting *)

\* Variant: the units left over go by index, largest remainder or not.
AllocateByIndex(total, weights) ==
    LET all       == SumOf(weights)
        magnitude == IF total < 0 THEN -total ELSE total
        sign      == IF total < 0 THEN -1 ELSE 1
        Floor(i)  == (magnitude * weights[i]) \div all
        shortfall == magnitude - SumOf([i \in DOMAIN weights |-> Floor(i)])
    IN  [i \in DOMAIN weights |->
            sign * (Floor(i) + IF i <= shortfall THEN 1 ELSE 0)]

\* allocate_minor, for weights that are not all zero: every share is floored
\* and what is left goes, a unit each, to the largest remainders, ties by index.
Allocate(total, weights) ==
    LET all       == SumOf(weights)
        magnitude == IF total < 0 THEN -total ELSE total
        sign      == IF total < 0 THEN -1 ELSE 1
        Floor(i)  == (magnitude * weights[i]) \div all
        Rest(i)   == (magnitude * weights[i]) % all
        shortfall == magnitude - SumOf([i \in DOMAIN weights |-> Floor(i)])
        Before(i) == {j \in DOMAIN weights :
                         \/ Rest(j) > Rest(i)
                         \/ Rest(j) = Rest(i) /\ j < i}
    IN  [i \in DOMAIN weights |->
            sign * (Floor(i) + IF Cardinality(Before(i)) < shortfall THEN 1 ELSE 0)]

=============================================================================
