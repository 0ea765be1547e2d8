------------------------- MODULE Normaliser_proofs -------------------------
(***************************************************************************)
(* What is proved of the pure functions of the domain package, for every   *)
(* row, every split and every amount, every number of digits that a        *)
(* Decimal keeps and every width of the column, as long as the first       *)
(* covers the second.                                                      *)
(***************************************************************************)
EXTENDS Normaliser, Numbers_proofs

----------------------------------------------------------------------------
(* Calls and what they return.                                            *)

Returned ==
    /\ job \in Jobs
    /\ \/ outcome = Pending
       \/ job.kind = "row" /\ outcome = Normalise(job.dataset, job.row)
       \/ job.kind = "split" /\ outcome = [code |-> "ok", shares |-> Allocate(job.total, job.weights)]
       \/ job.kind = "write" /\ outcome = [code |-> "ok", cell |-> FormatMinor(job.minor, job.currency)]

\* A call returns what its function computes, and returns once.
LEMMA ReturnedOnce == Spec => []Returned
<1>1. Init => Returned
  BY DEF Init, Returned
<1>2. Returned /\ [Next]_vars => Returned'
  BY DEF Returned, Next, NormaliseRow, SplitAmount, WriteAmount, vars
<1> QED  BY <1>1, <1>2, PTL DEF Spec

\* The rows that calls bring.
LEMMA RowFacts ==
    ASSUME job \in Jobs, job.kind = "row"
    PROVE  job.dataset \in Datasets /\ job.row \in Columns[job.dataset]
BY NormaliserAssumption DEF IsCall

\* Every amount that the column holds has its digits kept.
LEMMA DigitsSuffice == MinorMax \in Nat /\ ContextDigits \in Nat /\ Ten[ContextDigits] \in Nat
                       /\ MinorMax + 1 < Ten[ContextDigits]
BY NormaliserAssumption, MoneyAssumption, TenFacts

----------------------------------------------------------------------------
(* The checks of a normaliser.                                            *)

\* A row is accepted when every check is ok, and otherwise refused with the
\* code of one that is not.
AllOk(checks) == \A i \in DOMAIN checks : checks[i] = "ok"

\* What a normaliser returns, from its checks.
LEMMA NormalisedFacts ==
    ASSUME NEW checks, NEW txn, DOMAIN checks \in SUBSET Nat
    PROVE  /\ Normalised(checks, txn).code = "ok" <=> AllOk(checks)
           /\ Normalised(checks, txn).code = "ok" => Normalised(checks, txn).txn = txn
<1> DEFINE failing == {i \in DOMAIN checks : checks[i] # "ok"}
           first   == CHOOSE i \in failing : \A j \in failing : i <= j
<1>1. Normalised(checks, txn) = IF failing = {} THEN [code |-> "ok", txn |-> txn]
                                ELSE [code |-> checks[first], txn |-> NoTxn]
  BY DEF Normalised
<1>2. ASSUME failing # {}
      PROVE  first \in failing
  <2>1. failing \in SUBSET Nat
    OBVIOUS
  <2> HIDE DEF failing
  <2>2. \E i \in failing : \A j \in failing : i <= j
    BY <1>2, <2>1, SmallestOf
  <2> QED  BY <2>2
<1>3. AllOk(checks) <=> failing = {}
  BY DEF AllOk
<1> QED  BY <1>1, <1>2, <1>3

\* One list of checks after another.
LEMMA AllOkBoth ==
    ASSUME NEW S, NEW a \in Seq(S), NEW b \in Seq(S)
    PROVE  /\ AllOk(a \o b) <=> AllOk(a) /\ AllOk(b)
           /\ DOMAIN (a \o b) \in SUBSET Nat
<1> DEFINE m == Len(a)
           n == Len(b)
<1>1. /\ a \o b \in Seq(S) /\ DOMAIN (a \o b) = 1..(m + n)
      /\ DOMAIN a = 1..m /\ DOMAIN b = 1..n /\ m \in Nat /\ n \in Nat
      /\ \A i \in 1..m : (a \o b)[i] = a[i]
      /\ \A i \in 1..n : (a \o b)[m + i] = b[i]
  OBVIOUS
<1> HIDE DEF m, n
<1>2. \A i \in 1..m : i \in 1..(m + n)
  BY <1>1
<1>3. \A i \in 1..n : m + i \in 1..(m + n)
  BY <1>1
<1>4. \A i \in 1..(m + n) : i \in 1..m \/ \E j \in 1..n : i = m + j
  <2>1. \A i \in 1..(m + n) : i \in 1..m \/ (i - m \in 1..n /\ i = m + (i - m))
    BY <1>1
  <2> QED  BY <2>1
<1>5. PICK c : c = a \o b
  OBVIOUS
<1>6. /\ DOMAIN c = 1..(m + n)
      /\ \A i \in 1..m : c[i] = a[i]
      /\ \A i \in 1..n : c[m + i] = b[i]
  BY <1>1, <1>5
<1>7. ASSUME AllOk(c)
      PROVE  AllOk(a) /\ AllOk(b)
  BY <1>1, <1>2, <1>3, <1>6, <1>7 DEF AllOk
<1>8. ASSUME AllOk(a), AllOk(b)
      PROVE  AllOk(c)
  <2> SUFFICES ASSUME NEW i \in 1..(m + n)
               PROVE  c[i] = "ok"
    BY <1>6 DEF AllOk
  <2>1. CASE i \in 1..m
    BY <1>1, <1>6, <1>8, <2>1 DEF AllOk
  <2>2. CASE i \notin 1..m
    <3>1. PICK j \in 1..n : i = m + j
      BY <1>4, <2>2
    <3> QED  BY <1>1, <1>6, <1>8, <3>1 DEF AllOk
  <2> QED  BY <2>1, <2>2
<1>9. DOMAIN c \in SUBSET Nat
  BY <1>1, <1>6
<1> QED  BY <1>5, <1>7, <1>8, <1>9

----------------------------------------------------------------------------
(* Amounts.                                                               *)

\* A Decimal rounds what it cannot keep to one of its neighbours, half a unit of
\* its last digit away at most, and what has too many digits never comes down
\* to fewer than it keeps.
LEMMA FixedFacts ==
    ASSUME NEW coef \in Nat
    PROVE  /\ Fixed(coef) \in Nat
           /\ coef < Ten[ContextDigits] => Fixed(coef) = coef
           /\ coef >= Ten[ContextDigits] => Fixed(coef) >= Ten[ContextDigits]
           /\ \A d \in Nat : Fixed(coef) < Ten[ContextDigits + d] =>
                  2 * (Fixed(coef) - coef) \in (-Ten[d])..Ten[d]
<1>1. CASE coef < Ten[ContextDigits]
  <2>1. Fixed(coef) = coef
    BY <1>1 DEF Fixed
  <2>2. \A d \in Nat : 2 * (coef - coef) \in (-Ten[d])..Ten[d]
    BY TenFacts
  <2>3. ~(coef >= Ten[ContextDigits])
    BY <1>1, DigitsSuffice
  <2> QED  BY <1>1, <2>1, <2>2, <2>3
<1>2. CASE ~(coef < Ten[ContextDigits])
  <2>1. /\ ContextDigits \in Nat \ {0} /\ Ten[ContextDigits] \in Nat \ {0}
        /\ coef >= Ten[ContextDigits] /\ coef # 0
    BY <1>2, MoneyAssumption, TenFacts
  <2>2. PICK long \in Nat : /\ long + 1 = DigitCount[coef] /\ long = DigitCount[coef] - 1
                            /\ Ten[long] <= coef /\ coef < Ten[long + 1]
    <3>1. coef \in Nat \ {0} /\ DigitCount[coef] \in Nat
      BY <2>1, DigitCountFacts
    <3>2. /\ DigitCount[coef] - 1 \in Nat
          /\ Ten[DigitCount[coef] - 1] <= coef /\ coef < Ten[DigitCount[coef]]
      BY <3>1, DigitsTell
    <3>3. (DigitCount[coef] - 1) + 1 = DigitCount[coef]
      BY <3>1
    <3> QED  BY <3>2, <3>3
  <2>3. ContextDigits < long + 1
    <3>1. Ten[long + 1] \in Nat
      BY <2>2, TenFacts
    <3>2. Ten[ContextDigits] < Ten[long + 1]
      BY <2>1, <2>2, <3>1
    <3> QED  BY <2>1, <3>2, TenGrows
  <2>4. PICK over \in Nat : over = (long + 1) - ContextDigits /\ long = over + (ContextDigits - 1)
    BY <2>1, <2>3
  <2>5. PICK unit \in Nat \ {0}, least \in Nat : /\ unit = Ten[over] /\ least = Ten[ContextDigits - 1]
                                                /\ Ten[long] = unit * least
    <3>1. ContextDigits - 1 \in Nat
      BY <2>1
    <3>2. Ten[long] = Ten[over] * Ten[ContextDigits - 1]
      BY <2>4, <3>1, SumOfExponents
    <3> QED  BY <3>1, <3>2, TenFacts
  <2>6. PICK kept \in Nat, rest \in Nat : /\ kept = coef \div unit /\ rest = coef % unit
                                          /\ coef = unit * kept + rest /\ rest < unit
    <3> HIDE <2>2, <2>4, <2>5
    <3>1. /\ coef \div unit \in Nat /\ coef % unit \in Nat
          /\ coef = unit * (coef \div unit) + (coef % unit) /\ coef % unit < unit
      OBVIOUS
    <3> QED  BY <3>1
  <2>7. PICK up \in {0, 1} : /\ Fixed(coef) = unit * (kept + up)
                             /\ up = 0 => 2 * rest <= unit
                             /\ up = 1 => 2 * rest >= unit
    <3> DEFINE above == 2 * rest > unit \/ (2 * rest = unit /\ kept % 2 = 1)
    <3>1. Fixed(coef) = unit * (IF above THEN kept + 1 ELSE kept)
      BY <1>2, <2>2, <2>4, <2>5, <2>6 DEF Fixed
    <3>2. CASE above
      BY <3>1, <3>2
    <3>3. CASE ~above
      <4>1. Fixed(coef) = unit * (kept + 0)
        BY <3>1, <3>3
      <4> QED  BY <3>3, <4>1
    <3> QED  BY <3>2, <3>3
  <2>8. kept >= least
    <3>1. unit * least <= unit * kept + rest
      BY <2>2, <2>5, <2>6
    <3>2. SUFFICES ASSUME kept + 1 <= least
                   PROVE  FALSE
      OBVIOUS
    <3>3. unit * (kept + 1) <= unit * least
      BY <3>2
    <3>4. unit * (kept + 1) = unit * kept + unit
      OBVIOUS
    <3> QED  BY <2>6, <3>1, <3>3, <3>4
  <2>9. Fixed(coef) \in Nat /\ Fixed(coef) >= Ten[long]
    <3>1. unit * (kept + up) >= unit * least /\ unit * (kept + up) \in Nat
      BY <2>8
    <3> QED  BY <2>5, <2>7, <3>1
  <2>10. Fixed(coef) >= Ten[ContextDigits]
    <3>1. ContextDigits <= long
      BY <2>1, <2>3
    <3>2. ~(long < ContextDigits) /\ Ten[long] \in Nat
      BY <2>1, <3>1, TenFacts
    <3>3. Ten[ContextDigits] <= Ten[long]
      BY <2>1, <3>2, TenGrows
    <3> QED  BY <2>1, <2>9, <3>2, <3>3
  <2>11. 2 * (Fixed(coef) - coef) \in (-unit)..unit
    <3>1. unit * (kept + up) = unit * kept + unit * up
      OBVIOUS
    <3>2. unit * up = IF up = 0 THEN 0 ELSE unit
      OBVIOUS
    <3>3. PICK p \in Nat : p = unit * kept
      OBVIOUS
    <3>4. Fixed(coef) = p + IF up = 0 THEN 0 ELSE unit
      BY <2>7, <3>1, <3>2, <3>3
    <3>5. coef = p + rest
      BY <2>6, <3>3
    <3> QED  BY <2>6, <2>7, <3>4, <3>5
  <2>12. ASSUME NEW d \in Nat, Fixed(coef) < Ten[ContextDigits + d]
         PROVE  2 * (Fixed(coef) - coef) \in (-Ten[d])..Ten[d]
    <3>1. ContextDigits + d \in Nat /\ Ten[ContextDigits + d] \in Nat /\ Ten[long] \in Nat
      BY <2>1, TenFacts
    <3>2. Ten[long] < Ten[ContextDigits + d]
      BY <2>9, <2>12, <3>1
    <3>3. long < ContextDigits + d
      BY <3>1, <3>2, TenGrows
    <3>4. ~(d < over)
      BY <2>1, <2>4, <3>3
    <3>5. unit <= Ten[d] /\ Ten[d] \in Nat
      <4>1. ~(Ten[d] < Ten[over])
        BY <3>4, TenGrows
      <4>2. Ten[d] \in Nat
        BY TenFacts
      <4> QED  BY <2>5, <4>1, <4>2
    <3>6. 2 * (Fixed(coef) - coef) \in Int
      BY <2>9
    <3> QED  BY <2>11, <3>5, <3>6
  <2> QED  BY <1>2, <2>9, <2>10, <2>12
<1> QED  BY <1>1, <1>2

\* Where nothing is beyond the digits of a Decimal, an amount is read exactly
\* when it says one, and it is read as what it says; what is read beyond them
\* is still an unsigned amount that can be stored, the nearest to what it says.
LEMMA ReadAmounts ==
    ASSUME NEW cell \in Cell, NEW currency
    PROVE  LET read == MoneyOf(cell, currency)
               exponent == CurrencyExponent[currency]
               up   == IF cell.places <= exponent THEN Ten[exponent - cell.places] ELSE 1
               down == IF cell.places <= exponent THEN 1 ELSE Ten[cell.places - exponent]
           IN  /\ read.code = "ok" => /\ currency \in DOMAIN CurrencyExponent
                                      /\ cell.form = "text" /\ cell.sign = "none"
                                      /\ read.minor \in Int
                                      /\ 2 * (read.minor * down - cell.coef * up) \in (-down)..down
               /\ currency \in DOMAIN CurrencyExponent /\ cell.coef < Ten[ContextDigits] =>
                      /\ read.code = "ok" <=>
                             /\ cell.form = "text" /\ cell.sign = "none"
                             /\ WellGrouped(cell.groups)
                             /\ (cell.coef * up) % down = 0
                             /\ (cell.coef * up) \div down <= MinorMax
                      /\ read.code = "ok" => /\ read.minor = (cell.coef * up) \div down
                                             /\ read.minor * down = cell.coef * up
<1> DEFINE read == MoneyOf(cell, currency)
           exponent == CurrencyExponent[currency]
           up   == IF cell.places <= exponent THEN Ten[exponent - cell.places] ELSE 1
           down == IF cell.places <= exponent THEN 1 ELSE Ten[cell.places - exponent]
           raw  == ToMinor(cell.coef, cell.places, exponent)
           wellWritten == cell.form = "text" /\ cell.sign = "none" /\ WellGrouped(cell.groups)
<1>1. CASE currency \notin DOMAIN CurrencyExponent \/ ~wellWritten
  <2>1. read.code # "ok"
    BY <1>1 DEF MoneyOf, ParseMoney, Refuse, StringCode, Cell, Signs
  <2> QED  BY <1>1, <2>1
<1>2. CASE currency \in DOMAIN CurrencyExponent /\ wellWritten
  <2>1. read = Signed(FALSE, raw)
    BY <1>2 DEF MoneyOf, ParseMoney, StringCode, Cell, Signs
  <2>2. read.code = "ok" <=> raw.code = "ok" /\ raw.minor \in (-MinorMax - 1)..MinorMax
    BY <2>1 DEF Signed, Stored, Read, Refuse
  <2>3. read.code = "ok" => read = raw
    BY <2>1 DEF Signed, Stored, Read, Refuse, ToMinor
  <2>4. exponent \in Nat
    BY <1>2 DEF CurrencyExponent
  <2>5. PICK coef \in Nat, places \in Nat : coef = cell.coef /\ places = cell.places
    BY DEF Cell
  <2>6. PICK u \in Nat \ {0}, d \in Nat \ {0} : u = up /\ d = down /\ (u = 1 \/ d = 1)
    <3>1. PICK e \in Nat : e = exponent
      BY <2>4
    <3>2. up \in Nat \ {0} /\ down \in Nat \ {0} /\ (up = 1 \/ down = 1)
      <4>1. CASE places <= e
        <5>1. e - places \in Nat
          BY <4>1
        <5>2. Ten[e - places] \in Nat \ {0}
          BY <5>1, TenFacts
        <5> QED  BY <2>5, <3>1, <4>1, <5>2
      <4>2. CASE ~(places <= e)
        <5>1. places - e \in Nat
          BY <4>2
        <5>2. Ten[places - e] \in Nat \ {0}
          BY <5>1, TenFacts
        <5> QED  BY <2>5, <3>1, <4>2, <5>2
      <4> QED  BY <4>1, <4>2
    <3> HIDE DEF up, down
    <3> QED  BY <3>2
  <2>7. ASSUME cell.coef < Ten[ContextDigits]
        PROVE  /\ raw.code = "ok" <=> (coef * u) % d = 0
               /\ raw.code = "ok" => raw.minor = (coef * u) \div d
    <3>1. Fixed(coef) = coef
      BY <2>5, <2>7 DEF Fixed
    <3>2. CASE places <= exponent
      <4>1. raw = Read(coef * u) /\ d = 1
        BY <2>5, <2>6, <3>1, <3>2 DEF ToMinor
      <4>2. coef * u \in Nat
        OBVIOUS
      <4> QED  BY <4>1, <4>2 DEF Read
    <3>3. CASE ~(places <= exponent)
      <4>1. u = 1 /\ raw = IF coef % d = 0 THEN Read(coef \div d) ELSE Refuse("AMOUNT_PRECISION_LOSS")
        BY <2>5, <2>6, <3>1, <3>3 DEF ToMinor
      <4> QED  BY <4>1 DEF Read, Refuse
    <3> QED  BY <3>2, <3>3
  <2>8. (coef * u) \div d \in Nat
    <3>1. PICK p \in Nat : p = coef * u
      OBVIOUS
    <3> QED  BY <3>1
  <2>9. (coef * u) % d = 0 => ((coef * u) \div d) * d = coef * u
    <3>1. PICK p \in Nat : p = coef * u
      OBVIOUS
    <3> QED  BY <3>1
  <2> HIDE DEF read, raw, up, down, exponent
  <2>10. currency \in DOMAIN CurrencyExponent /\ cell.form = "text" /\ cell.sign = "none"
    BY <1>2
  <2>11. read.code = "ok" => read.minor \in Int
    BY <2>2, <2>3, DigitsSuffice
  <2>12. ASSUME cell.coef < Ten[ContextDigits]
         PROVE  /\ read.code = "ok" <=> (coef * u) % d = 0 /\ (coef * u) \div d <= MinorMax
                /\ read.code = "ok" => /\ read.minor = (coef * u) \div d
                                       /\ read.minor * d = coef * u
    <3>1. PICK m \in Nat : m = (coef * u) \div d
      BY <2>8
    <3>2. m \in (-MinorMax - 1)..MinorMax <=> m <= MinorMax
      BY DigitsSuffice
    <3> QED  BY <2>2, <2>3, <2>7, <2>9, <2>12, <3>1, <3>2
  <2>13. cell.coef * up = coef * u /\ down = d
    BY <2>5, <2>6
  <2>14. ASSUME read.code = "ok"
         PROVE  2 * (read.minor * d - coef * u) \in (-d)..d
    <3>1. raw.code = "ok" /\ read = raw /\ raw.minor <= MinorMax
      BY <2>2, <2>3, <2>14, DigitsSuffice
    <3>2. PICK fixed \in Nat, bound \in Nat : /\ fixed = Fixed(coef) /\ bound = Ten[ContextDigits]
                                              /\ MinorMax < bound
      BY FixedFacts, DigitsSuffice
    <3>3. CASE places <= exponent
      <4>1. raw.minor = fixed * u /\ d = 1
        BY <2>5, <2>6, <3>2, <3>3 DEF raw, ToMinor, Read, up, down
      <4>2. fixed <= fixed * u /\ MinorMax \in Nat
        BY DigitsSuffice
      <4>3. fixed < bound
        BY <3>1, <3>2, <4>1, <4>2
      <4>4. fixed = coef
        BY <3>2, <4>3, FixedFacts
      <4> QED  BY <3>1, <4>1, <4>4
    <3>4. CASE ~(places <= exponent)
      <4>1. /\ u = 1 /\ d = Ten[places - exponent] /\ places - exponent \in Nat
            /\ raw = IF fixed % d = 0 THEN Read(fixed \div d) ELSE Refuse("AMOUNT_PRECISION_LOSS")
        BY <2>4, <2>5, <2>6, <3>2, <3>4 DEF raw, ToMinor, up, down
      <4>2. fixed % d = 0 /\ raw.minor = fixed \div d
        BY <3>1, <4>1 DEF Read, Refuse
      <4>3. PICK n \in Nat : n = raw.minor /\ fixed = n * d /\ n <= MinorMax
        BY <3>1, <4>2
      <4>4. n * d < bound * d
        BY <3>2, <4>3, DigitsSuffice
      <4>5. Ten[ContextDigits + (places - exponent)] = bound * d
        BY <3>2, <4>1, DigitsSuffice, SumOfExponents
      <4>6. 2 * (fixed - coef) \in (-d)..d
        <5>1. PICK e \in Nat : e = places - exponent
          BY <4>1
        <5>2. Fixed(coef) < Ten[ContextDigits + e]
          BY <3>2, <4>3, <4>4, <4>5, <5>1
        <5>3. 2 * (Fixed(coef) - coef) \in (-Ten[e])..Ten[e]
          BY <5>2, FixedFacts
        <5> QED  BY <3>2, <4>1, <5>1, <5>3
      <4> QED  BY <3>1, <4>1, <4>3, <4>6
    <3> QED  BY <3>3, <3>4
  <2> QED  BY <1>2, <2>10, <2>11, <2>12, <2>13, <2>14 DEF read, up, down, exponent
<1> QED  BY <1>1, <1>2
----------------------------------------------------------------------------
(* Dates.                                                                 *)

\* An instant is in minutes of UTC and the day is that of the business
\* timezone.
LEMMA InstantFacts ==
    ASSUME NEW date \in DateCell
    PROVE  /\ Instant(date).day = (Instant(date).event + Zone) \div Day
           /\ date.form # "offset" => Instant(date).assumed
           /\ DateCode(date) = "ok" <=> date.form \in {"offset", "naive", "date"}
<1>1. PICK at \in Int : at = date.at
  BY DEF DateCell
<1>2. (at - Zone) + Zone = at
  BY RowsAssumption
<1> QED  BY <1>1, <1>2 DEF Instant, DateCode, DateCell, DateForms

----------------------------------------------------------------------------
(* The six datasets.                                                      *)

IsRow(dataset) == job \in Jobs /\ job.kind = "row" /\ job.dataset = dataset

\* The amounts of a row, in the row's currency.
LEMMA CellFacts ==
    ASSUME NEW cell \in Cell, NEW read, read = MoneyOf(cell, RowCurrency)
    PROVE  /\ read.code = "ok" => /\ RowCurrency \in DOMAIN CurrencyExponent
                                  /\ States(cell, read.minor)
                                  /\ read.minor \in Int
           /\ RowCurrency \in DOMAIN CurrencyExponent /\ SaysAnAmount(cell) =>
                  read.code = "ok" /\ read.minor = AmountIn(cell)
           /\ read.code = "ok" =>
                  \/ cell.coef >= Ten[ContextDigits]
                  \/ /\ SaysAnAmount(cell)
                     /\ read.minor = AmountIn(cell)
<1> DEFINE exponent == CurrencyExponent[RowCurrency]
           up   == IF cell.places <= exponent THEN Ten[exponent - cell.places] ELSE 1
           down == IF cell.places <= exponent THEN 1 ELSE Ten[cell.places - exponent]
<1>1. Up(cell) = up /\ Down(cell) = down
  BY DEF Up, Down, Places
<1>2. /\ read.code = "ok" => /\ RowCurrency \in DOMAIN CurrencyExponent
                             /\ cell.form = "text" /\ cell.sign = "none"
                             /\ read.minor \in Int
                             /\ 2 * (read.minor * down - cell.coef * up) \in (-down)..down
      /\ RowCurrency \in DOMAIN CurrencyExponent /\ cell.coef < Ten[ContextDigits] =>
             /\ read.code = "ok" <=>
                    /\ cell.form = "text" /\ cell.sign = "none"
                    /\ WellGrouped(cell.groups)
                    /\ (cell.coef * up) % down = 0
                    /\ (cell.coef * up) \div down <= MinorMax
             /\ read.code = "ok" => /\ read.minor = (cell.coef * up) \div down
                                    /\ read.minor * down = cell.coef * up
  BY ReadAmounts
<1> HIDE DEF up, down
<1>3. cell.coef >= Ten[ContextDigits] <=> ~(cell.coef < Ten[ContextDigits])
  BY DigitsSuffice DEF Cell
<1>4. SaysAnAmount(cell) <=> /\ cell.form = "text" /\ cell.sign = "none"
                             /\ WellGrouped(cell.groups)
                             /\ cell.coef < Ten[ContextDigits]
                             /\ (cell.coef * up) % down = 0
                             /\ (cell.coef * up) \div down <= MinorMax
  BY <1>1 DEF SaysAnAmount, AmountIn
<1>5. AmountIn(cell) = (cell.coef * up) \div down
  BY <1>1 DEF AmountIn
<1>6. Gap(cell, read.minor) = read.minor * down - cell.coef * up
  BY <1>1 DEF Gap
<1>7. ASSUME read.code = "ok"
      PROVE  States(cell, read.minor)
  <2>1. PICK e \in Nat : e = exponent
    BY <1>2, <1>7 DEF CurrencyExponent
  <2>2. PICK coef \in Nat, places \in Nat : coef = cell.coef /\ places = cell.places
    BY DEF Cell
  <2>3. PICK u \in Nat, d \in Nat : u = up /\ d = down
    <3>1. CASE places <= e
      <4>1. e - places \in Nat
        BY <3>1
      <4>2. Ten[e - places] \in Nat
        BY <4>1, TenFacts
      <4> QED  BY <2>1, <2>2, <3>1, <4>2 DEF up, down
    <3>2. CASE ~(places <= e)
      <4>1. places - e \in Nat
        BY <3>2
      <4>2. Ten[places - e] \in Nat
        BY <4>1, TenFacts
      <4> QED  BY <2>1, <2>2, <3>2, <4>2 DEF up, down
    <3> QED  BY <3>1, <3>2
  <2>4. PICK n \in Int : n = read.minor
    BY <1>2, <1>7
  <2>5. Gap(cell, read.minor) = n * d - coef * u
    BY <1>6, <2>2, <2>3, <2>4
  <2>6. 2 * (n * d - coef * u) \in (-d)..d
    BY <1>2, <1>7, <2>2, <2>3, <2>4
  <2>7. cell.coef < Ten[ContextDigits] => n * d - coef * u = 0
    <3>1. cell.coef < Ten[ContextDigits] => n * d = coef * u
      BY <1>2, <1>7, <2>2, <2>3, <2>4
    <3> QED  BY <3>1
  <2> QED  BY <1>1, <1>2, <1>7, <2>3, <2>5, <2>6, <2>7 DEF States
<1> QED  BY <1>1, <1>2, <1>3, <1>4, <1>5, <1>7

\* The date of a row's record.
LEMMA DatedFacts ==
    ASSUME NEW date \in DateCell,
           Accepted => /\ outcome.txn.event = Instant(date).event
                       /\ outcome.txn.day = Instant(date).day
                       /\ outcome.txn.assumed = Instant(date).assumed,
           job.row.date.form \in {"naive", "date"} => date = job.row.date
    PROVE  BusinessDateIsLocal
BY InstantFacts DEF BusinessDateIsLocal

\* The one amount of a record without a split.
LEMMA GrossIsStated ==
    ASSUME job.dataset \in {"payments", "bank_statement", "invoices"}, job.row.amount \in Cell,
           NEW read, read = MoneyOf(job.row.amount, RowCurrency),
           Accepted => /\ read.code = "ok"
                       /\ outcome.txn.gross = read.minor /\ outcome.txn.net = read.minor
                       /\ outcome.txn.fee = 0 /\ outcome.txn.tax = 0
    PROVE  NothingIsCoerced
<1> SUFFICES ASSUME Accepted
             PROVE  /\ outcome.txn.net = outcome.txn.gross - outcome.txn.fee - outcome.txn.tax
                    /\ States(job.row.amount, outcome.txn.gross)
                    /\ outcome.txn.fee = 0 /\ outcome.txn.tax = 0
  BY DEF NothingIsCoerced, SplitDatasets
<1>1. read.minor \in Int /\ States(job.row.amount, read.minor)
  BY CellFacts
<1>2. PICK n \in Int : n = read.minor
  BY <1>1
<1>3. n = n - 0 - 0
  OBVIOUS
<1> QED  BY <1>1, <1>2, <1>3

\* payments.py
LEMMA PaymentRows ==
    ASSUME IsRow("payments"), outcome = Payment(job.row)
    PROVE  AcceptedExactlyWhenSound /\ NothingIsCoerced /\ BusinessDateIsLocal
<1> DEFINE row   == job.row
           gross == MoneyOf(row.amount, row.currency)
           txn   == Txn(row, IF RecordType(row) = "refund" THEN "refund" ELSE "payment",
                        <<gross.minor, 0, 0, gross.minor>>,
                        IF RecordType(row) = "refund" THEN "debit" ELSE "credit",
                        PaymentStatus[row.status], row.parent, row.order,
                        FlagIf(gross.minor = 0, "zero_amount"), row.date)
           checks == << Require(row.id), Require(row.currency),
                        IF RecordType(row) \in {"payment", "refund"} THEN "ok" ELSE "UNKNOWN_RECORD_TYPE",
                        ParentCode(row), gross.code, DateCode(row.date),
                        MapStatus(row.status, PaymentStatus) >>
<1>1. row \in Columns.payments
  BY RowFacts DEF IsRow
<1>2. row.amount \in Cell /\ row.date \in DateCell
  BY <1>1 DEF Columns
<1>3. outcome = Normalised(checks, txn)
  BY DEF Payment
<1>4. AllOk(checks) <=>
         /\ row.id # Blank /\ row.currency # Blank /\ row.kind \in {Blank, "payment", "refund"}
         /\ row.kind = "refund" => row.parent # Blank
         /\ gross.code = "ok" /\ row.date.form \in {"offset", "naive", "date"}
         /\ row.status \in DOMAIN PaymentStatus
  <2>1. AllOk(checks) <=>
            /\ Require(row.id) = "ok" /\ Require(row.currency) = "ok"
            /\ RecordType(row) \in {"payment", "refund"}
            /\ ParentCode(row) = "ok" /\ gross.code = "ok" /\ DateCode(row.date) = "ok"
            /\ MapStatus(row.status, PaymentStatus) = "ok"
    <3> HIDE DEF gross, row
    <3>1. \A i \in DOMAIN checks : i = 1 \/ i = 2 \/ i = 3 \/ i = 4 \/ i = 5 \/ i = 6 \/ i = 7
      OBVIOUS
    <3> QED  BY <3>1 DEF AllOk
  <2>2. \A text : Require(text) = "ok" <=> text # Blank
    BY DEF Require
  <2>3. MapStatus(row.status, PaymentStatus) = "ok" <=> row.status \in DOMAIN PaymentStatus
    BY DEF MapStatus, PaymentStatus, Blank
  <2>4. ParentCode(row) = "ok" <=> (row.kind = "refund" => row.parent # Blank)
    <3>1. Blank # "refund"
      BY DEF Blank
    <3> QED  BY <2>2, <3>1 DEF ParentCode, RecordType
  <2>5. RecordType(row) \in {"payment", "refund"} <=> row.kind \in {Blank, "payment", "refund"}
    BY DEF RecordType
  <2> QED  BY <1>2, <2>1, <2>2, <2>3, <2>4, <2>5, InstantFacts
<1>5. /\ outcome.code = "ok" <=> AllOk(checks)
      /\ outcome.code = "ok" => outcome.txn = txn
  <2>1. DOMAIN checks \in SUBSET Nat
    OBVIOUS
  <2> HIDE DEF checks, txn
  <2> QED  BY <1>3, <2>1, NormalisedFacts
<1>6. RowCurrency = row.currency /\ MoneyCells = {row.amount}
  BY DEF IsRow, RowCurrency, MoneyCells, SplitDatasets
<1>7. /\ gross = MoneyOf(row.amount, RowCurrency)
      /\ gross.code = "ok" => RowCurrency \in DOMAIN CurrencyExponent
      /\ RowCurrency \in DOMAIN CurrencyExponent /\ SaysAnAmount(row.amount) => gross.code = "ok"
      /\ gross.code = "ok" => \/ row.amount.coef >= Ten[ContextDigits]
                              \/ SaysAnAmount(row.amount)
  <2> HIDE DEF row
  <2>1. gross = MoneyOf(row.amount, RowCurrency)
    BY <1>6
  <2> HIDE DEF gross
  <2> QED  BY <1>2, <2>1, CellFacts
<1>8. outcome.code = "ok" =>
         /\ outcome.txn.gross = gross.minor /\ outcome.txn.net = gross.minor
         /\ outcome.txn.fee = 0 /\ outcome.txn.tax = 0
         /\ outcome.txn.event = Instant(row.date).event
         /\ outcome.txn.day = Instant(row.date).day
         /\ outcome.txn.assumed = Instant(row.date).assumed
  <2> HIDE DEF gross
  <2> QED  BY <1>5 DEF Txn
<1>9. Sound <=> /\ RowCurrency \in DOMAIN CurrencyExponent
                /\ SaysAnAmount(row.amount)
                /\ row.id # Blank
                /\ row.date.form \in {"offset", "naive", "date"}
                /\ row.kind \in {Blank, "payment", "refund"}
                /\ row.status \in DOMAIN PaymentStatus
                /\ row.kind = "refund" => row.parent # Blank
  BY <1>6 DEF Sound, IsRow
<1>10. "" \notin DOMAIN CurrencyExponent
  BY DEF CurrencyExponent
<1>11. Accepted <=> outcome.code = "ok"
  BY DEF Accepted, IsRow
<1>12. Refused => outcome.code # "ok"
  BY DEF Refused
<1> HIDE DEF row, gross, checks, txn
<1>13. AcceptedExactlyWhenSound
  BY <1>4, <1>5, <1>6, <1>7, <1>9, <1>10, <1>11, <1>12 DEF AcceptedExactlyWhenSound, Blank
<1>14. NothingIsCoerced
  <2>1. job.dataset \in {"payments", "bank_statement", "invoices"}
    BY DEF IsRow
  <2> QED  BY <1>2, <1>4, <1>5, <1>7, <1>8, <1>11, <2>1, GrossIsStated DEF row
<1>15. BusinessDateIsLocal
  BY <1>2, <1>8, <1>11, DatedFacts DEF row
<1> QED  BY <1>13, <1>14, <1>15

\* The four amounts of a settlement row: all are read, or one is not.
MinorsAreStated(split) ==
    /\ split[1].minor = AmountIn(job.row.gross) /\ split[2].minor = AmountIn(job.row.fee)
    /\ split[3].minor = AmountIn(job.row.tax) /\ split[4].minor = AmountIn(job.row.net)

\* Each of them is what the cell of its own column states.
SplitIsStated(split) ==
    /\ States(job.row.gross, split[1].minor) /\ States(job.row.fee, split[2].minor)
    /\ States(job.row.tax, split[3].minor) /\ States(job.row.net, split[4].minor)

\* What the checks of a split say, read either way.
LEMMA SplitFacts ==
    ASSUME job.dataset \in {"settlement_batches", "settlement_lines"},
           RowCurrency = CurrencyOf(job.row),
           {job.row.gross, job.row.fee, job.row.tax, job.row.net} \subseteq Cell,
           NEW split, split = SplitOf(job.row)
    PROVE  /\ DOMAIN split = 1..4
           /\ AllOk(CodesOf(split)) =>
                  /\ RowCurrency \in DOMAIN CurrencyExponent
                  /\ SplitIsStated(split)
                  /\ \A i \in 1..4 : split[i].minor \in Int
           /\ RowCurrency \in DOMAIN CurrencyExponent /\ (\A cell \in MoneyCells : SaysAnAmount(cell)) =>
                  AllOk(CodesOf(split)) /\ MinorsAreStated(split)
           /\ AllOk(CodesOf(split)) =>
                  \/ \E cell \in MoneyCells : cell.coef >= Ten[ContextDigits]
                  \/ (\A cell \in MoneyCells : SaysAnAmount(cell)) /\ MinorsAreStated(split)
<1> DEFINE row == job.row
           gross == MoneyOf(row.gross, RowCurrency)
           fee   == MoneyOf(row.fee, RowCurrency)
           tax   == MoneyOf(row.tax, RowCurrency)
           net   == MoneyOf(row.net, RowCurrency)
<1>1. split = <<gross, fee, tax, net>>
  BY DEF SplitOf
<1>2. AllOk(CodesOf(split)) <=> gross.code = "ok" /\ fee.code = "ok" /\ tax.code = "ok" /\ net.code = "ok"
  <2> HIDE DEF gross, fee, tax, net
  <2>1. CodesOf(split) = <<gross.code, fee.code, tax.code, net.code>>
    BY <1>1 DEF CodesOf
  <2>2. \A i \in 1..4 : i = 1 \/ i = 2 \/ i = 3 \/ i = 4
    OBVIOUS
  <2> QED  BY <2>1, <2>2 DEF AllOk
<1>3. MoneyCells = {row.gross, row.fee, row.tax, row.net}
  BY DEF MoneyCells, SplitDatasets
<1> DEFINE Of(cell, read) ==
               /\ read.code = "ok" => /\ RowCurrency \in DOMAIN CurrencyExponent
                                      /\ States(cell, read.minor)
                                      /\ read.minor \in Int
               /\ RowCurrency \in DOMAIN CurrencyExponent /\ SaysAnAmount(cell) =>
                      read.code = "ok" /\ read.minor = AmountIn(cell)
               /\ read.code = "ok" =>
                      \/ cell.coef >= Ten[ContextDigits]
                      \/ SaysAnAmount(cell) /\ read.minor = AmountIn(cell)
<1>4. Of(row.gross, gross) /\ Of(row.fee, fee) /\ Of(row.tax, tax) /\ Of(row.net, net)
  BY CellFacts
<1> HIDE DEF gross, fee, tax, net, row
<1>5. \A i \in 1..4 : i = 1 \/ i = 2 \/ i = 3 \/ i = 4
  OBVIOUS
<1>6. /\ DOMAIN split = 1..4
      /\ split[1] = gross /\ split[2] = fee /\ split[3] = tax /\ split[4] = net
  BY <1>1
<1>7. MinorsAreStated(split) <=>
         /\ gross.minor = AmountIn(row.gross) /\ fee.minor = AmountIn(row.fee)
         /\ tax.minor = AmountIn(row.tax) /\ net.minor = AmountIn(row.net)
  BY <1>6 DEF MinorsAreStated, row
<1>8. SplitIsStated(split) <=>
         /\ States(row.gross, gross.minor) /\ States(row.fee, fee.minor)
         /\ States(row.tax, tax.minor) /\ States(row.net, net.minor)
  BY <1>6 DEF SplitIsStated, row
<1> QED  BY <1>2, <1>3, <1>4, <1>5, <1>6, <1>7, <1>8 DEF row


\* settlements.py: the payout
LEMMA SettlementBatchRows ==
    ASSUME IsRow("settlement_batches"), outcome = SettlementBatch(job.row)
    PROVE  AcceptedExactlyWhenSound /\ NothingIsCoerced /\ BusinessDateIsLocal
<1> DEFINE row   == job.row
           split == SplitOf(row)
           date  == row.date
           txn   == Txn(row, "settlement_batch", AmountsOf(split), "credit",
                        SettlementStatus[row.status], Blank, row.utr,
                        FlagIf(row.utr = Blank, "settlement_utr_missing"), row.date)
           rest  == << DateCode(date), Require(row.id), MapStatus(row.status, SettlementStatus), SplitCode(split) >>
<1>1. row \in Columns.settlement_batches
  BY RowFacts DEF IsRow
<1>2. {row.gross, row.fee, row.tax, row.net} \subseteq Cell /\ date \in DateCell
  BY <1>1 DEF Columns
<1>3. outcome = Normalised(CodesOf(split) \o rest, txn)
  BY DEF SettlementBatch
<1>4. RowCurrency = CurrencyOf(row) /\ MoneyCells = {row.gross, row.fee, row.tax, row.net}
  BY DEF IsRow, RowCurrency, CurrencyOf, MoneyCells, SplitDatasets
<1>5. AllOk(rest) <=> /\ date.form \in {"offset", "naive", "date"} /\ row.id # Blank
                      /\ row.status \in DOMAIN SettlementStatus
                      /\ split[4].minor = split[1].minor - split[2].minor - split[3].minor
  <2>1. AllOk(rest) <=> /\ rest[1] = "ok" /\ rest[2] = "ok" /\ rest[3] = "ok" /\ rest[4] = "ok"
    <3>1. DOMAIN rest = 1..4
      OBVIOUS
    <3> HIDE DEF rest
    <3>2. \A i \in 1..4 : i = 1 \/ i = 2 \/ i = 3 \/ i = 4
      OBVIOUS
    <3> QED  BY <3>1, <3>2 DEF AllOk
  <2>2. \A text : Require(text) = "ok" <=> text # Blank
    BY DEF Require
  <2>3. SplitCode(split) = "ok" <=>
            split[4].minor = split[1].minor - split[2].minor - split[3].minor
    BY DEF SplitCode, IdentityCode
  <2>4. DateCode(date) = "ok" <=> date.form \in {"offset", "naive", "date"}
    BY <1>2, InstantFacts
  <2>5. MapStatus(row.status, SettlementStatus) = "ok" <=> row.status \in DOMAIN SettlementStatus
    BY DEF MapStatus, SettlementStatus, Blank
  <2> HIDE DEF split, row, date
  <2> QED  BY <2>1, <2>2, <2>3, <2>4, <2>5
<1>6. DOMAIN split = 1..4
  BY DEF SplitOf
<1>7. /\ outcome.code = "ok" <=> AllOk(CodesOf(split)) /\ AllOk(rest)
      /\ outcome.code = "ok" => outcome.txn = txn
  <2> DEFINE codes == {CodesOf(split)[i] : i \in 1..4} \cup {rest[i] : i \in 1..4}
  <2>1. CodesOf(split) \in Seq(codes) /\ rest \in Seq(codes)
    <3>1. CodesOf(split) = [i \in 1..4 |-> split[i].code]
      BY <1>6 DEF CodesOf
    <3>2. rest = [i \in 1..4 |-> rest[i]]
      OBVIOUS
    <3> HIDE DEF rest, split
    <3> QED  BY <3>1, <3>2
  <2> HIDE DEF codes, rest, txn, split
  <2>2. /\ AllOk(CodesOf(split) \o rest) <=> AllOk(CodesOf(split)) /\ AllOk(rest)
        /\ DOMAIN (CodesOf(split) \o rest) \in SUBSET Nat
    BY <2>1, AllOkBoth
  <2>3. PICK checks : checks = CodesOf(split) \o rest
    OBVIOUS
  <2>4. /\ outcome = Normalised(checks, txn)
        /\ AllOk(checks) <=> AllOk(CodesOf(split)) /\ AllOk(rest)
        /\ DOMAIN checks \in SUBSET Nat
    BY <1>3, <2>2, <2>3
  <2> QED  BY <2>4, NormalisedFacts
<1>8. outcome.code = "ok" =>
         /\ outcome.txn.gross = split[1].minor /\ outcome.txn.fee = split[2].minor
         /\ outcome.txn.tax = split[3].minor /\ outcome.txn.net = split[4].minor
         /\ outcome.txn.event = Instant(date).event
         /\ outcome.txn.day = Instant(date).day
         /\ outcome.txn.assumed = Instant(date).assumed
  <2>1. /\ AmountsOf(split)[1] = split[1].minor /\ AmountsOf(split)[2] = split[2].minor
        /\ AmountsOf(split)[3] = split[3].minor /\ AmountsOf(split)[4] = split[4].minor
    BY <1>6 DEF AmountsOf
  <2>2. /\ txn.gross = AmountsOf(split)[1] /\ txn.fee = AmountsOf(split)[2]
        /\ txn.tax = AmountsOf(split)[3] /\ txn.net = AmountsOf(split)[4]
        /\ txn.event = Instant(date).event
        /\ txn.day = Instant(date).day
        /\ txn.assumed = Instant(date).assumed
    BY DEF Txn
  <2> HIDE DEF split, date, txn, rest
  <2> QED  BY <1>7, <2>1, <2>2
<1>9. Sound <=> /\ RowCurrency \in DOMAIN CurrencyExponent
                /\ \A cell \in MoneyCells : SaysAnAmount(cell)
                /\ row.id # Blank
                /\ row.status \in DOMAIN SettlementStatus
                /\ date.form \in {"offset", "naive", "date"}
                /\ AmountIn(row.net) = AmountIn(row.gross) - AmountIn(row.fee) - AmountIn(row.tax)
  BY DEF Sound, IsRow
<1>10. Accepted <=> outcome.code = "ok"
  BY DEF Accepted, IsRow
<1>11. Refused => outcome.code # "ok"
  BY DEF Refused
<1>12. /\ AllOk(CodesOf(split)) =>
              /\ RowCurrency \in DOMAIN CurrencyExponent
              /\ SplitIsStated(split)
              /\ \A i \in 1..4 : split[i].minor \in Int
       /\ RowCurrency \in DOMAIN CurrencyExponent /\ (\A cell \in MoneyCells : SaysAnAmount(cell)) =>
              AllOk(CodesOf(split)) /\ MinorsAreStated(split)
       /\ AllOk(CodesOf(split)) =>
              \/ \E cell \in MoneyCells : cell.coef >= Ten[ContextDigits]
              \/ (\A cell \in MoneyCells : SaysAnAmount(cell)) /\ MinorsAreStated(split)
  <2>1. job.dataset \in {"settlement_batches", "settlement_lines"}
    BY DEF IsRow
  <2>2. PICK four : four = split
    OBVIOUS
  <2> HIDE DEF split
  <2> QED  BY <1>2, <1>4, <2>1, <2>2, SplitFacts DEF split
<1>13. BusinessDateIsLocal
  <2>1. row.date.form \in {"naive", "date"} => date = row.date
    OBVIOUS
  <2> QED  BY <1>2, <1>8, <1>10, <2>1, DatedFacts
<1> HIDE DEF row, split, date, txn, rest
<1>14. AcceptedExactlyWhenSound
  <2>1. MinorsAreStated(split) =>
            (split[4].minor = split[1].minor - split[2].minor - split[3].minor
               <=> AmountIn(row.net) = AmountIn(row.gross) - AmountIn(row.fee) - AmountIn(row.tax))
    BY DEF MinorsAreStated, row
  <2> QED  BY <1>5, <1>7, <1>9, <1>10, <1>11, <1>12, <2>1 DEF AcceptedExactlyWhenSound
<1>15. NothingIsCoerced
  <2>1. job.dataset \in SplitDatasets
    BY DEF IsRow, SplitDatasets
  <2> SUFFICES ASSUME Accepted
               PROVE  /\ outcome.txn.net = outcome.txn.gross - outcome.txn.fee - outcome.txn.tax
                      /\ States(job.row.gross, outcome.txn.gross)
                      /\ States(job.row.fee, outcome.txn.fee)
                      /\ States(job.row.tax, outcome.txn.tax)
                      /\ States(job.row.net, outcome.txn.net)
    BY <2>1 DEF NothingIsCoerced, SplitDatasets
  <2> QED  BY <1>5, <1>7, <1>8, <1>10, <1>12 DEF SplitIsStated
<1> QED  BY <1>13, <1>14, <1>15


\* settlements.py: one payment of it
LEMMA SettlementLineRows ==
    ASSUME IsRow("settlement_lines"), outcome = SettlementLine(job.row)
    PROVE  AcceptedExactlyWhenSound /\ NothingIsCoerced /\ BusinessDateIsLocal
<1> DEFINE row   == job.row
           split == SplitOf(row)
           date  == IF row.date.form = "blank" THEN row.batchDate ELSE row.date
           txn   == Txn(row, "settlement_line", AmountsOf(split), "credit",
                        "settled", row.parent, row.batch, {}, date)
           rest  == << Require(row.batch), DateCode(date), Require(row.id),
                        Require(row.parent), SplitCode(split) >>
<1>1. row \in Columns.settlement_lines
  BY RowFacts DEF IsRow
<1>2. {row.gross, row.fee, row.tax, row.net} \subseteq Cell /\ date \in DateCell
  BY <1>1 DEF Columns
<1>3. outcome = Normalised(CodesOf(split) \o rest, txn)
  BY DEF SettlementLine
<1>4. RowCurrency = CurrencyOf(row) /\ MoneyCells = {row.gross, row.fee, row.tax, row.net}
  BY DEF IsRow, RowCurrency, CurrencyOf, MoneyCells, SplitDatasets
<1>5. AllOk(rest) <=> /\ row.batch # Blank /\ date.form \in {"offset", "naive", "date"}
                      /\ row.id # Blank /\ row.parent # Blank
                      /\ split[4].minor = split[1].minor - split[2].minor - split[3].minor
  <2>1. AllOk(rest) <=> /\ rest[1] = "ok" /\ rest[2] = "ok" /\ rest[3] = "ok" /\ rest[4] = "ok"
                        /\ rest[5] = "ok"
    <3>1. DOMAIN rest = 1..5
      OBVIOUS
    <3> HIDE DEF rest
    <3>2. \A i \in 1..5 : i = 1 \/ i = 2 \/ i = 3 \/ i = 4 \/ i = 5
      OBVIOUS
    <3> QED  BY <3>1, <3>2 DEF AllOk
  <2>2. \A text : Require(text) = "ok" <=> text # Blank
    BY DEF Require
  <2>3. SplitCode(split) = "ok" <=>
            split[4].minor = split[1].minor - split[2].minor - split[3].minor
    BY DEF SplitCode, IdentityCode
  <2>4. DateCode(date) = "ok" <=> date.form \in {"offset", "naive", "date"}
    BY <1>2, InstantFacts
  <2> HIDE DEF split, row, date
  <2> QED  BY <2>1, <2>2, <2>3, <2>4
<1>6. DOMAIN split = 1..4
  BY DEF SplitOf
<1>7. /\ outcome.code = "ok" <=> AllOk(CodesOf(split)) /\ AllOk(rest)
      /\ outcome.code = "ok" => outcome.txn = txn
  <2> DEFINE codes == {CodesOf(split)[i] : i \in 1..4} \cup {rest[i] : i \in 1..5}
  <2>1. CodesOf(split) \in Seq(codes) /\ rest \in Seq(codes)
    <3>1. CodesOf(split) = [i \in 1..4 |-> split[i].code]
      BY <1>6 DEF CodesOf
    <3>2. rest = [i \in 1..5 |-> rest[i]]
      OBVIOUS
    <3> HIDE DEF rest, split
    <3> QED  BY <3>1, <3>2
  <2> HIDE DEF codes, rest, txn, split
  <2>2. /\ AllOk(CodesOf(split) \o rest) <=> AllOk(CodesOf(split)) /\ AllOk(rest)
        /\ DOMAIN (CodesOf(split) \o rest) \in SUBSET Nat
    BY <2>1, AllOkBoth
  <2>3. PICK checks : checks = CodesOf(split) \o rest
    OBVIOUS
  <2>4. /\ outcome = Normalised(checks, txn)
        /\ AllOk(checks) <=> AllOk(CodesOf(split)) /\ AllOk(rest)
        /\ DOMAIN checks \in SUBSET Nat
    BY <1>3, <2>2, <2>3
  <2> QED  BY <2>4, NormalisedFacts
<1>8. outcome.code = "ok" =>
         /\ outcome.txn.gross = split[1].minor /\ outcome.txn.fee = split[2].minor
         /\ outcome.txn.tax = split[3].minor /\ outcome.txn.net = split[4].minor
         /\ outcome.txn.event = Instant(date).event
         /\ outcome.txn.day = Instant(date).day
         /\ outcome.txn.assumed = Instant(date).assumed
  <2>1. /\ AmountsOf(split)[1] = split[1].minor /\ AmountsOf(split)[2] = split[2].minor
        /\ AmountsOf(split)[3] = split[3].minor /\ AmountsOf(split)[4] = split[4].minor
    BY <1>6 DEF AmountsOf
  <2>2. /\ txn.gross = AmountsOf(split)[1] /\ txn.fee = AmountsOf(split)[2]
        /\ txn.tax = AmountsOf(split)[3] /\ txn.net = AmountsOf(split)[4]
        /\ txn.event = Instant(date).event
        /\ txn.day = Instant(date).day
        /\ txn.assumed = Instant(date).assumed
    BY DEF Txn
  <2> HIDE DEF split, date, txn, rest
  <2> QED  BY <1>7, <2>1, <2>2
<1>9. Sound <=> /\ RowCurrency \in DOMAIN CurrencyExponent
                /\ \A cell \in MoneyCells : SaysAnAmount(cell)
                /\ row.id # Blank
                /\ Blank \notin {row.batch, row.parent}
                /\ date.form \in {"offset", "naive", "date"}
                /\ AmountIn(row.net) = AmountIn(row.gross) - AmountIn(row.fee) - AmountIn(row.tax)
  BY DEF Sound, IsRow
<1>10. Accepted <=> outcome.code = "ok"
  BY DEF Accepted, IsRow
<1>11. Refused => outcome.code # "ok"
  BY DEF Refused
<1>12. /\ AllOk(CodesOf(split)) =>
              /\ RowCurrency \in DOMAIN CurrencyExponent
              /\ SplitIsStated(split)
              /\ \A i \in 1..4 : split[i].minor \in Int
       /\ RowCurrency \in DOMAIN CurrencyExponent /\ (\A cell \in MoneyCells : SaysAnAmount(cell)) =>
              AllOk(CodesOf(split)) /\ MinorsAreStated(split)
       /\ AllOk(CodesOf(split)) =>
              \/ \E cell \in MoneyCells : cell.coef >= Ten[ContextDigits]
              \/ (\A cell \in MoneyCells : SaysAnAmount(cell)) /\ MinorsAreStated(split)
  <2>1. job.dataset \in {"settlement_batches", "settlement_lines"}
    BY DEF IsRow
  <2>2. PICK four : four = split
    OBVIOUS
  <2> HIDE DEF split
  <2> QED  BY <1>2, <1>4, <2>1, <2>2, SplitFacts DEF split
<1>13. BusinessDateIsLocal
  <2>1. row.date.form \in {"naive", "date"} => date = row.date
    OBVIOUS
  <2> QED  BY <1>2, <1>8, <1>10, <2>1, DatedFacts
<1> HIDE DEF row, split, date, txn, rest
<1>14. AcceptedExactlyWhenSound
  <2>1. MinorsAreStated(split) =>
            (split[4].minor = split[1].minor - split[2].minor - split[3].minor
               <=> AmountIn(row.net) = AmountIn(row.gross) - AmountIn(row.fee) - AmountIn(row.tax))
    BY DEF MinorsAreStated, row
  <2> QED  BY <1>5, <1>7, <1>9, <1>10, <1>11, <1>12, <2>1 DEF AcceptedExactlyWhenSound
<1>15. NothingIsCoerced
  <2>1. job.dataset \in SplitDatasets
    BY DEF IsRow, SplitDatasets
  <2> SUFFICES ASSUME Accepted
               PROVE  /\ outcome.txn.net = outcome.txn.gross - outcome.txn.fee - outcome.txn.tax
                      /\ States(job.row.gross, outcome.txn.gross)
                      /\ States(job.row.fee, outcome.txn.fee)
                      /\ States(job.row.tax, outcome.txn.tax)
                      /\ States(job.row.net, outcome.txn.net)
    BY <2>1 DEF NothingIsCoerced, SplitDatasets
  <2> QED  BY <1>5, <1>7, <1>8, <1>10, <1>12 DEF SplitIsStated
<1> QED  BY <1>13, <1>14, <1>15
\* bank.py
LEMMA BankRows ==
    ASSUME IsRow("bank_statement"), outcome = BankTransaction(job.row)
    PROVE  AcceptedExactlyWhenSound /\ NothingIsCoerced /\ BusinessDateIsLocal
<1> DEFINE row    == job.row
           amount == MoneyOf(row.amount, CurrencyOf(row))
           reference == Reference(row.reference, row.narration)
           txn    == Txn(row, "bank_transaction", <<amount.minor, 0, 0, amount.minor>>,
                         Direction[row.direction], "posted", Blank, reference,
                         FlagIf(reference = Blank, "bank_reference_missing")
                         \cup FlagIf(reference # Blank /\ row.reference = Blank,
                                     "reference_extracted_from_narration"),
                         row.date)
           checks == << Require(row.direction),
                        IF row.direction \in DOMAIN Direction THEN "ok" ELSE "UNKNOWN_DIRECTION",
                        SignCode(row.amount), amount.code, DateCode(row.date), Require(row.id) >>
<1>1. row \in Columns.bank_statement
  BY RowFacts DEF IsRow
<1>2. row.amount \in Cell /\ row.date \in DateCell
  BY <1>1 DEF Columns
<1>3. outcome = Normalised(checks, txn)
  BY DEF BankTransaction
<1>4. AllOk(checks) <=>
         /\ row.direction \in DOMAIN Direction /\ SignCode(row.amount) = "ok"
         /\ amount.code = "ok" /\ row.date.form \in {"offset", "naive", "date"}
         /\ row.id # Blank
  <2>1. AllOk(checks) <=>
            /\ Require(row.direction) = "ok" /\ row.direction \in DOMAIN Direction
            /\ SignCode(row.amount) = "ok" /\ amount.code = "ok"
            /\ DateCode(row.date) = "ok" /\ Require(row.id) = "ok"
    <3> HIDE DEF amount, row
    <3>1. \A i \in DOMAIN checks : i = 1 \/ i = 2 \/ i = 3 \/ i = 4 \/ i = 5 \/ i = 6
      OBVIOUS
    <3> QED  BY <3>1 DEF AllOk
  <2>2. \A text : Require(text) = "ok" <=> text # Blank
    BY DEF Require
  <2>3. Blank \notin DOMAIN Direction
    BY DEF Direction, Blank
  <2> QED  BY <1>2, <2>1, <2>2, <2>3, InstantFacts
<1>5. /\ outcome.code = "ok" <=> AllOk(checks)
      /\ outcome.code = "ok" => outcome.txn = txn
  <2>1. DOMAIN checks \in SUBSET Nat
    OBVIOUS
  <2> HIDE DEF checks, txn
  <2> QED  BY <1>3, <2>1, NormalisedFacts
<1>6. RowCurrency = CurrencyOf(row) /\ MoneyCells = {row.amount}
  BY DEF IsRow, RowCurrency, CurrencyOf, MoneyCells, SplitDatasets
<1>7. amount = MoneyOf(row.amount, RowCurrency)
  <2> HIDE DEF row
  <2> QED  BY <1>6
<1>8. outcome.code = "ok" =>
         /\ outcome.txn.gross = amount.minor /\ outcome.txn.net = amount.minor
         /\ outcome.txn.fee = 0 /\ outcome.txn.tax = 0
         /\ outcome.txn.event = Instant(row.date).event
         /\ outcome.txn.day = Instant(row.date).day
         /\ outcome.txn.assumed = Instant(row.date).assumed
  <2> HIDE DEF amount, reference, checks
  <2> QED  BY <1>5 DEF Txn
<1>9. Sound <=> /\ RowCurrency \in DOMAIN CurrencyExponent
                /\ SaysAnAmount(row.amount)
                /\ row.id # Blank
                /\ row.date.form \in {"offset", "naive", "date"}
                /\ row.direction \in DOMAIN Direction
  BY <1>6 DEF Sound, IsRow
<1>10. Accepted <=> outcome.code = "ok"
  BY DEF Accepted, IsRow
<1>11. Refused => outcome.code # "ok"
  BY DEF Refused
<1>12. BusinessDateIsLocal
  BY <1>2, <1>8, <1>10, DatedFacts
<1> HIDE DEF row, amount, reference, checks, txn
<1>13. AcceptedExactlyWhenSound
  <2>1. SaysAnAmount(row.amount) => SignCode(row.amount) = "ok"
    BY DEF SaysAnAmount, SignCode
  <2> QED  BY <1>2, <1>4, <1>5, <1>6, <1>7, <1>9, <1>10, <1>11, <2>1, CellFacts
           DEF AcceptedExactlyWhenSound
<1>14. NothingIsCoerced
  <2>1. job.dataset \in {"payments", "bank_statement", "invoices"}
    BY DEF IsRow
  <2> QED  BY <1>2, <1>4, <1>5, <1>7, <1>8, <1>10, <2>1, GrossIsStated DEF row
<1> QED  BY <1>12, <1>13, <1>14

\* invoices.py
LEMMA InvoiceRows ==
    ASSUME IsRow("invoices"), outcome = Invoice(job.row)
    PROVE  AcceptedExactlyWhenSound /\ NothingIsCoerced /\ BusinessDateIsLocal
<1> DEFINE row  == job.row
           due  == MoneyOf(row.amount, CurrencyOf(row))
           paid == IF row.hasPaid THEN MoneyOf(row.paid, CurrencyOf(row)) ELSE Read(0)
           txn  == Txn(row, "invoice", <<due.minor, 0, 0, due.minor>>, "credit",
                       InvoiceStatus[row.status], Blank, row.order,
                       FlagIf(paid.minor > due.minor, "overpaid")
                       \cup FlagIf(due.minor = 0, "zero_amount"),
                       row.date)
           checks == << due.code, paid.code, DateCode(row.date), Require(row.id),
                        MapStatus(row.status, InvoiceStatus) >>
<1>1. row \in Columns.invoices
  BY RowFacts DEF IsRow
<1>2. row.amount \in Cell /\ row.paid \in Cell /\ row.date \in DateCell /\ row.hasPaid \in BOOLEAN
  BY <1>1 DEF Columns
<1>3. outcome = Normalised(checks, txn)
  BY DEF Invoice
<1>4. AllOk(checks) <=>
         /\ due.code = "ok" /\ paid.code = "ok" /\ row.date.form \in {"offset", "naive", "date"}
         /\ row.id # Blank /\ row.status \in DOMAIN InvoiceStatus
  <2>1. AllOk(checks) <=>
            /\ due.code = "ok" /\ paid.code = "ok" /\ DateCode(row.date) = "ok"
            /\ Require(row.id) = "ok" /\ MapStatus(row.status, InvoiceStatus) = "ok"
    <3> HIDE DEF due, paid, row
    <3>1. \A i \in DOMAIN checks : i = 1 \/ i = 2 \/ i = 3 \/ i = 4 \/ i = 5
      OBVIOUS
    <3> QED  BY <3>1 DEF AllOk
  <2>2. Require(row.id) = "ok" <=> row.id # Blank
    BY DEF Require
  <2>3. MapStatus(row.status, InvoiceStatus) = "ok" <=> row.status \in DOMAIN InvoiceStatus
    BY DEF MapStatus, InvoiceStatus, Blank
  <2> QED  BY <1>2, <2>1, <2>2, <2>3, InstantFacts
<1>5. /\ outcome.code = "ok" <=> AllOk(checks)
      /\ outcome.code = "ok" => outcome.txn = txn
  <2>1. DOMAIN checks \in SUBSET Nat
    OBVIOUS
  <2> HIDE DEF checks, txn
  <2> QED  BY <1>3, <2>1, NormalisedFacts
<1>6. /\ RowCurrency = CurrencyOf(row)
      /\ MoneyCells = {row.amount} \cup (IF row.hasPaid THEN {row.paid} ELSE {})
  BY DEF IsRow, RowCurrency, CurrencyOf, MoneyCells, SplitDatasets
<1>7. /\ due = MoneyOf(row.amount, RowCurrency)
      /\ row.hasPaid => paid = MoneyOf(row.paid, RowCurrency)
      /\ ~row.hasPaid => paid.code = "ok"
  <2> HIDE DEF row
  <2> QED  BY <1>6 DEF Read
<1>8. outcome.code = "ok" =>
         /\ outcome.txn.gross = due.minor /\ outcome.txn.net = due.minor
         /\ outcome.txn.fee = 0 /\ outcome.txn.tax = 0
         /\ outcome.txn.event = Instant(row.date).event
         /\ outcome.txn.day = Instant(row.date).day
         /\ outcome.txn.assumed = Instant(row.date).assumed
  <2> HIDE DEF due, paid, checks
  <2> QED  BY <1>5 DEF Txn
<1>9. Sound <=> /\ RowCurrency \in DOMAIN CurrencyExponent
                /\ \A cell \in MoneyCells : SaysAnAmount(cell)
                /\ row.id # Blank
                /\ row.date.form \in {"offset", "naive", "date"}
                /\ row.status \in DOMAIN InvoiceStatus
  BY DEF Sound, IsRow
<1>10. Accepted <=> outcome.code = "ok"
  BY DEF Accepted, IsRow
<1>11. Refused => outcome.code # "ok"
  BY DEF Refused
<1>12. BusinessDateIsLocal
  BY <1>2, <1>8, <1>10, DatedFacts
<1> HIDE DEF row, due, paid, checks, txn
<1>13. AcceptedExactlyWhenSound
  BY <1>2, <1>4, <1>5, <1>6, <1>7, <1>9, <1>10, <1>11, CellFacts DEF AcceptedExactlyWhenSound
<1>14. NothingIsCoerced
  <2>1. job.dataset \in {"payments", "bank_statement", "invoices"}
    BY DEF IsRow
  <2> QED  BY <1>2, <1>4, <1>5, <1>7, <1>8, <1>10, <2>1, GrossIsStated DEF row
<1> QED  BY <1>12, <1>13, <1>14

\* ledger.py: one of the two sides is nothing, and the amount is the other.
LEMMA LedgerRows ==
    ASSUME IsRow("ledger"), outcome = LedgerEntry(job.row)
    PROVE  AcceptedExactlyWhenSound /\ NothingIsCoerced /\ BusinessDateIsLocal
<1> DEFINE row    == job.row
           debit  == MoneyOf(row.debit, CurrencyOf(row))
           credit == MoneyOf(row.credit, CurrencyOf(row))
           amount == IF debit.minor # 0 THEN debit.minor ELSE credit.minor
           status == IF row.status = Blank THEN "posted" ELSE row.status
           txn    == Txn(row, "ledger_entry", <<amount, 0, 0, amount>>,
                         IF debit.minor # 0 THEN "debit" ELSE "credit",
                         LedgerStatus[status], Blank, row.reference,
                         FlagIf(amount = 0, "zero_amount"), row.date)
           checks == << debit.code, credit.code,
                        IF debit.minor # 0 /\ credit.minor # 0 THEN "AMBIGUOUS_SIGN" ELSE "ok",
                        DateCode(row.date), Require(row.id),
                        MapStatus(status, LedgerStatus), Require(row.account) >>
<1>1. row \in Columns.ledger
  BY RowFacts DEF IsRow
<1>2. row.debit \in Cell /\ row.credit \in Cell /\ row.date \in DateCell
  BY <1>1 DEF Columns
<1>3. outcome = Normalised(checks, txn)
  BY DEF LedgerEntry
<1>4. AllOk(checks) <=>
         /\ debit.code = "ok" /\ credit.code = "ok" /\ (debit.minor = 0 \/ credit.minor = 0)
         /\ row.date.form \in {"offset", "naive", "date"}
         /\ row.id # Blank /\ row.status \in DOMAIN LedgerStatus \cup {Blank}
         /\ row.account # Blank
  <2>1. AllOk(checks) <=>
            /\ debit.code = "ok" /\ credit.code = "ok" /\ (debit.minor = 0 \/ credit.minor = 0)
            /\ DateCode(row.date) = "ok" /\ Require(row.id) = "ok"
            /\ MapStatus(status, LedgerStatus) = "ok" /\ Require(row.account) = "ok"
    <3> HIDE DEF debit, credit, status, row
    <3>1. \A i \in DOMAIN checks : i = 1 \/ i = 2 \/ i = 3 \/ i = 4 \/ i = 5 \/ i = 6 \/ i = 7
      OBVIOUS
    <3> QED  BY <3>1 DEF AllOk
  <2>2. \A text : Require(text) = "ok" <=> text # Blank
    BY DEF Require
  <2>3. MapStatus(status, LedgerStatus) = "ok" <=> row.status \in DOMAIN LedgerStatus \cup {Blank}
    BY DEF MapStatus, LedgerStatus, Blank
  <2> QED  BY <1>2, <2>1, <2>2, <2>3, InstantFacts
<1>5. /\ outcome.code = "ok" <=> AllOk(checks)
      /\ outcome.code = "ok" => outcome.txn = txn
  <2>1. DOMAIN checks \in SUBSET Nat
    OBVIOUS
  <2> HIDE DEF checks, txn
  <2> QED  BY <1>3, <2>1, NormalisedFacts
<1>6. RowCurrency = CurrencyOf(row) /\ MoneyCells = {row.debit, row.credit}
  BY DEF IsRow, RowCurrency, CurrencyOf, MoneyCells, SplitDatasets
<1>7. debit = MoneyOf(row.debit, RowCurrency) /\ credit = MoneyOf(row.credit, RowCurrency)
  <2> HIDE DEF row
  <2> QED  BY <1>6
<1>8. outcome.code = "ok" =>
         /\ outcome.txn.gross = amount /\ outcome.txn.net = amount
         /\ outcome.txn.fee = 0 /\ outcome.txn.tax = 0
         /\ outcome.txn.direction = IF debit.minor # 0 THEN "debit" ELSE "credit"
         /\ outcome.txn.event = Instant(row.date).event
         /\ outcome.txn.day = Instant(row.date).day
         /\ outcome.txn.assumed = Instant(row.date).assumed
  <2> HIDE DEF amount, status, checks
  <2> QED  BY <1>5 DEF Txn
<1>9. Sound <=> /\ RowCurrency \in DOMAIN CurrencyExponent
                /\ SaysAnAmount(row.debit) /\ SaysAnAmount(row.credit)
                /\ row.id # Blank
                /\ row.date.form \in {"offset", "naive", "date"} /\ row.account # Blank
                /\ row.status \in DOMAIN LedgerStatus \cup {Blank}
                /\ AmountIn(row.debit) = 0 \/ AmountIn(row.credit) = 0
  BY <1>6 DEF Sound, IsRow
<1>10. Accepted <=> outcome.code = "ok"
  BY DEF Accepted, IsRow
<1>11. Refused => outcome.code # "ok"
  BY DEF Refused
<1>12. BusinessDateIsLocal
  BY <1>2, <1>8, <1>10, DatedFacts
<1>13. /\ debit.minor # 0 => amount = debit.minor
       /\ debit.minor = 0 => amount = credit.minor
  OBVIOUS
<1> HIDE DEF row, debit, credit, amount, status, checks, txn
<1>14. AcceptedExactlyWhenSound
  BY <1>2, <1>4, <1>5, <1>6, <1>7, <1>9, <1>10, <1>11, CellFacts DEF AcceptedExactlyWhenSound
<1>15. NothingIsCoerced
  <2>1. job.dataset = "ledger"
    BY DEF IsRow
  <2> SUFFICES ASSUME Accepted
               PROVE  LET txn1 == outcome.txn
                          Side(direction) == IF txn1.direction = direction THEN txn1.gross ELSE 0
                      IN  /\ txn1.net = txn1.gross - txn1.fee - txn1.tax
                          /\ States(job.row.debit, Side("debit"))
                          /\ States(job.row.credit, Side("credit"))
                          /\ txn1.fee = 0 /\ txn1.tax = 0
    BY <2>1 DEF NothingIsCoerced, SplitDatasets
  <2>2. debit.code = "ok" /\ credit.code = "ok" /\ (debit.minor = 0 \/ credit.minor = 0)
    BY <1>4, <1>5, <1>10
  <2>3. /\ debit.minor \in Int /\ States(row.debit, debit.minor)
        /\ credit.minor \in Int /\ States(row.credit, credit.minor)
    BY <1>2, <1>7, <2>2, CellFacts
  <2>4. PICK d \in Int, c \in Int : d = debit.minor /\ c = credit.minor
    BY <2>3
  <2>5. d = d - 0 - 0 /\ c = c - 0 - 0
    OBVIOUS
  <2>6. /\ outcome.txn.gross = amount /\ outcome.txn.net = amount
        /\ outcome.txn.fee = 0 /\ outcome.txn.tax = 0
        /\ outcome.txn.direction = IF debit.minor # 0 THEN "debit" ELSE "credit"
    BY <1>8, <1>10
  <2>7. CASE debit.minor # 0
    BY <1>13, <2>2, <2>3, <2>4, <2>5, <2>6, <2>7 DEF row
  <2>8. CASE debit.minor = 0
    BY <1>13, <2>2, <2>3, <2>4, <2>5, <2>6, <2>8 DEF row
  <2> QED  BY <2>7, <2>8
<1> QED  BY <1>12, <1>14, <1>15

\* Whatever the row, the dataset it was declared as decides what is said of it.
LEMMA RowsFollow ==
    ASSUME Returned
    PROVE  AcceptedExactlyWhenSound /\ NothingIsCoerced /\ BusinessDateIsLocal
<1>1. CASE outcome = Pending \/ job.kind # "row"
  BY <1>1 DEF Pending, Accepted, Refused, AcceptedExactlyWhenSound, NothingIsCoerced,
              BusinessDateIsLocal
<1>2. CASE outcome # Pending /\ job.kind = "row"
  <2>1. outcome = Normalise(job.dataset, job.row)
    BY <1>2 DEF Returned
  <2>2. job.dataset \in Datasets /\ job \in Jobs
    BY <1>2, RowFacts DEF Returned
  <2>3. CASE job.dataset = "payments"
    BY <1>2, <2>1, <2>2, <2>3, PaymentRows DEF Normalise, IsRow
  <2>4. CASE job.dataset = "settlement_batches"
    BY <1>2, <2>1, <2>2, <2>4, SettlementBatchRows DEF Normalise, IsRow
  <2>5. CASE job.dataset = "settlement_lines"
    BY <1>2, <2>1, <2>2, <2>5, SettlementLineRows DEF Normalise, IsRow
  <2>6. CASE job.dataset = "bank_statement"
    BY <1>2, <2>1, <2>2, <2>6, BankRows DEF Normalise, IsRow
  <2>7. CASE job.dataset = "invoices"
    BY <1>2, <2>1, <2>2, <2>7, InvoiceRows DEF Normalise, IsRow
  <2>8. CASE job.dataset = "ledger"
    BY <1>2, <2>1, <2>2, <2>8, LedgerRows DEF Normalise, IsRow
  <2> QED  BY <2>2, <2>3, <2>4, <2>5, <2>6, <2>7, <2>8 DEF Datasets
<1> QED  BY <1>1, <1>2

\* A row is accepted when, and apart from amounts beyond a Decimal's digits only
\* when, all the engine reads of it is stated and stated once: no normaliser
\* lets a row through that another check should have refused, and none refuses
\* a row that is sound (normalizers/*.py).
THEOREM RowsAreJudged == Spec => []AcceptedExactlyWhenSound
BY ReturnedOnce, RowsFollow, PTL

\* Each amount of an accepted row is what the cell of its own column states,
\* to the minor unit, or the nearest unit to it where the cell has more digits
\* than a Decimal keeps; net, gross, fee and tax agree (money.py:9-19,
\* canonical.py:120).
THEOREM AmountsAreKept == Spec => []NothingIsCoerced
BY ReturnedOnce, RowsFollow, PTL

\* The business date is the local day of the instant, with or without an offset
\* in the file, for every timezone ahead of UTC (base.py:118).
THEOREM DatesAreLocal == Spec => []BusinessDateIsLocal
BY ReturnedOnce, RowsFollow, PTL

----------------------------------------------------------------------------
(* Writing.                                                               *)

\* The groups that amounts are written in are groups that are read.
LEMMA GroupsAreRead ==
    ASSUME NEW n \in Nat \ {0}
    PROVE  WellGrouped(WesternGroups(n)) /\ WellGrouped(IndianGroups(n))
<1>1. WellGrouped(WesternGroups(n))
  <2> DEFINE len  == (n + 2) \div 3
             head == n - 3 * ((n - 1) \div 3)
             groups == [i \in 1..len |-> IF i = 1 THEN head ELSE 3]
  <2>1. len \in Nat /\ len >= 1 /\ head \in 1..3
    OBVIOUS
  <2>2. WesternGroups(n) = groups
    BY DEF WesternGroups
  <2> HIDE DEF len, head
  <2>3. Len(groups) = len /\ groups[1] = head /\ \A i \in 2..len : groups[i] = 3
    BY <2>1
  <2> HIDE DEF groups
  <2>4. len = 1 \/ len > 1
    BY <2>1
  <2>5. Plain(groups) \/ Western(groups)
    BY <2>1, <2>3, <2>4 DEF Plain, Western
  <2> QED  BY <2>2, <2>5 DEF WellGrouped
<1>2. WellGrouped(IndianGroups(n))
  <2>1. CASE n <= 3
    BY <2>1 DEF IndianGroups, WellGrouped, Plain
  <2>2. CASE ~(n <= 3)
    <3> DEFINE pairs == (n - 2) \div 2
               head  == n - 3 - 2 * (pairs - 1)
               groups == [i \in 1..(pairs + 1) |-> CASE i = pairs + 1 -> 3
                                                    [] i = 1 -> head
                                                    [] OTHER -> 2]
    <3>1. pairs \in Nat /\ pairs >= 1 /\ head \in 1..2
      BY <2>2
    <3>2. IndianGroups(n) = groups
      BY <2>2 DEF IndianGroups
    <3> HIDE DEF pairs, head
    <3>3. \A i \in 1..(pairs + 1) : groups[i] = IF i = pairs + 1 THEN 3 ELSE IF i = 1 THEN head ELSE 2
      BY <3>1
    <3>4. Len(groups) = pairs + 1
      BY <3>1
    <3> HIDE DEF groups
    <3>5. groups[1] = head /\ groups[pairs + 1] = 3
      BY <3>1, <3>3
    <3>6. pairs = 1 => Western(groups)
      BY <3>1, <3>4, <3>5 DEF Western
    <3>7. pairs # 1 => Indian(groups)
      BY <3>1, <3>3, <3>4, <3>5 DEF Indian
    <3> QED  BY <3>2, <3>6, <3>7 DEF WellGrouped
  <2> QED  BY <2>1, <2>2
<1> QED  BY <1>1, <1>2

\* An amount is written with all its digits, in groups, and none of them is
\* lost when it is read.
LEMMA WrittenIsRead ==
    ASSUME NEW currency \in DOMAIN CurrencyExponent, NEW minor \in (-MinorMax - 1)..MinorMax
    PROVE  ParseMoney(FormatMinor(minor, currency), currency, TRUE) = Read(minor)
<1> DEFINE exponent == CurrencyExponent[currency]
           size     == IF minor < 0 THEN -minor ELSE minor
           whole    == DigitCount[size \div Ten[exponent]]
           groups   == IF currency = "INR" THEN IndianGroups(whole) ELSE WesternGroups(whole)
           cell     == FormatMinor(minor, currency)
<1>1. minor \in Int /\ size \in Nat /\ size < Ten[ContextDigits] /\ exponent \in Nat
  BY DigitsSuffice DEF CurrencyExponent
<1>2. whole \in Nat \ {0}
  <2>1. PICK unit \in Nat \ {0} : unit = Ten[exponent]
    BY <1>1, TenFacts
  <2>2. PICK n \in Nat : n = size
    BY <1>1
  <2>3. n \div unit \in Nat
    OBVIOUS
  <2> QED  BY <2>1, <2>2, <2>3, DigitCountFacts
<1>3. WellGrouped(groups)
  BY <1>2, GroupsAreRead
<1>4. /\ cell.form = "text" /\ cell.sign = (IF minor < 0 THEN "minus" ELSE "none")
      /\ cell.lead = FALSE /\ cell.groups = groups
      /\ cell.coef = size /\ cell.places = exponent
  BY DEF FormatMinor, Written
<1> HIDE DEF cell, groups, whole
<1>5. ToMinor(cell.coef, cell.places, exponent) = Read(size)
  <2>1. Fixed(size) = size
    BY <1>1 DEF Fixed
  <2>2. exponent - exponent = 0 /\ size * 1 = size
    BY <1>1
  <2> QED  BY <1>1, <1>4, <2>1, <2>2, TenFacts DEF ToMinor
<1>6. StringCode(cell) = "ok"
  BY <1>3, <1>4 DEF StringCode
<1>7. ParseMoney(cell, currency, TRUE) = Signed(cell.sign # "none", Read(size))
  BY <1>5, <1>6 DEF ParseMoney
<1>8. Signed(cell.sign # "none", Read(size)) = Stored(minor)
  BY <1>1, <1>4 DEF Signed, Read
<1> QED  BY <1>7, <1>8 DEF Stored, cell

\* Every amount that is stored is written, in either grouping and with either
\* sign, as something that is read back as the same amount (money.py:317).
THEOREM WritingIsReadBack == Spec => []WrittenAmountsReadBack
<1>1. Returned => WrittenAmountsReadBack
  <2> SUFFICES ASSUME Returned, job.kind = "write", outcome # Pending
               PROVE  ParseMoney(outcome.cell, job.currency, TRUE) = Read(job.minor)
    BY DEF WrittenAmountsReadBack
  <2>1. job.currency \in DOMAIN CurrencyExponent /\ job.minor \in (-MinorMax - 1)..MinorMax
    BY NormaliserAssumption DEF Returned, IsCall
  <2>2. outcome.cell = FormatMinor(job.minor, job.currency)
    BY DEF Returned
  <2> QED  BY <2>1, <2>2, WrittenIsRead
<1> QED  BY <1>1, ReturnedOnce, PTL
----------------------------------------------------------------------------
(* Splitting.                                                             *)

\* Who comes before i when units go to the largest remainders, ties by index.
Ahead(rest, i) == {j \in DOMAIN rest : \/ rest[j] > rest[i]
                                       \/ rest[j] = rest[i] /\ j < i}

\* The order of the remainders gives every place away, and only once: for each
\* s, exactly s of them have fewer than s before them.
LEMMA PlacesAreFilled ==
    ASSUME NEW n \in Nat, NEW rest \in [1..n -> Nat], NEW s \in 0..n
    PROVE  LET first == {i \in 1..n : Cardinality(Ahead(rest, i)) < s}
           IN  IsFiniteSet(first) /\ Cardinality(first) = s
<1> DEFINE place == [i \in 1..n |-> Cardinality(Ahead(rest, i))]
           first == {i \in 1..n : Cardinality(Ahead(rest, i)) < s}
           taken == [i \in first |-> place[i]]
<1>1. IsFiniteSet(1..n) /\ Cardinality(1..n) = n
  BY FS_Interval
<1>2. \A i \in 1..n : Ahead(rest, i) \in SUBSET (1..n) /\ i \notin Ahead(rest, i)
  BY DEF Ahead
<1>3. \A i \in 1..n : IsFiniteSet(Ahead(rest, i)) /\ Cardinality(Ahead(rest, i)) \in Nat
  BY <1>1, <1>2, FS_Subset, FS_CardinalityType
<1>4. ASSUME NEW i \in 1..n, NEW j \in Ahead(rest, i)
      PROVE  j \in 1..n /\ Cardinality(Ahead(rest, j)) < Cardinality(Ahead(rest, i))
  <2>1. j \in 1..n /\ Ahead(rest, j) \subseteq Ahead(rest, i) /\ j \notin Ahead(rest, j)
    BY DEF Ahead
  <2>2. Cardinality(Ahead(rest, j)) <= Cardinality(Ahead(rest, i))
        /\ Cardinality(Ahead(rest, j)) # Cardinality(Ahead(rest, i))
    BY <1>3, <2>1, FS_Subset
  <2> QED  BY <1>3, <2>1, <2>2
<1>5. \A i, j \in 1..n : i # j => i \in Ahead(rest, j) \/ j \in Ahead(rest, i)
  BY DEF Ahead
<1>6. \A i, j \in 1..n : i # j => place[i] # place[j]
  BY <1>3, <1>4, <1>5
<1>7. \A i \in 1..n : place[i] \in 0..(n - 1)
  <2> TAKE i \in 1..n
  <2>1. IsFiniteSet((1..n) \ {i}) /\ Cardinality((1..n) \ {i}) = n - 1
    BY <1>1, FS_RemoveElement
  <2>2. Ahead(rest, i) \in SUBSET ((1..n) \ {i})
    BY <1>2
  <2>3. Cardinality(Ahead(rest, i)) <= n - 1
    BY <2>1, <2>2, FS_Subset
  <2> QED  BY <1>3, <2>3
<1>8. IsFiniteSet(0..(n - 1)) /\ Cardinality(0..(n - 1)) = n
  <2>1. 0 \in Int /\ n - 1 \in Int /\ (IF 0 > n - 1 THEN 0 ELSE n - 1 - 0 + 1) = n
    OBVIOUS
  <2> QED  BY <2>1, FS_Interval
<1>9. place \in Surjection(1..n, 0..(n - 1))
  <2>1. place \in Injection(1..n, 0..(n - 1))
    BY <1>6, <1>7 DEF Injection, IsInjective
  <2> QED  BY <1>1, <1>8, <2>1, FS_Injection
<1>10. first \in SUBSET (1..n) /\ \A i \in 1..n : i \in first <=> place[i] < s
  OBVIOUS
<1>11. IsFiniteSet(first)
  BY <1>1, <1>10, FS_Subset
<1>12. \A i \in first : taken[i] = place[i] /\ taken[i] \in 0..(s - 1)
  BY <1>7, <1>10
<1>13. \A k \in 0..(s - 1) : \E i \in first : taken[i] = k
  <2> TAKE k \in 0..(s - 1)
  <2>1. k \in 0..(n - 1)
    OBVIOUS
  <2> HIDE DEF place
  <2>2. PICK i \in 1..n : place[i] = k
    BY <1>9, <2>1 DEF Surjection
  <2>3. place[i] < s
    BY <2>2
  <2> QED  BY <1>10, <1>12, <2>2, <2>3
<1>14. taken \in Surjection(first, 0..(s - 1)) /\ taken \in Injection(first, 0..(s - 1))
  <2>1. taken \in [first -> 0..(s - 1)]
    BY <1>12
  <2>2. \A i, j \in first : taken[i] = taken[j] => i = j
    BY <1>6, <1>10, <1>12
  <2> HIDE DEF taken, first
  <2> QED  BY <1>13, <2>1, <2>2 DEF Surjection, Injection, IsInjective
<1>15. Cardinality(0..(s - 1)) = s
  BY FS_Interval
<1> HIDE DEF taken, first
<1>16. Cardinality(first) = s
  BY <1>11, <1>14, <1>15, FS_Surjection
<1> QED  BY <1>11, <1>16 DEF first

\* A function on the first n numbers is a sequence.
LEMMA FunctionIsSequence ==
    ASSUME NEW n \in Nat, NEW S, NEW f \in [1..n -> S]
    PROVE  f \in Seq(S) /\ Len(f) = n
OBVIOUS

\* A sequence of zeros.
LEMMA NothingSumsToZero ==
    ASSUME NEW n \in Nat
    PROVE  [i \in 1..n |-> 0] \in Seq(Int) /\ SumOf([i \in 1..n |-> 0]) = 0
<1> DEFINE zeros == [i \in 1..n |-> 0]
<1>1. zeros \in Seq(Int) /\ Len(zeros) = n /\ \A i \in 1..n : zeros[i] = 0
  OBVIOUS
<1> HIDE DEF zeros
<1>2. {} \in SUBSET (1..Len(zeros)) /\ \A i \in 1..Len(zeros) : zeros[i] = IF i \in {} THEN 1 ELSE 0
  BY <1>1
<1>3. SumOf(zeros) = Cardinality({})
  BY <1>1, <1>2, SumOfIndicator
<1> QED  BY <1>1, <1>3, FS_EmptySet DEF zeros

\* The weights are not negative, so what they come to is not.
LEMMA WeightsSum ==
    ASSUME NEW weights \in Seq(Nat)
    PROVE  weights \in Seq(Int) /\ SumOf(weights) \in Nat
<1> DEFINE n == Len(weights)
           zeros == [i \in 1..n |-> 0]
<1>1. n \in Nat /\ weights \in Seq(Int) /\ \A i \in 1..n : weights[i] >= 0
  OBVIOUS
<1>2. zeros \in Seq(Int) /\ Len(zeros) = n /\ \A i \in 1..n : zeros[i] = 0
  BY <1>1
<1>3. SumOf(zeros) = 0
  BY <1>1, NothingSumsToZero
<1> HIDE DEF zeros
<1>4. SumOf(zeros) <= SumOf(weights)
  <2>1. Len(weights) = Len(zeros) /\ \A i \in 1..Len(zeros) : zeros[i] <= weights[i]
    BY <1>1, <1>2
  <2> QED  BY <1>1, <1>2, <2>1, SumIsMonotone
<1>5. SumOf(weights) \in Int
  BY <1>1, SumIsInt
<1> QED  BY <1>1, <1>3, <1>4, <1>5

\* Flooring loses less than a unit for each weight that does not divide: what is
\* left goes to some of those whose remainder is not zero, and to no other.
LEMMA SharesAddUp ==
    ASSUME NEW m \in Nat, NEW weights \in Seq(Nat), SumOf(weights) # 0
    PROVE  LET all       == SumOf(weights)
               Floor(i)  == (m * weights[i]) \div all
               rest      == [i \in DOMAIN weights |-> (m * weights[i]) % all]
               short     == m - SumOf([i \in DOMAIN weights |-> Floor(i)])
               Extra(i)  == IF Cardinality(Ahead(rest, i)) < short THEN 1 ELSE 0
               sizes     == [i \in DOMAIN weights |-> Floor(i) + Extra(i)]
           IN  /\ sizes \in Seq(Nat)
               /\ SumOf(sizes) = m
               /\ \A i \in DOMAIN weights :
                      /\ sizes[i] * all - m * weights[i] \in (1 - all)..(all - 1)
                      /\ weights[i] = 0 => sizes[i] = 0
<1> DEFINE n       == Len(weights)
           all     == SumOf(weights)
           scaled  == [i \in 1..n |-> m * weights[i]]
           floors  == [i \in 1..n |-> (m * weights[i]) \div all]
           rest    == [i \in 1..n |-> (m * weights[i]) % all]
           zeros   == [i \in 1..n |-> 0]
           some    == {i \in 1..n : rest[i] > 0}
           flags   == [i \in 1..n |-> IF i \in some THEN 1 ELSE 0]
           most    == [i \in 1..n |-> (all - 1) * flags[i]]
           short   == m - SumOf(floors)
           first   == {i \in 1..n : Cardinality(Ahead(rest, i)) < short}
           extra   == [i \in 1..n |-> IF i \in first THEN 1 ELSE 0]
           sizes   == [i \in 1..n |-> floors[i] + extra[i]]
<1>1. n \in Nat /\ DOMAIN weights = 1..n /\ \A i \in 1..n : weights[i] \in Nat
  OBVIOUS
<1>2. all \in Nat \ {0} /\ weights \in Seq(Int)
  BY WeightsSum
<1> HIDE DEF n, all
<1>3. \A i \in 1..n : /\ m * weights[i] \in Nat
                      /\ m * weights[i] = all * floors[i] + rest[i]
                      /\ floors[i] \in Nat /\ rest[i] \in 0..(all - 1)
                      /\ weights[i] = 0 => floors[i] = 0 /\ rest[i] = 0
  <2> TAKE i \in 1..n
  <2>1. PICK w \in Nat : w = weights[i]
    BY <1>1
  <2>2. PICK x \in Nat : x = m * w /\ (w = 0 => x = 0)
    OBVIOUS
  <2>3. x = all * (x \div all) + (x % all) /\ x \div all \in Nat /\ x % all \in 0..(all - 1)
        /\ (x = 0 => x \div all = 0 /\ x % all = 0)
    BY <1>2
  <2>4. floors[i] = x \div all /\ rest[i] = x % all /\ m * weights[i] = x
    BY <2>1, <2>2
  <2> QED  BY <2>1, <2>2, <2>3, <2>4
<1>4. /\ Len(scaled) = n /\ \A i \in 1..n : scaled[i] = m * weights[i]
      /\ Len(zeros) = n /\ \A i \in 1..n : zeros[i] = 0
      /\ Len(floors) = n /\ Len(rest) = n /\ Len(flags) = n /\ Len(most) = n
      /\ zeros \in Seq(Int) /\ flags \in Seq(Int)
  BY <1>1
<1>5. scaled \in Seq(Int) /\ floors \in Seq(Int) /\ rest \in Seq(Int) /\ rest \in [1..n -> Nat]
  <2>1. (\A i \in 1..n : scaled[i] \in Int) /\ (\A i \in 1..n : floors[i] \in Int)
        /\ (\A i \in 1..n : rest[i] \in Int /\ rest[i] \in Nat)
    <3>1. \A i \in 1..n : scaled[i] = m * weights[i]
      BY <1>4
    <3> HIDE DEF scaled, floors, rest
    <3>2. 0..(all - 1) \subseteq Nat /\ Nat \subseteq Int
      BY <1>2
    <3> QED  BY <1>3, <3>1, <3>2
  <2> HIDE DEF scaled
  <2>2. scaled \in [1..n -> Int] /\ floors \in [1..n -> Int] /\ rest \in [1..n -> Int]
        /\ rest \in [1..n -> Nat]
    BY <2>1 DEF scaled
  <2> HIDE DEF floors, rest
  <2> QED  BY <1>1, <2>2, FunctionIsSequence
<1>6. SumOf(zeros) = 0
  BY <1>1, NothingSumsToZero
<1>7. SumOf(floors) \in Int /\ SumOf(rest) \in Int
  BY <1>5, SumIsInt
<1> HIDE DEF scaled, floors, rest, zeros
<1>8. SumOf(scaled) = m * all
  <2>1. /\ m \in Int /\ weights \in Seq(Int) /\ scaled \in Seq(Int) /\ Len(scaled) = Len(weights)
        /\ \A i \in 1..Len(weights) : scaled[i] = m * weights[i]
    BY <1>2, <1>4, <1>5 DEF n
  <2> QED  BY <2>1, SumOfMultiples DEF all
<1>9. SumOf(scaled) = all * SumOf(floors) + SumOf(rest)
  <2>1. \A i \in 1..Len(floors) : scaled[i] = all * floors[i] + rest[i]
    BY <1>3, <1>4
  <2> DEFINE parts == [i \in 1..n |-> all * floors[i]]
  <2>2. \A i \in 1..n : parts[i] = all * floors[i] /\ parts[i] \in Int
    BY <1>2, <1>3
  <2>3. Len(parts) = n /\ parts \in Seq(Int)
    <3>1. parts \in [1..n -> Int]
      BY <2>2
    <3> HIDE DEF parts
    <3> QED  BY <1>1, <3>1, FunctionIsSequence
  <2> HIDE DEF parts
  <2>4. SumOf(parts) = all * SumOf(floors)
    <3>1. all \in Int /\ Len(parts) = Len(floors)
          /\ \A i \in 1..Len(floors) : parts[i] = all * floors[i]
      BY <1>2, <1>4, <2>2, <2>3
    <3> QED  BY <1>5, <2>3, <3>1, SumOfMultiples
  <2>5. SumOf(scaled) = SumOf(parts) + SumOf(rest)
    <3>1. Len(rest) = Len(parts) /\ Len(scaled) = Len(parts)
          /\ \A i \in 1..Len(parts) : scaled[i] = parts[i] + rest[i]
      BY <1>4, <2>1, <2>2, <2>3
    <3> QED  BY <1>5, <2>3, <3>1, SumOfSums
  <2> QED  BY <2>4, <2>5
<1>10. SumOf(zeros) <= SumOf(rest)
  <2>1. \A i \in 1..Len(zeros) : zeros[i] <= rest[i]
    BY <1>3, <1>4
  <2> QED  BY <1>4, <1>5, <2>1, SumIsMonotone
<1>11. /\ IsFiniteSet(some) /\ Cardinality(some) \in 0..n
       /\ SumOf(flags) = Cardinality(some)
  <2>1. IsFiniteSet(1..n) /\ Cardinality(1..n) = n /\ some \in SUBSET (1..n)
    BY <1>1, FS_Interval
  <2>2. IsFiniteSet(some) /\ Cardinality(some) <= n
    BY <2>1, FS_Subset
  <2>3. \A i \in 1..Len(flags) : flags[i] = IF i \in some THEN 1 ELSE 0
    BY <1>4
  <2>4. some \in SUBSET (1..Len(flags))
    BY <1>4, <2>1
  <2> HIDE DEF some, flags
  <2>5. SumOf(flags) = Cardinality(some)
    BY <1>4, <2>3, <2>4, SumOfIndicator
  <2>6. Cardinality(some) \in Nat
    BY <2>2, FS_CardinalityType
  <2> QED  BY <1>1, <2>2, <2>5, <2>6
<1>12. SumOf(rest) <= (all - 1) * Cardinality(some)
  <2>1. \A i \in 1..n : flags[i] \in Int /\ rest[i] <= (all - 1) * flags[i] /\ most[i] = (all - 1) * flags[i]
    <3> TAKE i \in 1..n
    <3>1. most[i] = (all - 1) * flags[i] /\ flags[i] = IF rest[i] > 0 THEN 1 ELSE 0
      OBVIOUS
    <3>2. rest[i] \in Int /\ 0 <= rest[i] /\ rest[i] <= all - 1
      BY <1>2, <1>3
    <3> HIDE DEF flags, most
    <3>3. CASE rest[i] > 0
      BY <1>2, <3>1, <3>2, <3>3
    <3>4. CASE ~(rest[i] > 0)
      BY <1>2, <3>1, <3>2, <3>4
    <3> QED  BY <3>1, <3>3, <3>4
  <2> HIDE DEF flags, some
  <2>2. \A i \in 1..n : most[i] \in Int
    BY <1>2, <2>1
  <2>3. most \in Seq(Int)
    BY <1>1, <1>2, <2>1
  <2> HIDE DEF most
  <2>4. PICK k \in Int : k = all - 1
    BY <1>2
  <2>5. SumOf(most) = k * SumOf(flags)
    <3>1. /\ flags \in Seq(Int) /\ Len(most) = Len(flags)
          /\ \A i \in 1..Len(flags) : most[i] = k * flags[i]
      BY <1>4, <2>1, <2>4
    <3> QED  BY <2>3, <3>1, SumOfMultiples
  <2>6. Len(most) = Len(rest) /\ \A i \in 1..Len(rest) : rest[i] <= most[i]
    BY <1>4, <2>1
  <2>7. SumOf(rest) <= SumOf(most)
    BY <1>5, <2>3, <2>6, SumIsMonotone
  <2>8. (all - 1) * SumOf(flags) \in Int
    BY <1>2, <1>11
  <2> QED  BY <1>11, <2>4, <2>5, <2>7, <2>8
<1>13. short \in Nat /\ short <= Cardinality(some) /\ SumOf(floors) + short = m
  <2>1. PICK f \in Int : f = SumOf(floors)
    BY <1>7
  <2>2. PICK r \in Int : r = SumOf(rest) /\ r >= 0
    BY <1>6, <1>7, <1>10
  <2>3. PICK p \in Nat : p = Cardinality(some)
    <3> HIDE DEF some
    <3> QED  BY <1>1, <1>11
  <2>4. m * all = all * f + r /\ r <= (all - 1) * p
    BY <1>8, <1>9, <1>12, <2>1, <2>2, <2>3
  <2>5. all * (m - f) = r
    BY <1>2, <2>4
  <2>6. m - f >= 0
    BY <1>2, <2>2, <2>5
  <2>7. ASSUME m - f >= p + 1
        PROVE  FALSE
    <3>1. all * (m - f) >= all * (p + 1)
      BY <1>2, <2>7
    <3>2. all * (p + 1) = (all - 1) * p + p + all
      BY <1>2
    <3> QED  BY <1>2, <2>4, <2>5, <3>1, <3>2
  <2> HIDE DEF some
  <2> QED  BY <2>1, <2>3, <2>6, <2>7
<1>14. short \in 0..n
  BY <1>1, <1>11, <1>13
<1>15. IsFiniteSet(first) /\ Cardinality(first) = short /\ first \in SUBSET (1..n)
  <2> HIDE DEF short
  <2> QED  BY <1>1, <1>5, <1>14, PlacesAreFilled
<1>16. \A i \in 1..n : rest[i] = 0 => i \notin first
  <2> SUFFICES ASSUME NEW i \in 1..n, rest[i] = 0
               PROVE  ~(Cardinality(Ahead(rest, i)) < short)
    OBVIOUS
  <2>1. DOMAIN rest = 1..n
    BY <1>5
  <2>2. some \in SUBSET Ahead(rest, i) /\ Ahead(rest, i) \in SUBSET (1..n)
    BY <2>1 DEF Ahead
  <2>3. IsFiniteSet(1..n)
    BY <1>1, FS_Interval
  <2>4. IsFiniteSet(Ahead(rest, i)) /\ Cardinality(Ahead(rest, i)) \in Nat
    BY <2>2, <2>3, FS_Subset, FS_CardinalityType
  <2> HIDE DEF some, short
  <2>5. Cardinality(some) <= Cardinality(Ahead(rest, i))
    BY <2>2, <2>4, FS_Subset
  <2> QED  BY <1>11, <1>13, <2>4, <2>5
<1> HIDE DEF short, first, some, flags, most
<1>17. \A i \in 1..n : /\ extra[i] \in {0, 1}
                       /\ extra[i] = (IF i \in first THEN 1 ELSE 0)
                       /\ rest[i] = 0 => extra[i] = 0
  BY <1>16
<1>18. extra \in Seq(Int) /\ Len(extra) = n
  BY <1>1
<1> HIDE DEF extra
<1>19. SumOf(extra) = short
  <2>1. first \in SUBSET (1..Len(extra)) /\ \A i \in 1..Len(extra) : extra[i] = IF i \in first THEN 1 ELSE 0
    BY <1>15, <1>17, <1>18
  <2> QED  BY <1>15, <1>18, <2>1, SumOfIndicator
<1>20. \A i \in 1..n : sizes[i] \in Nat /\ sizes[i] = floors[i] + extra[i]
  BY <1>3, <1>17
<1>21. sizes \in Seq(Nat) /\ sizes \in Seq(Int) /\ Len(sizes) = n
  <2>1. sizes \in [1..n -> Nat] /\ sizes \in [1..n -> Int]
    BY <1>3, <1>17
  <2> HIDE DEF sizes
  <2> QED  BY <1>1, <2>1
<1> HIDE DEF sizes
<1>22. SumOf(sizes) = m
  <2>1. Len(extra) = Len(floors) /\ Len(sizes) = Len(floors)
        /\ \A i \in 1..Len(floors) : sizes[i] = floors[i] + extra[i]
    BY <1>3, <1>4, <1>17, <1>18, <1>20, <1>21
  <2>2. SumOf(sizes) = SumOf(floors) + SumOf(extra)
    BY <1>5, <1>18, <1>21, <2>1, SumOfSums
  <2> QED  BY <1>7, <1>13, <1>14, <1>19, <2>2
<1>23. \A i \in 1..n : /\ sizes[i] * all - m * weights[i] \in (1 - all)..(all - 1)
                       /\ weights[i] = 0 => sizes[i] = 0
  <2> TAKE i \in 1..n
  <2>1. PICK f \in Nat, r \in 0..(all - 1), e \in {0, 1} :
            f = floors[i] /\ r = rest[i] /\ e = extra[i]
    BY <1>3, <1>17
  <2>2. m * weights[i] = all * f + r /\ sizes[i] = f + e /\ (r = 0 => e = 0)
    BY <1>3, <1>17, <1>20, <2>1
  <2>3. (f + e) * all - (all * f + r) = e * all - r
    BY <1>2, <2>1
  <2>4. e * all - r \in (1 - all)..(all - 1)
    <3>1. e = 0 \/ (e = 1 /\ r >= 1)
      BY <2>1, <2>2
    <3>2. CASE e = 0
      BY <1>2, <2>1, <3>2
    <3>3. CASE e = 1 /\ r >= 1
      BY <1>2, <2>1, <3>3
    <3> QED  BY <3>1, <3>2, <3>3
  <2>5. weights[i] = 0 => sizes[i] = 0
    BY <1>3, <2>1, <2>2
  <2> QED  BY <2>2, <2>3, <2>4, <2>5
<1>24. /\ floors = [i \in DOMAIN weights |-> (m * weights[i]) \div all]
       /\ rest = [i \in DOMAIN weights |-> (m * weights[i]) % all]
  BY <1>1 DEF floors, rest
<1>25. sizes = [i \in DOMAIN weights |->
                   (m * weights[i]) \div all + IF Cardinality(Ahead(rest, i)) < short THEN 1 ELSE 0]
  BY <1>1 DEF sizes, extra, first, floors
<1> QED  BY <1>1, <1>21, <1>22, <1>23, <1>24, <1>25 DEF all, short

\* The shares of an amount come to it, sign and all, each is less than a unit
\* from its exact part, and a weight of zero gets nothing.
LEMMA SplitIsExact ==
    ASSUME NEW total \in Int, NEW weights \in Seq(Nat), SumOf(weights) # 0
    PROVE  LET shares == Allocate(total, weights)
               all    == SumOf(weights)
           IN  /\ SumOf(shares) = total
               /\ \A i \in DOMAIN weights :
                      /\ shares[i] * all - total * weights[i] \in (1 - all)..(all - 1)
                      /\ weights[i] = 0 => shares[i] = 0
<1> DEFINE m        == IF total < 0 THEN -total ELSE total
           sign     == IF total < 0 THEN -1 ELSE 1
           all      == SumOf(weights)
           Floor(i) == (m * weights[i]) \div all
           rest     == [i \in DOMAIN weights |-> (m * weights[i]) % all]
           short    == m - SumOf([i \in DOMAIN weights |-> Floor(i)])
           Extra(i) == IF Cardinality(Ahead(rest, i)) < short THEN 1 ELSE 0
           sizes    == [i \in DOMAIN weights |-> Floor(i) + Extra(i)]
           shares   == Allocate(total, weights)
<1>1. m \in Nat /\ sign \in {-1, 1} /\ total = sign * m
  OBVIOUS
<1>2. all \in Nat \ {0} /\ DOMAIN weights = 1..Len(weights) /\ Len(weights) \in Nat
  BY WeightsSum
<1> HIDE DEF m, sign, all
<1>3. /\ sizes \in Seq(Nat) /\ SumOf(sizes) = m
      /\ \A i \in DOMAIN weights :
             /\ sizes[i] * all - m * weights[i] \in (1 - all)..(all - 1)
             /\ weights[i] = 0 => sizes[i] = 0
  BY <1>1, SharesAddUp DEF all
<1>4. shares = [i \in DOMAIN weights |-> sign * sizes[i]]
  <2>1. ASSUME NEW i \in DOMAIN weights
        PROVE  Ahead(rest, i) = {j \in DOMAIN weights :
                                    \/ (m * weights[j]) % all > (m * weights[i]) % all
                                    \/ (m * weights[j]) % all = (m * weights[i]) % all /\ j < i}
    BY DEF Ahead
  <2>2. \A i \in DOMAIN weights : sizes[i] =
            Floor(i) + IF Cardinality({j \in DOMAIN weights :
                                    \/ (m * weights[j]) % all > (m * weights[i]) % all
                                    \/ (m * weights[j]) % all = (m * weights[i]) % all /\ j < i}) < short
                       THEN 1 ELSE 0
    BY <2>1
  <2> HIDE DEF sizes
  <2> QED  BY <2>2 DEF Allocate, m, sign, all
<1> HIDE DEF sizes, shares
<1>5. sizes \in Seq(Int) /\ DOMAIN sizes = DOMAIN weights
  BY <1>3 DEF sizes
<1>6. Len(sizes) = Len(weights)
  BY <1>2, <1>5
<1>7. \A i \in DOMAIN weights : shares[i] = sign * sizes[i] /\ shares[i] \in Int
  BY <1>1, <1>2, <1>4, <1>5
<1>8. shares \in Seq(Int) /\ Len(shares) = Len(sizes)
  BY <1>2, <1>4, <1>6, <1>7
<1>9. SumOf(shares) = sign * SumOf(sizes)
  <2>1. sign \in Int /\ \A i \in 1..Len(sizes) : shares[i] = sign * sizes[i]
    BY <1>1, <1>2, <1>6, <1>7
  <2> QED  BY <1>5, <1>8, <2>1, SumOfMultiples
<1>10. \A i \in DOMAIN weights :
           /\ shares[i] * all - total * weights[i] \in (1 - all)..(all - 1)
           /\ weights[i] = 0 => shares[i] = 0
  <2> TAKE i \in DOMAIN weights
  <2>1. PICK a \in Nat, w \in Nat, s \in Nat : a = all /\ w = weights[i] /\ s = sizes[i]
    <3>1. weights[i] \in Nat
      BY <1>2
    <3>2. sizes[i] \in Nat
      BY <1>3, <1>5
    <3> QED  BY <1>2, <3>1, <3>2
  <2>2. PICK d \in (1 - a)..(a - 1) : d = s * a - m * w
    BY <1>3, <2>1
  <2>3. CASE sign = 1
    <3>1. shares[i] = s /\ total = m
      BY <1>1, <1>7, <2>1, <2>3
    <3> QED  BY <1>3, <2>1, <2>2, <3>1
  <2>4. CASE sign = -1
    <3>1. shares[i] = -s /\ total = -m
      BY <1>1, <1>7, <2>1, <2>4
    <3>2. (-s) * a - (-m) * w = -d
      <4>1. PICK p \in Int, q \in Int : p = s * a /\ q = m * w
        BY <1>1
      <4>2. (-s) * a = -p /\ (-m) * w = -q
        BY <1>1, <4>1
      <4> QED  BY <2>2, <4>1, <4>2
    <3>3. -d \in (1 - a)..(a - 1)
      BY <2>1, <2>2
    <3>4. weights[i] = 0 => shares[i] = 0
      BY <1>3, <2>1, <3>1
    <3> QED  BY <2>1, <3>1, <3>2, <3>3, <3>4
  <2> QED  BY <1>1, <2>3, <2>4
<1> QED  BY <1>1, <1>3, <1>9, <1>10 DEF shares, all

\* The shares of an amount come to it, to the unit: nothing is lost between the
\* floors and nothing is given twice, for every sequence of weights
\* (money.py:371).
THEOREM SharesAreExact == Spec => []AllocationIsExact
<1>1. Returned => AllocationIsExact
  <2> SUFFICES ASSUME Returned, job.kind = "split", outcome # Pending
               PROVE  AllocationIsExact
    BY DEF AllocationIsExact
  <2>1. job.total \in Int /\ job.weights \in Seq(Nat) /\ SumOf(job.weights) # 0
    BY NormaliserAssumption DEF Returned, IsCall
  <2>2. outcome.shares = Allocate(job.total, job.weights)
    BY DEF Returned
  <2> QED  BY <2>1, <2>2, SplitIsExact DEF AllocationIsExact
<1> QED  BY <1>1, ReturnedOnce, PTL
=============================================================================
