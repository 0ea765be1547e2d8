----------------------------- MODULE Normaliser -----------------------------
(***************************************************************************)
(* One call of the pure functions of the domain package: a row goes        *)
(* through the normaliser of the dataset it was declared as, an amount is  *)
(* split over weights, an amount is written for a reader.                  *)
(***************************************************************************)
EXTENDS Rows

CONSTANT
    Jobs         \* the calls: a row, an amount to split, an amount to write

\* The cells of a row, and the columns that its normaliser reads (require,
\* optional and money of each normalise).
Cell     == [form : {"text", "blank", "absent"}, sign : Signs, lead : BOOLEAN,
             groups : Seq(Nat), coef : Nat, places : Nat]
DateCell == [form : DateForms, at : Int]

Columns ==
    [payments           |-> [id : STRING, currency : STRING, kind : STRING, parent : STRING,
                             amount : Cell, date : DateCell, status : STRING, order : STRING],
     settlement_batches |-> [id : STRING, currency : STRING, gross : Cell, fee : Cell,
                             tax : Cell, net : Cell, date : DateCell, status : STRING,
                             utr : STRING],
     settlement_lines   |-> [id : STRING, currency : STRING, gross : Cell, fee : Cell,
                             tax : Cell, net : Cell, batch : STRING, parent : STRING,
                             date : DateCell, batchDate : DateCell],
     bank_statement     |-> [id : STRING, currency : STRING, direction : STRING, amount : Cell,
                             date : DateCell, reference : STRING, narration : STRING],
     invoices           |-> [id : STRING, currency : STRING, amount : Cell, hasPaid : BOOLEAN,
                             paid : Cell, date : DateCell, status : STRING, order : STRING],
     ledger             |-> [id : STRING, currency : STRING, debit : Cell, credit : Cell,
                             date : DateCell, status : STRING, account : STRING,
                             reference : STRING]]

\* Weights that are negative or all zero are refused before any is split, and an
\* amount that is written is one that is stored.
IsCall(j) ==
    \/ j.kind = "row" /\ j.dataset \in Datasets /\ j.row \in Columns[j.dataset]
    \/ j.kind = "split" /\ j.total \in Int /\ j.weights \in Seq(Nat) /\ SumOf(j.weights) # 0
    \/ /\ j.kind = "write" /\ j.currency \in DOMAIN CurrencyExponent
       /\ j.minor \in (-MinorMax - 1)..MinorMax

\* A Decimal keeps every digit of an amount that the column can store.
ASSUME NormaliserAssumption ==
    /\ \A j \in Jobs : IsCall(j)
    /\ MinorMax + 1 < Ten[ContextDigits]

VARIABLES
    job,         \* the call
    outcome      \* what it returned

vars == <<job, outcome>>

Pending == [code |-> "pending"]

Init == job \in Jobs /\ outcome = Pending

NormaliseRow ==
    /\ job.kind = "row"
    /\ outcome' = Normalise(job.dataset, job.row)

SplitAmount ==
    /\ job.kind = "split"
    /\ outcome' = [code |-> "ok", shares |-> Allocate(job.total, job.weights)]

WriteAmount ==
    /\ job.kind = "write"
    /\ outcome' = [code |-> "ok", cell |-> FormatMinor(job.minor, job.currency)]

Next ==
    /\ outcome = Pending
    /\ NormaliseRow \/ SplitAmount \/ WriteAmount
    /\ UNCHANGED job

Spec == Init /\ [][Next]_vars

----------------------------------------------------------------------------
(* What the functions owe their callers, written without their steps. *)

Accepted == job.kind = "row" /\ outcome.code = "ok"
Refused  == job.kind = "row" /\ outcome.code \notin {"ok", "pending"}

RowCurrency == IF job.row.currency = Blank /\ job.dataset # "payments"
               THEN "INR" ELSE job.row.currency

\* An amount in minor units is its digits times Up over Down.
Places       == CurrencyExponent[RowCurrency]
Up(cell)     == IF cell.places <= Places THEN Ten[Places - cell.places] ELSE 1
Down(cell)   == IF cell.places <= Places THEN 1 ELSE Ten[cell.places - Places]

SplitDatasets == {"settlement_batches", "settlement_lines"}

\* The cells an accepted row's money comes from.
MoneyCells ==
    CASE job.dataset \in SplitDatasets ->
             {job.row.gross, job.row.fee, job.row.tax, job.row.net}
      [] job.dataset = "ledger"   -> {job.row.debit, job.row.credit}
      [] job.dataset = "invoices" ->
             {job.row.amount} \cup (IF job.row.hasPaid THEN {job.row.paid} ELSE {})
      [] OTHER -> {job.row.amount}

AmountIn(cell) == (cell.coef * Up(cell)) \div Down(cell)

\* The cell says one unsigned amount, in whole minor units that can be stored.
SaysAnAmount(cell) ==
    /\ cell.form = "text" /\ cell.sign = "none" /\ WellGrouped(cell.groups)
    /\ cell.coef < Ten[ContextDigits]
    /\ (cell.coef * Up(cell)) % Down(cell) = 0
    /\ AmountIn(cell) <= MinorMax

Sound ==
    LET row == job.row
        Named(texts) == Blank \notin texts
        Dated(date)  == date.form \in {"offset", "naive", "date"}
        Splits == AmountIn(row.net) = AmountIn(row.gross) - AmountIn(row.fee) - AmountIn(row.tax)
    IN  /\ RowCurrency \in DOMAIN CurrencyExponent
        /\ \A cell \in MoneyCells : SaysAnAmount(cell)
        /\ row.id # Blank
        /\ CASE job.dataset = "payments" ->
                    /\ Dated(row.date) /\ row.kind \in {Blank, "payment", "refund"}
                    /\ row.status \in DOMAIN PaymentStatus
                    /\ row.kind = "refund" => Named({row.parent})
             [] job.dataset = "settlement_batches" ->
                    Dated(row.date) /\ row.status \in DOMAIN SettlementStatus /\ Splits
             [] job.dataset = "settlement_lines" ->
                    /\ Named({row.batch, row.parent}) /\ Splits
                    /\ Dated(IF row.date.form = "blank" THEN row.batchDate ELSE row.date)
             [] job.dataset = "bank_statement" ->
                    Dated(row.date) /\ row.direction \in DOMAIN Direction
             [] job.dataset = "invoices" ->
                    Dated(row.date) /\ row.status \in DOMAIN InvoiceStatus
             [] job.dataset = "ledger" ->
                    /\ Dated(row.date) /\ Named({row.account})
                    /\ row.status \in DOMAIN LedgerStatus \cup {Blank}
                    /\ AmountIn(row.debit) = 0 \/ AmountIn(row.credit) = 0

\* A row is accepted exactly when everything the engine will read of it is
\* stated and stated once; beyond the digits a Decimal keeps nothing is said
\* (normalizers/*.py, money.py:113).
AcceptedExactlyWhenSound ==
    /\ Accepted => Sound \/ \E cell \in MoneyCells : cell.coef >= Ten[ContextDigits]
    /\ Refused  => ~Sound

\* The cell states n minor units and no sign: n is the amount itself, or the
\* whole number nearest to it where a Decimal does not keep all the digits.
Gap(cell, n)  == n * Down(cell) - cell.coef * Up(cell)
States(cell, n) ==
    /\ cell.form = "text" /\ cell.sign = "none"
    /\ cell.coef < Ten[ContextDigits] => Gap(cell, n) = 0
    /\ 2 * Gap(cell, n) \in (-Down(cell))..Down(cell)

\* Each amount of an accepted row is what the cell of its own column states,
\* and the four agree: no column is taken for another, no sign dropped, no
\* fraction cut; the side of a ledger line that is not the amount is zero
\* (money.py:9-19, settlements.py:61, ledger.py:58).
NothingIsCoerced ==
    Accepted =>
        LET row == job.row
            txn == outcome.txn
            Side(direction) == IF txn.direction = direction THEN txn.gross ELSE 0
        IN  /\ txn.net = txn.gross - txn.fee - txn.tax
            /\ CASE job.dataset \in SplitDatasets ->
                        /\ States(row.gross, txn.gross) /\ States(row.fee, txn.fee)
                        /\ States(row.tax, txn.tax)     /\ States(row.net, txn.net)
                 [] job.dataset = "ledger" ->
                        /\ States(row.debit, Side("debit"))
                        /\ States(row.credit, Side("credit"))
                        /\ txn.fee = 0 /\ txn.tax = 0
                 [] OTHER ->
                        States(row.amount, txn.gross) /\ txn.fee = 0 /\ txn.tax = 0

\* An amount "with more precision than the currency has" is refused, never
\* rounded (money.py:11-13): every cell read is a whole number of minor units.
NothingIsRounded ==
    Accepted => \A cell \in MoneyCells : (cell.coef * Up(cell)) % Down(cell) = 0

\* The business date is the day in the business timezone whether or not the
\* source gave an offset, and an assumed zone is recorded (base.py:118).
BusinessDateIsLocal ==
    Accepted =>
        /\ outcome.txn.day = (outcome.txn.event + Zone) \div Day
        /\ job.row.date.form \in {"naive", "date"} => outcome.txn.assumed

\* Shares add up to the total, each is within one unit of its exact part, and
\* a weight of zero gets nothing (money.py:371).
AllocationIsExact ==
    job.kind = "split" /\ outcome # Pending =>
        LET all == SumOf(job.weights)
        IN  /\ SumOf(outcome.shares) = job.total
            /\ \A i \in DOMAIN job.weights :
                   /\ outcome.shares[i] * all - job.total * job.weights[i] \in (1 - all)..(all - 1)
                   /\ job.weights[i] = 0 => outcome.shares[i] = 0

\* An amount written for a reader is read back as itself, group by group
\* (money.py:317, money.py:113).
WrittenAmountsReadBack ==
    job.kind = "write" /\ outcome # Pending =>
        ParseMoney(outcome.cell, job.currency, TRUE) = Read(job.minor)

\* A ledger line whose other side is blank is bookkeeping as usual; one with
\* both sides blank "is kept and flagged rather than dropped" (ledger.py:65).
BlankLedgerSidesAreKept ==
    Refused /\ job.dataset = "ledger" =>
        ~ /\ {job.row.debit.form, job.row.credit.form} = {"blank"}
          /\ outcome.code = "AMOUNT_EMPTY"
=============================================================================
