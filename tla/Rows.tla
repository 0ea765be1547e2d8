-------------------------------- MODULE Rows --------------------------------
(***************************************************************************)
(* The six normalisers (ledgergraph_domain/normalizers): what one row of a *)
(* source file becomes, or why it is refused.  A normaliser is the list of *)
(* its checks in the order the code makes them, the first that fails names *)
(* the refusal, and of the record built when none fails.  A cell is a text,*)
(* blank or not, a money cell of Money, or a date cell.                    *)
(***************************************************************************)
EXTENDS Money

CONSTANTS
    Zone,        \* minutes the business timezone is ahead of UTC
    Day          \* minutes in a day

ASSUME RowsAssumption == Zone \in Nat /\ Day \in Nat \ {0}

Blank == ""

\* A date cell: the minute it names, of UTC when it carries an offset and of
\* the business timezone when it does not.
DateForms == {"blank", "bad", "offset", "naive", "date"}
When(form, at) == [form |-> form, at |-> at]

NoTxn == [id |-> Blank]

----------------------------------------------------------------------------
(* base.py *)

Require(text) == IF text = Blank THEN "MISSING_FIELD" ELSE "ok"

\* money: signs are for the direction, never for the amount.
MoneyOf(cell, currency) ==
    IF cell.form = "absent" THEN Refuse("MISSING_COLUMN")
                            ELSE ParseMoney(cell, currency, FALSE)

\* Everywhere but in payments a row without a currency is in rupees.
CurrencyOf(row) == IF row.currency = Blank THEN "INR" ELSE row.currency

\* parse_instant: its code, the UTC minute, the local day and the assumption.
DateCode(date) == CASE date.form = "blank" -> "MISSING_FIELD"
                    [] date.form = "bad"   -> "INVALID_DATE"
                    [] OTHER               -> "ok"
\* Variant: the day is read off the UTC instant.
InstantByUtcDay(date) ==
    LET assumed == date.form # "offset"
        event   == IF assumed THEN date.at - Zone ELSE date.at
    IN  [event |-> event, day |-> event \div Day, assumed |-> assumed]

Instant(date) ==
    LET assumed == date.form # "offset"
    IN  [event   |-> IF assumed THEN date.at - Zone ELSE date.at,
         day     |-> (IF assumed THEN date.at ELSE date.at + Zone) \div Day,
         assumed |-> assumed]

MapStatus(raw, table) == CASE raw = Blank           -> "MISSING_FIELD"
                           [] raw \notin DOMAIN table -> "UNKNOWN_STATUS"
                           [] OTHER                 -> "ok"

\* Variant: the tax is taken to be part of the fee.
IdentityWithoutTax(gross, fee, tax, net) ==
    IF net = gross - fee THEN "ok" ELSE "AMOUNT_IDENTITY_VIOLATION"

\* CanonicalTransaction.__post_init__: the identity of the four amounts.
IdentityCode(gross, fee, tax, net) ==
    IF net = gross - fee - tax THEN "ok" ELSE "AMOUNT_IDENTITY_VIOLATION"

\* extract_reference: the first pattern that the narration holds.
Reference(stated, narration) ==
    IF stated # Blank THEN stated ELSE narration

\* The outcome of a normaliser: its first failing check, or its record.
Normalised(checks, txn) ==
    LET failing == {i \in DOMAIN checks : checks[i] # "ok"}
        first   == CHOOSE i \in failing : \A j \in failing : i <= j
    IN  IF failing = {} THEN [code |-> "ok", txn |-> txn]
                        ELSE [code |-> checks[first], txn |-> NoTxn]

\* build
Txn(row, entity, amounts, direction, status, parent, reference, flags, date) ==
    [id |-> row.id, entity |-> entity, gross |-> amounts[1], fee |-> amounts[2],
     tax |-> amounts[3], net |-> amounts[4], direction |-> direction,
     status |-> status, parent |-> parent, reference |-> reference,
     flags |-> flags, event |-> Instant(date).event, day |-> Instant(date).day,
     assumed |-> Instant(date).assumed]

FlagIf(condition, flag) == IF condition THEN {flag} ELSE {}

----------------------------------------------------------------------------
(* payments.py *)

PaymentStatus ==
    [created |-> "created", authorized |-> "authorized", authorised |-> "authorized",
     captured |-> "captured", success |-> "captured", succeeded |-> "captured",
     paid |-> "captured", failed |-> "failed", refunded |-> "refunded",
     partially_refunded |-> "partially_refunded", cancelled |-> "cancelled",
     canceled |-> "cancelled", disputed |-> "disputed", pending |-> "pending"]

\* A row without a record type is a payment; blank is the empty or absent cell,
\* and one of spaces alone is a text like any other, which names no type.
RecordType(row) == IF row.kind = Blank THEN "payment" ELSE row.kind

\* A refund names the payment it returns.
ParentCode(row) == IF RecordType(row) = "refund" THEN Require(row.parent) ELSE "ok"

Payment(row) ==
    LET refund == RecordType(row) = "refund"
        gross  == MoneyOf(row.amount, row.currency)
    IN  Normalised(
            << Require(row.id), Require(row.currency),
               IF RecordType(row) \in {"payment", "refund"} THEN "ok" ELSE "UNKNOWN_RECORD_TYPE",
               ParentCode(row), gross.code, DateCode(row.date), MapStatus(row.status, PaymentStatus) >>,
            Txn(row, IF refund THEN "refund" ELSE "payment",
                <<gross.minor, 0, 0, gross.minor>>,
                IF refund THEN "debit" ELSE "credit",
                PaymentStatus[row.status], row.parent, row.order,
                FlagIf(gross.minor = 0, "zero_amount"), row.date))

----------------------------------------------------------------------------
(* settlements.py *)

SettlementStatus ==
    [settled |-> "settled", processed |-> "settled", paid |-> "settled",
     pending |-> "pending", created |-> "created", failed |-> "failed",
     reversed |-> "reversed"]

\* Variant: the fee is read from the column of the tax, and the tax from the fee's.
SplitOfSwapped(row) ==
    << MoneyOf(row.gross, CurrencyOf(row)), MoneyOf(row.tax, CurrencyOf(row)),
       MoneyOf(row.fee, CurrencyOf(row)), MoneyOf(row.net, CurrencyOf(row)) >>

SplitOf(row) == << MoneyOf(row.gross, CurrencyOf(row)), MoneyOf(row.fee, CurrencyOf(row)),
                   MoneyOf(row.tax, CurrencyOf(row)), MoneyOf(row.net, CurrencyOf(row)) >>
CodesOf(split)   == [i \in DOMAIN split |-> split[i].code]
AmountsOf(split) == [i \in DOMAIN split |-> split[i].minor]
SplitCode(split) == IdentityCode(split[1].minor, split[2].minor,
                                 split[3].minor, split[4].minor)

SettlementBatch(row) ==
    LET split == SplitOf(row)
    IN  Normalised(
            CodesOf(split) \o << DateCode(row.date), Require(row.id),
                                 MapStatus(row.status, SettlementStatus), SplitCode(split) >>,
            Txn(row, "settlement_batch", AmountsOf(split), "credit",
                SettlementStatus[row.status], Blank, row.utr,
                FlagIf(row.utr = Blank, "settlement_utr_missing"), row.date))

\* A line without a date of its own takes the one its batch id ends in.
SettlementLine(row) ==
    LET split == SplitOf(row)
        date  == IF row.date.form = "blank" THEN row.batchDate ELSE row.date
    IN  Normalised(
            CodesOf(split) \o << Require(row.batch), DateCode(date), Require(row.id),
                                 Require(row.parent), SplitCode(split) >>,
            Txn(row, "settlement_line", AmountsOf(split), "credit",
                "settled", row.parent, row.batch, {}, date))

----------------------------------------------------------------------------
(* bank.py *)

Direction == [credit |-> "credit", cr |-> "credit", c |-> "credit", deposit |-> "credit",
              debit |-> "debit", dr |-> "debit", d |-> "debit", withdrawal |-> "debit"]

\* The amount starts with a sign although the row has a direction.
SignCode(cell) == IF cell.form = "text" /\ cell.sign # "none" /\ ~cell.lead
                  THEN "AMBIGUOUS_SIGN" ELSE "ok"

BankTransaction(row) ==
    LET amount    == MoneyOf(row.amount, CurrencyOf(row))
        reference == Reference(row.reference, row.narration)
    IN  Normalised(
            << Require(row.direction),
               IF row.direction \in DOMAIN Direction THEN "ok" ELSE "UNKNOWN_DIRECTION",
               SignCode(row.amount), amount.code, DateCode(row.date), Require(row.id) >>,
            Txn(row, "bank_transaction", <<amount.minor, 0, 0, amount.minor>>,
                Direction[row.direction], "posted", Blank, reference,
                FlagIf(reference = Blank, "bank_reference_missing")
                \cup FlagIf(reference # Blank /\ row.reference = Blank,
                            "reference_extracted_from_narration"),
                row.date))

----------------------------------------------------------------------------
(* invoices.py *)

InvoiceStatus ==
    [paid |-> "captured", unpaid |-> "pending", partially_paid |-> "partially_refunded",
     pending |-> "pending", issued |-> "created", draft |-> "created",
     cancelled |-> "cancelled", canceled |-> "cancelled", void |-> "cancelled"]

\* A file without the column amount_paid has paid nothing.
Invoice(row) ==
    LET due  == MoneyOf(row.amount, CurrencyOf(row))
        paid == IF row.hasPaid THEN MoneyOf(row.paid, CurrencyOf(row)) ELSE Read(0)
    IN  Normalised(
            << due.code, paid.code, DateCode(row.date), Require(row.id),
               MapStatus(row.status, InvoiceStatus) >>,
            Txn(row, "invoice", <<due.minor, 0, 0, due.minor>>, "credit",
                InvoiceStatus[row.status], Blank, row.order,
                FlagIf(paid.minor > due.minor, "overpaid")
                \cup FlagIf(due.minor = 0, "zero_amount"),
                row.date))

----------------------------------------------------------------------------
(* ledger.py *)

LedgerStatus ==
    [posted |-> "posted", draft |-> "created", pending |-> "pending",
     reversed |-> "reversed", cancelled |-> "cancelled", canceled |-> "cancelled"]

LedgerEntry(row) ==
    LET debit  == MoneyOf(row.debit, CurrencyOf(row))
        credit == MoneyOf(row.credit, CurrencyOf(row))
        amount == IF debit.minor # 0 THEN debit.minor ELSE credit.minor
        status == IF row.status = Blank THEN "posted" ELSE row.status
    IN  Normalised(
            << debit.code, credit.code,
               IF debit.minor # 0 /\ credit.minor # 0 THEN "AMBIGUOUS_SIGN" ELSE "ok",
               DateCode(row.date), Require(row.id),
               MapStatus(status, LedgerStatus), Require(row.account) >>,
            Txn(row, "ledger_entry", <<amount, 0, 0, amount>>,
                IF debit.minor # 0 THEN "debit" ELSE "credit",
                LedgerStatus[status], Blank, row.reference,
                FlagIf(amount = 0, "zero_amount"), row.date))

----------------------------------------------------------------------------
(* __init__.py: the registry; the dataset is declared, never guessed. *)

Datasets == {"payments", "settlement_batches", "settlement_lines",
             "bank_statement", "invoices", "ledger"}

Normalise(dataset, row) ==
    CASE dataset = "payments"           -> Payment(row)
      [] dataset = "settlement_batches" -> SettlementBatch(row)
      [] dataset = "settlement_lines"   -> SettlementLine(row)
      [] dataset = "bank_statement"     -> BankTransaction(row)
      [] dataset = "invoices"           -> Invoice(row)
      [] dataset = "ledger"             -> LedgerEntry(row)
=============================================================================
