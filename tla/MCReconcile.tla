---------------------------- MODULE MCReconcile ----------------------------
(***************************************************************************)
(* Populations of a reconciliation run for TLC, with scaled amounts: one   *)
(* upi payment of 1000, its fee 15 and tax 2.  They are records that the   *)
(* normalisers produce: a payout or a bank row without a reference carries *)
(* its flag, bank rows are posted, settlement rows settled.                *)
(***************************************************************************)
EXTENDS Reconcile

Plain == [id |-> 1, type |-> "payment", parent |-> Absent, ref |-> Absent, gross |-> 1000,
          fee |-> 0, tax |-> 0, date |-> 0, currency |-> "INR", status |-> "captured",
          direction |-> "credit", method |-> "upi", account |-> 0, flags |-> {}]

Payment(id, gross, date) == [Plain EXCEPT !.id = id, !.gross = gross, !.date = date]

Payout(id, ref, extra, fee, tax) ==
    [Plain EXCEPT !.id = id, !.type = "settlement_batch", !.ref = ref, !.gross = 1000 + extra,
                  !.fee = fee, !.tax = tax, !.status = "settled", !.method = "unknown",
                  !.flags = IF ref = Absent THEN {"utr_missing"} ELSE {}]

Line(id, batch, payment, fee, tax) ==
    [Plain EXCEPT !.id = id, !.type = "settlement_line", !.parent = payment, !.ref = batch,
                  !.fee = fee, !.tax = tax, !.status = "settled", !.method = "unknown"]

BankRow(id, ref, amount, date, direction) ==
    [Plain EXCEPT !.id = id, !.type = "bank_transaction", !.ref = ref, !.gross = amount,
                  !.date = date, !.direction = direction, !.status = "posted",
                  !.method = "unknown",
                  !.flags = IF ref = Absent THEN {"bank_reference_missing"} ELSE {}]

Entry(id, batch, amount, direction, account) ==
    [Plain EXCEPT !.id = id, !.type = "ledger_entry", !.ref = batch, !.gross = amount,
                  !.direction = direction, !.account = account, !.status = "posted",
                  !.method = "unknown"]

Balanced(batch)   == {Entry(41, batch, 1000, "debit", 1), Entry(42, batch, 1000, "credit", 2)}
Doubled(batch)    == Balanced(batch) \cup {Entry(43, batch, 1000, "debit", 1),
                                           Entry(44, batch, 1000, "credit", 2)}
Unbalanced(batch) == {Entry(41, batch, 1000, "debit", 1), Entry(42, batch, 998, "credit", 2)}
Journals(batch)   == {{}, Balanced(batch), Doubled(batch), Unbalanced(batch)}

\* 103 is 101 cut short.
MCTruncations == {<<103, 101>>}

\* What is wrong with one payout: its reference, its header, its fee, the
\* payment it names and the journal; and the row the bank shows for it, if any.
RowsFor(net) ==
    {{}} \cup {{BankRow(31, ref, net, date, direction)} :
                  ref \in {101, 103, Absent}, date \in {0, 4}, direction \in {"credit", "debit"}}
         \cup {{BankRow(31, 101, net + 5, 0, "credit")}}

OnePayout ==
    UNION {LET payout == Payout(1, ref, extra, fees[1], fees[2])
           IN  {{payout, Line(11, 1, 21, fees[1], fees[2]), Payment(21, gross, captured)}
                   \cup rows \cup journal :
                   gross \in {1000, 990}, captured \in {0, -4},
                   rows \in RowsFor(Net(payout)), journal \in Journals(1)} :
           ref \in {101, Absent}, extra \in {0, 1, 30},
           fees \in {<<15, 2>>, <<18, 3>>, <<25, 4>>}}

\* Two or three payouts of the same net, and up to two rows that may be any
\* one's: dates one day apart are on the margin, two days apart beyond it.
TwoPayouts ==
    {{Payout(1, first, 0, 15, 2), Line(11, 1, 21, 15, 2), Payment(21, 1000, 0),
      Payout(2, second, 0, 15, 2), Line(12, 2, named, 15, 2), Payment(22, 1000, 0)}
         \cup third \cup left \cup right \cup journal :
        first \in {101, Absent}, second \in {101, 102, Absent}, named \in {21, 22},
        third \in {{}, {Payout(3, Absent, 0, 15, 2)}}, journal \in {{}, Doubled(1)},
        left \in {{}} \cup {{BankRow(31, ref, 983, 0, "credit")} : ref \in {101, 103, Absent}},
        right \in {{}} \cup {{BankRow(32, ref, 983, date, "credit")} :
                                ref \in {101, 102, Absent}, date \in 0..2}}

\* Orders: two invoices, two payments, a refund, and a payout that may have
\* claimed the first payment already.
Invoice(id, order, status) ==
    [Plain EXCEPT !.id = id, !.type = "invoice", !.ref = order, !.status = status,
                  !.method = "unknown"]

Orders ==
    {{Invoice(51, 201, status),
      [Payment(21, gross, 0) EXCEPT !.ref = 201, !.status = outcome]}
         \cup other \cup second \cup refund \cup payout :
        status \in {"captured", "pending"}, gross \in {1000, 990},
        outcome \in {"captured", "failed"},
        other \in {{}, {Invoice(52, 201, "captured")}, {Invoice(52, 202, "captured")}},
        second \in {{}, {[Payment(22, 980, 0) EXCEPT !.ref = 201]}},
        refund \in {{}} \cup {{[Plain EXCEPT !.id = 61, !.type = "refund", !.parent = payment]} :
                                 payment \in {21, 99}},
        payout \in {{}, {Payout(1, 101, 0, 15, 2), Line(11, 1, 21, 15, 2),
                         BankRow(31, 101, 983, 0, "credit")}}}

MCBooks == OnePayout \cup TwoPayouts \cup Orders

MCBlockList == {"duplicate", "missing_bank_credit", "amount_mismatch"}
=============================================================================
