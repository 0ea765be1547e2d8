---------------------------- MODULE MCNormaliser ----------------------------
(* The calls of Normaliser that TLC enumerates.                            *)
EXTENDS Normaliser, TLC

\* One cell for every way an amount is written, right or wrong.
MCFive    == Written("none", FALSE, <<1>>, 5, 0)
MCZero    == Written("none", FALSE, <<1>>, 0, 2)
MCCells == { Unwritten("absent"), Unwritten("blank"), MCFive, MCZero,
             Written("none", TRUE, <<1>>, 525, 2),
             Written("none", FALSE, <<1>>, 5255, 3),
             Written("none", FALSE, <<1>>, 5250, 3),
             Written("minus", FALSE, <<1>>, 5, 0),
             Written("minus", TRUE, <<1>>, 5, 0),
             Written("paren", FALSE, <<1>>, 5, 0),
             Written("paren", TRUE, <<1>>, 5, 0),
             Written("twice", FALSE, <<1>>, 5, 0),
             Written("none", FALSE, <<1, 2>>, 12, 0),
             Written("none", FALSE, <<6>>, 99999999, 2),
             Written("none", FALSE, <<1, 3, 3>>, 100000000, 2),
             Written("none", FALSE, <<1>>, 1000000001, 9) }
MCFewCells == { Unwritten("blank"), MCFive, MCZero,
                Written("none", FALSE, <<1>>, 475, 2), Written("minus", FALSE, <<1>>, 5, 0) }

\* The last two lie on either side of midnight in the business timezone.
MCDates == { When("blank", 0), When("bad", 0), When("date", 1440), When("naive", 100),
             When("offset", 1109), When("offset", 1110) }

MCTexts == {Blank, "a"}
MCRow(dataset, row) == [kind |-> "row", dataset |-> dataset, row |-> row]

MCPayments ==
    { MCRow("payments", row) : row \in
        [id : MCTexts, currency : {Blank, "INR", "XXX"}, kind : {Blank, "payment", "refund", "fee"},
         parent : MCTexts, amount : MCFewCells, date : MCDates,
         status : {"paid", "lost"}, order : {"a"}] }
MCBatches ==
    { MCRow("settlement_batches", row) : row \in
        [id : {"a"}, currency : {"INR"}, gross : MCFewCells, fee : MCFewCells,
         tax : MCFewCells, net : MCFewCells, date : {When("naive", 100)},
         status : {"settled", "lost"}, utr : MCTexts] }
MCLines ==
    { MCRow("settlement_lines", row) : row \in
        [id : {"a"}, currency : {"INR"}, gross : MCFewCells, fee : MCFewCells,
         tax : {MCZero}, net : MCFewCells, batch : MCTexts, parent : MCTexts,
         date : {When("blank", 0), When("offset", 1110)},
         batchDate : {When("date", 1440), When("bad", 0)}] }
MCBank ==
    { MCRow("bank_statement", row) : row \in
        [id : MCTexts, currency : {Blank, "JPY"}, direction : {Blank, "cr", "debit", "up"},
         amount : MCCells, date : MCDates, reference : MCTexts, narration : MCTexts] }
MCInvoices ==
    { MCRow("invoices", row) : row \in
        [id : MCTexts, currency : {Blank, "KWD"}, amount : MCCells, hasPaid : BOOLEAN,
         paid : MCFewCells, date : {When("offset", 1110), When("bad", 0)},
         status : {"void", "lost"}, order : {"a"}] }
MCLedger ==
    { MCRow("ledger", row) : row \in
        [id : {"a"}, currency : {Blank}, debit : MCCells, credit : MCCells,
         date : {When("date", 1440)}, status : {Blank, "draft", "lost"},
         account : MCTexts, reference : {"a"}] }

MCSplits == { [kind |-> "split", total |-> total, weights |-> weights] :
                total \in -7..7, weights \in [1..3 -> 0..4] \ {<<0, 0, 0>>} }

MCWrites == { [kind |-> "write", minor |-> minor, currency |-> currency] :
                minor \in {0, 7, -7, 120, 99999, 99999999}, currency \in {"INR", "USD", "JPY"} }
            \cup { [kind |-> "write", minor |-> -(10^k), currency |-> currency] :
                k \in 0..7, currency \in {"INR", "USD", "JPY", "KWD"} }

MCJobs == UNION {MCPayments, MCBatches, MCLines, MCBank, MCInvoices, MCLedger,
                 MCSplits, MCWrites}
=============================================================================
