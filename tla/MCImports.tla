----------------------------- MODULE MCImports -----------------------------
(* Instances of Imports for TLC.                                           *)
EXTENDS Imports, TLC

CONSTANTS r1, r2, r3, march, april, twice

MCAmount == Written("none", FALSE, <<3>>, 500, 0)
MCPrice  == Written("none", FALSE, <<1>>, 5255, 3)
MCBankRow(id, amount) ==
    [id |-> id, currency |-> Blank, direction |-> "credit", amount |-> amount,
     date |-> When("date", 0), reference |-> "utr", narration |-> Blank]

\* Two statements that overlap in one transaction, one of them with a row that
\* is refused, and a file that names one transaction twice.
MCContent ==
    [f \in Files |->
        LET bank == RequiredColumns["bank_statement"]
        IN  CASE f = march -> [columns |-> bank,
                               rows |-> << MCBankRow("t1", MCAmount), MCBankRow("t2", MCAmount),
                                           MCBankRow("t3", MCPrice) >>]
              [] f = april -> [columns |-> bank,
                               rows |-> << MCBankRow("t2", MCAmount), MCBankRow("t4", MCAmount) >>]
              [] f = twice -> [columns |-> bank,
                               rows |-> << MCBankRow("t1", MCAmount), MCBankRow("t1", MCAmount) >>]]

RequestSymmetry == Permutations(Requests)
=============================================================================
