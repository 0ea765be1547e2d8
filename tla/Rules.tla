------------------------------- MODULE Rules -------------------------------
(***************************************************************************)
(* The rule ladder (rules.py, bridge.py), the confidence (scoring.py) and  *)
(* the gate (policy.py), as functions of a book, the identifiers already   *)
(* claimed and one settlement batch.  Scores and the confidence are in     *)
(* ten-thousandths, to which the code rounds them.                         *)
(***************************************************************************)
EXTENDS Records

CONSTANTS
    AutoResolveMax,   \* auto_resolve_max_minor
    Tolerance,        \* amount_tolerance_minor
    WindowDays,       \* settlement_window_days
    MinConfidence,    \* auto_resolve_min_confidence
    CandidateMargin,  \* candidate_margin
    NeverAutoResolve, \* never_auto_resolve
    Truncations       \* <<a, b>>: reference a is b cut short, six characters or more

CaseTypes == {"missing_bank_credit", "amount_mismatch", "fee_tax_discrepancy",
              "date_mismatch", "unmatched_payment", "duplicate", "refund_unlinked",
              "status_conflict"}
Score     == 0..10000

ASSUME RulesAssumption ==
    /\ AutoResolveMax \in Nat /\ Tolerance \in Nat /\ WindowDays \in Nat
    /\ MinConfidence \in Score
    /\ CandidateMargin \in 1..5000     \* score_group divides by twice the margin
    /\ NeverAutoResolve \subseteq CaseTypes
    /\ Truncations \subseteq Nat \X Nat

\* Of the block list: it holds the two types that a broken or missing leg
\* raises, and no type of the ladder of Classify without the one that may hide it.
ASSUME BlockListAssumption ==
    /\ {"missing_bank_credit", "amount_mismatch"} \subseteq NeverAutoResolve
    /\ "date_mismatch" \in NeverAutoResolve => "fee_tax_discrepancy" \in NeverAutoResolve

Lines(book, batch)   == OfType(Referencing(book, batch.id), "settlement_line")
Journal(book, batch) == OfType(Referencing(book, batch.id), "ledger_entry")

\* R1: the payment a line names, if it is on record for the same gross.
PaymentOf(book, line) ==
    {p \in OfType(book, "payment") : p.id = line.parent /\ p.gross = line.gross}

Payments(book, batch) == UNION {PaymentOf(book, line) : line \in Lines(book, batch)}

---------------------------------------------------------------------------
(* R3 and R5: the bridges.                                                 *)

BridgeDifference(book, batch) == Net(batch) - MapThenSumSet(Net, Lines(book, batch))
BridgeBalances(book, batch)   == Magnitude(BridgeDifference(book, batch)) <= Tolerance

Gross(t) == t.gross
Posted(book, batch, direction) ==
    MapThenSumSet(Gross, {e \in Journal(book, batch) : e.direction = direction})

JournalDifference(book, batch) == Posted(book, batch, "debit") - Posted(book, batch, "credit")
JournalBalances(book, batch)   ==
    Journal(book, batch) = {} \/ Magnitude(JournalDifference(book, batch)) <= Tolerance

\* The published schedule, in basis points, and the default.
MethodFeeBps == [upi |-> 150, card |-> 250, netbanking |-> 200, wallet |-> 180, other |-> 200]
GstBpsOnFee  == 1800
FeeTolerance == 2

ExpectedFee(gross, method) == (gross * MethodFeeBps[method]) \div 10000
ExpectedTax(gross, method) == (ExpectedFee(gross, method) * GstBpsOnFee) \div 10000

OnSchedule(line, method) ==
    /\ Magnitude(line.fee - ExpectedFee(line.gross, method)) <= FeeTolerance
    /\ Magnitude(line.tax - ExpectedTax(line.gross, method)) <= FeeTolerance

\* The lines whose payment is known, with its method.
Resolvable(book, batch) ==
    {line \in Lines(book, batch) : \E p \in PaymentOf(book, line) : p.method # "unknown"}

FeesOnSchedule(book, batch) ==
    /\ Resolvable(book, batch) # {}
    /\ \A line \in Resolvable(book, batch) :
          \A p \in PaymentOf(book, line) : OnSchedule(line, p.method)

---------------------------------------------------------------------------
(* R2 and R6: the bank leg.                                                *)

Free(records, claimed) == {t \in records : t.id \notin claimed}

\* R2: the same reference and the same net.  Neither the direction nor the
\* currency of the bank row is looked at.
ExactMatches(book, claimed, batch) ==
    {k \in Free(OfType(Referencing(book, batch.ref), "bank_transaction"), claimed) :
        Net(k) = Net(batch)}

\* R6: the same net in the window.
Candidates(book, claimed, batch) ==
    {k \in Free(OfType(book, "bank_transaction"), claimed) :
        /\ Net(k) = Net(batch)
        /\ k.date - batch.date \in 0..WindowDays
        /\ k.currency = batch.currency
        /\ k.direction = "credit"}

Identifier(batch, k) ==
    CASE batch.ref = Absent \/ k.ref = Absent -> 0
      [] batch.ref = k.ref -> 3500
      [] batch.ref # k.ref /\ {<<batch.ref, k.ref>>, <<k.ref, batch.ref>>} \cap Truncations # {} -> 2450
      [] OTHER -> 0

\* score_candidate.  Settlement exports name no counterparty, so that share of
\* the score is nothing.  The date share is exact when WindowDays divides 1500.
CandidateScore(batch, k) ==
    LET span == IF WindowDays = 0 THEN 1 ELSE WindowDays
    IN  Identifier(batch, k) + 2500
          + (1500 * (span - (k.date - batch.date))) \div span
          + (IF k.status \in {"settled", "posted"} THEN 1500 ELSE 0)

\* The highest score; of equals the lowest identifier.
Best(batch, candidates) ==
    {k \in candidates : \A j \in candidates :
        \/ CandidateScore(batch, k) > CandidateScore(batch, j)
        \/ CandidateScore(batch, k) = CandidateScore(batch, j) /\ k.id <= j.id}

\* With nobody to compare with, every condition on the margin is met.
NoCompetitor == 10000

MarginOf(batch, candidates, k) ==
    IF Cardinality(candidates) < 2 THEN NoCompetitor
    ELSE CandidateScore(batch, k) - Max({CandidateScore(batch, j) : j \in candidates \ {k}})

NoLeg == [rule |-> "R6", bank |-> {}, margin |-> NoCompetitor]

\* The bank legs the ladder may choose: of several exact matches it takes the
\* one the database returned first, and the query has no ORDER BY.
BankLegs(book, claimed, batch) ==
    LET exact      == ExactMatches(book, claimed, batch)
        candidates == Candidates(book, claimed, batch)
    IN  IF exact # {}
        THEN {[rule |-> "R2", bank |-> {k}, margin |-> NoCompetitor] : k \in exact}
        ELSE {l \in {NoLeg} : candidates = {}}
             \cup {[rule |-> "R6", bank |-> {k}, margin |-> MarginOf(batch, candidates, k)] :
                      k \in Best(batch, candidates)}

---------------------------------------------------------------------------
(* What is wrong with a settlement.                                        *)

Unconfirmed(batch, leg) ==
    leg.bank = {} \/ leg.margin <= CandidateMargin \/ batch.ref = Absent

CreditOutsideWindow(batch, leg) ==
    \E k \in leg.bank : k.date - batch.date \notin 0..WindowDays

\* Measured from the latest capture.
SettledLate(book, batch) ==
    /\ Payments(book, batch) # {}
    /\ \A p \in Payments(book, batch) : batch.date - p.date > WindowDays

\* Variant: a fee discrepancy is looked for before an unbalanced journal.
ClassifyFeesFirst(book, batch, leg) ==
    IF Unconfirmed(batch, leg) THEN "missing_bank_credit"
    ELSE IF ~BridgeBalances(book, batch) THEN "amount_mismatch"
    ELSE IF ~FeesOnSchedule(book, batch) THEN "fee_tax_discrepancy"
    ELSE IF ~JournalBalances(book, batch) THEN "amount_mismatch"
    ELSE IF CreditOutsideWindow(batch, leg) \/ SettledLate(book, batch) THEN "date_mismatch"
    ELSE "none"

\* _classify: the worst thing that is wrong.
Classify(book, batch, leg) ==
    IF Unconfirmed(batch, leg) THEN "missing_bank_credit"
    ELSE IF ~BridgeBalances(book, batch) \/ ~JournalBalances(book, batch) THEN "amount_mismatch"
    ELSE IF ~FeesOnSchedule(book, batch) THEN "fee_tax_discrepancy"
    ELSE IF CreditOutsideWindow(batch, leg) \/ SettledLate(book, batch) THEN "date_mismatch"
    ELSE "none"

\* Variant: of a fee off schedule only the fee is at risk, not its tax.
AmountAtRiskOfFee(book, batch, type) ==
    CASE type = "missing_bank_credit" -> Net(batch)
      [] type = "fee_tax_discrepancy" -> batch.fee
      [] OTHER -> 0

\* _amount_at_risk: of two bridges that do not balance, the wider gap.
AmountAtRisk(book, batch, type) ==
    CASE type = "missing_bank_credit" -> Net(batch)
      [] type = "amount_mismatch" ->
            Max({Magnitude(d) : d \in {BridgeDifference(book, batch)} \ (-Tolerance)..Tolerance}
                \cup {Magnitude(d) : d \in {JournalDifference(book, batch)} \ (-Tolerance)..Tolerance})
      [] type = "fee_tax_discrepancy" -> batch.fee + batch.tax
      [] OTHER -> 0

---------------------------------------------------------------------------
(* The confidence and the gate.                                            *)

Strength == [R2 |-> 9800, R4 |-> 9700, R6 |-> 8500]

Flags(links) == UNION {link.txn.flags : link \in links}

DataQuality(links) == Max({0, 10000 - 2500 * Cardinality(Flags(links))})

\* Full at twice the required margin.
Unambiguity(margin) == Min({10000, (10000 * margin) \div (2 * CandidateMargin)})

\* score_group, with consistency and the caps that the bridge decides.
Confidence(rule, links, consistency, margin) ==
    LET raw == (5 * Strength[rule] + 2 * DataQuality(links) + 2 * consistency
                  + Unambiguity(margin)) \div 10
    IN  Min({raw}
            \cup {cap \in {6000} : consistency = 0}
            \cup {cap \in {7000} : margin <= CandidateMargin}
            \cup {cap \in {7500} : Flags(links) # {}}
            \cup {cap \in {8500} : rule = "R6"})

\* evaluate_gate: the conditions that do not hold.
Held(rule, links, confidence, type, margin, atRisk) ==
    {c \in {"confidence"} : confidence < MinConfidence}
    \cup {c \in {"tier"}    : rule = "R6"}
    \cup {c \in {"amount"}  : atRisk > AutoResolveMax}
    \cup {c \in {"type"}    : type \in NeverAutoResolve}
    \cup {c \in {"margin"}  : margin <= CandidateMargin}
    \cup {c \in {"quality"} : Flags(links) # {}}
=============================================================================
