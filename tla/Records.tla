------------------------------ MODULE Records ------------------------------
(***************************************************************************)
(* The canonical transactions of one run (canonical.py) and the lookups of *)
(* TransactionIndex (index.py).  A book is a set of records.  Identifiers, *)
(* references and business dates are numbers: the engine compares them and *)
(* breaks ties by their order, and looks into none of them.                *)
(***************************************************************************)
EXTENDS Integers, FiniteSets, FiniteSetsExt

Absent == 0     \* no reference, no parent

EntityTypes == {"payment", "refund", "settlement_batch", "settlement_line",
                "bank_transaction", "invoice", "ledger_entry"}
FeeBearing  == {"settlement_batch", "settlement_line"}

Record ==
    [id: Nat \ {Absent}, type: EntityTypes, parent: Nat, ref: Nat,
     gross: Nat, fee: Nat, tax: Nat, date: Int, currency: {"INR", "USD"},
     status: {"captured", "failed", "pending", "settled", "posted"},
     direction: {"credit", "debit"},
     method: {"upi", "card", "netbanking", "wallet", "other", "unknown"},
     account: Nat, flags: SUBSET {"utr_missing", "bank_reference_missing", "overpaid"}]

\* net_amount_minor: __post_init__ refuses every other value.
Net(t) == t.gross - t.fee - t.tax

\* What all_transactions can return: one row per identifier, because the
\* primary key is made from it, and fees only where they belong.
IsBook(book) ==
    /\ IsFiniteSet(book)
    /\ book \subseteq Record
    /\ \A t, u \in book : t.id = u.id => t = u
    /\ \A t \in book : t.type \notin FeeBearing => t.fee = 0 /\ t.tax = 0

OfType(book, type) == {t \in book : t.type = type}

Referencing(book, ref) == {t \in book : ref # Absent /\ t.ref = ref}

Ids(records) == {t.id : t \in records}

Magnitude(n) == IF n < 0 THEN -n ELSE n
=============================================================================
