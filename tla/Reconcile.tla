----------------------------- MODULE Reconcile -----------------------------
(***************************************************************************)
(* One reconciliation run (engine.py, execute): the settlement batches one *)
(* after the other, then the invoices, the standalone detectors, and the   *)
(* backstop of the queue.  What a batch has claimed, a later one cannot    *)
(* have; the order of the batches is the database's.                       *)
(***************************************************************************)
EXTENDS Rules

CONSTANTS
    Books,      \* the populations a run may be given
    Payouts,    \* identifiers of settlement batches
    Money       \* identifiers of bank rows

ASSUME ReconcileAssumption == \A b \in Books :
    /\ IsBook(b)
    /\ Ids(OfType(b, "settlement_batch")) \subseteq Payouts
    /\ Ids(OfType(b, "bank_transaction")) \subseteq Money

VARIABLES
    book,       \* the transactions handed to execute
    consumed,   \* index._consumed
    groups,     \* result.groups
    cases,      \* result.cases
    stage       \* the stage that comes next

vars == <<book, consumed, groups, cases, stage>>

Link  == [txn: Record, role: {"settlement_batch", "settlement_line", "payment",
                              "bank_credit", "ledger", "invoice"}]
Group == [subject: Nat, rule: {"R2", "R4", "R6"}, links: SUBSET Link, type: CaseTypes \cup {"none"},
          held: SUBSET {"confidence", "tier", "amount", "type", "margin", "quality"},
          status: {"auto_resolved", "pending_review"}]
Case  == [detector: {"mbc", "amt", "led", "fee", "dat", "lag", "unm", "dup", "rfn", "sts", "rev"},
          subject: Nat, type: CaseTypes, amount: Int, group: Nat]

TypeOK ==
    /\ IsBook(book)
    /\ consumed \subseteq Ids(book)
    /\ groups \subseteq Group
    /\ cases \subseteq Case
    /\ stage \in {"settlements", "exceptions", "queue", "done"}

Init ==
    /\ book \in Books
    /\ consumed = {}
    /\ groups = {}
    /\ cases = {}
    /\ stage = "settlements"

---------------------------------------------------------------------------
(* Groups.                                                                 *)

LinksAs(role, records) == {[txn |-> t, role |-> role] : t \in records}

SettlementLinks(b, batch, leg) ==
    LinksAs("settlement_batch", {batch})
      \cup LinksAs("settlement_line", Lines(b, batch))
      \cup LinksAs("payment", Payments(b, batch))
      \cup LinksAs("bank_credit", leg.bank)
      \cup LinksAs("ledger", Journal(b, batch))

Consistency(b, batch) ==
    CASE BridgeDifference(b, batch) = 0 -> 10000
      [] BridgeDifference(b, batch) # 0 /\ BridgeBalances(b, batch) -> 8500
      [] OTHER -> 0

\* Variant: a group that does not clear keeps the status it was made with.
StatusAsMade(held) == IF held = {} THEN "auto_resolved" ELSE "proposed"

\* apply_gate.  Every settlement has passing evidence: its lines keep their
\* own identity, or they would not be on record.  An R4 group has its own.
Status(held) == IF held = {} THEN "auto_resolved" ELSE "pending_review"

SettlementGroup(b, batch, leg) ==
    LET links == SettlementLinks(b, batch, leg)
        type  == Classify(b, batch, leg)
        held  == Held(leg.rule, links,
                      Confidence(leg.rule, links, Consistency(b, batch), leg.margin),
                      type, leg.margin, AmountAtRisk(b, batch, type))
    IN  [subject |-> batch.id, rule |-> leg.rule, links |-> links, type |-> type,
         held |-> held, status |-> Status(held)]

\* R4: the one unclaimed payment of the order, for the same amount and with a
\* status that agrees.
PaymentsFor(b, claimed, invoice) ==
    Free(OfType(Referencing(b, invoice.ref), "payment"), claimed)

Agree(invoice, payment) ==
    /\ payment.gross = invoice.gross
    /\ (payment.status = "captured") = (invoice.status = "captured")

InvoiceGroup(invoice, payment) ==
    LET links == LinksAs("invoice", {invoice}) \cup LinksAs("payment", {payment})
        held  == Held("R4", links, Confidence("R4", links, 10000, NoCompetitor),
                      "none", NoCompetitor, 0)
    IN  [subject |-> invoice.id, rule |-> "R4", links |-> links, type |-> "none",
         held |-> held, status |-> Status(held)]

InvoiceGroups(b, claimed) ==
    UNION {LET payments == PaymentsFor(b, claimed, invoice)
           IN  {InvoiceGroup(invoice, p) :
                   p \in {q \in payments : Cardinality(payments) = 1 /\ Agree(invoice, q)}} :
           invoice \in Free(OfType(b, "invoice"), claimed)}

---------------------------------------------------------------------------
(* Cases.                                                                  *)

CaseFor(detector, txn, type, amount, group) ==
    [detector |-> detector, subject |-> txn.id, type |-> type, amount |-> amount,
     group |-> group]

\* _raise_cases: missing money is the only finding, if it is one.
BatchCases(b, batch, leg) ==
    LET found(detector, type, amount, holds) ==
            {c \in {CaseFor(detector, batch, type, amount, batch.id)} : holds}
    IN  IF Unconfirmed(batch, leg)
        THEN found("mbc", "missing_bank_credit", Net(batch), TRUE)
        ELSE found("amt", "amount_mismatch", Magnitude(BridgeDifference(b, batch)),
                   ~BridgeBalances(b, batch))
             \cup found("led", "amount_mismatch", Magnitude(JournalDifference(b, batch)),
                        ~JournalBalances(b, batch))
             \cup found("fee", "fee_tax_discrepancy", batch.fee + batch.tax,
                        ~FeesOnSchedule(b, batch))
             \cup found("dat", "date_mismatch", 0, CreditOutsideWindow(batch, leg))
             \cup found("lag", "date_mismatch", 0, SettledLate(b, batch))

\* Captured payments that no line names, whatever its gross.
UnmatchedPayments(b) ==
    {CaseFor("unm", p, "unmatched_payment", p.gross, Absent) :
        p \in {q \in OfType(b, "payment") :
                  /\ q.status = "captured"
                  /\ \A line \in OfType(b, "settlement_line") : line.parent # q.id}}

\* Bank rows and journal lines that are equal in all but their identifier.
Twins(b, t) ==
    {u \in OfType(b, t.type) :
        <<Net(u), u.date, u.ref, u.direction, u.account>>
          = <<Net(t), t.date, t.ref, t.direction, t.account>>}

Repeated(b) ==
    {Twins(b, t) : t \in {u \in OfType(b, "bank_transaction") \cup OfType(b, "ledger_entry") :
                            u.gross # 0 /\ u.ref # Absent /\ Cardinality(Twins(b, u)) > 1}}

\* The first of each kind, in the order of the query, gives the case its id.
Firsts(b) ==
    {some \in SUBSET UNION Repeated(b) :
        \A members \in Repeated(b) : Cardinality(some \cap members) = 1}

Duplicates(b, firsts) ==
    {CaseFor("dup", t, "duplicate", Net(t) * (Cardinality(Twins(b, t)) - 1), Absent) :
        t \in firsts}

UnlinkedRefunds(b) ==
    {CaseFor("rfn", r, "refund_unlinked", r.gross, Absent) :
        r \in {s \in OfType(b, "refund") : s.parent \notin Ids(b)}}

\* Variant: any payment of the order may disagree.
StatusConflictsOfAny(b) ==
    UNION {{CaseFor("sts", invoice, "status_conflict", p.gross, Absent) :
               p \in {q \in OfType(Referencing(b, invoice.ref), "payment") :
                         q.status = "captured" /\ invoice.status # "captured"}} :
           invoice \in OfType(b, "invoice")}

\* The gateway says captured and the invoice, of the only payment, does not.
StatusConflicts(b) ==
    UNION {LET payments == OfType(Referencing(b, invoice.ref), "payment")
           IN  {CaseFor("sts", invoice, "status_conflict", p.gross, Absent) :
                   p \in {q \in payments : /\ Cardinality(payments) = 1
                                           /\ q.status = "captured"
                                           /\ invoice.status # "captured"}} :
           invoice \in OfType(b, "invoice")}

\* matched_amount_minor of a link.
LinkAmount(link) ==
    IF link.role \in {"settlement_batch", "settlement_line", "bank_credit"}
    THEN Net(link.txn) ELSE link.txn.gross

Queued(g) == \E c \in cases : c.group = g.subject

---------------------------------------------------------------------------
(* The stages.                                                             *)

Pending == {batch \in OfType(book, "settlement_batch") :
               \A g \in groups : g.subject # batch.id}

\* Variant: only the batch itself is claimed.
ReconcileBatchKeepingBank(batch, leg) ==
    /\ stage = "settlements"
    /\ groups' = groups \cup {SettlementGroup(book, batch, leg)}
    /\ consumed' = consumed \cup {batch.id}
    /\ cases' = cases \cup BatchCases(book, batch, leg)
    /\ UNCHANGED <<book, stage>>

\* The body of the loop in _reconcile_settlements.
ReconcileBatch(batch, leg) ==
    /\ stage = "settlements"
    /\ groups' = groups \cup {SettlementGroup(book, batch, leg)}
    /\ consumed' = consumed \cup Ids({link.txn : link \in SettlementLinks(book, batch, leg)})
    /\ cases' = cases \cup BatchCases(book, batch, leg)
    /\ UNCHANGED <<book, stage>>

\* match_r4_invoice_to_payment answers with the whole list before the loop
\* claims the first invoice.
MatchInvoices ==
    /\ stage = "settlements"
    /\ Pending = {}
    /\ groups' = groups \cup InvoiceGroups(book, consumed)
    /\ consumed' = consumed \cup {g.subject : g \in InvoiceGroups(book, consumed)}
    /\ stage' = "exceptions"
    /\ UNCHANGED <<book, cases>>

DetectStandalone ==
    /\ stage = "exceptions"
    /\ \E firsts \in Firsts(book) :
          cases' = cases \cup UnmatchedPayments(book) \cup Duplicates(book, firsts)
                         \cup UnlinkedRefunds(book) \cup StatusConflicts(book)
    /\ stage' = "queue"
    /\ UNCHANGED <<book, consumed, groups>>

\* Variant: the detectors are trusted to have found every reason.
QueueNothing ==
    /\ stage = "queue"
    /\ stage' = "done"
    /\ UNCHANGED <<book, consumed, groups, cases>>

\* _ensure_every_review_is_queued.
QueueReviews ==
    /\ stage = "queue"
    /\ cases' = cases \cup
          {[detector |-> "rev", subject |-> g.subject, type |-> "status_conflict",
            amount |-> Max({LinkAmount(link) : link \in g.links}), group |-> g.subject] :
           g \in {h \in groups : h.status = "pending_review" /\ ~Queued(h)}}
    /\ stage' = "done"
    /\ UNCHANGED <<book, consumed, groups>>

Next ==
    \/ \E batch \in Pending : \E leg \in BankLegs(book, consumed, batch) :
          ReconcileBatch(batch, leg)
    \/ MatchInvoices
    \/ DetectStandalone
    \/ QueueReviews

Spec == Init /\ [][Next]_vars

---------------------------------------------------------------------------
(* What a run promises.                                                    *)

Cleared == {g \in groups : g.status = "auto_resolved"}
Settled == {g \in groups : g.rule # "R4"}

Credits(g) == {link.txn : link \in {l \in g.links : l.role = "bank_credit"}}

\* Cleared money is money that arrived: a settlement that clears without a
\* person has one credit with its reference and its net, its lines and its
\* journal add up within the tolerance, and no record of it is flagged.  The
\* type that blocks is the first of _classify's ladder, so nothing further
\* down may hide what is further up.
ClearedGroupsAreSound ==
    \A g \in Cleared \cap Settled : \E batch \in book, k \in book :
        /\ g.subject = batch.id
        /\ Credits(g) = {k}
        /\ batch.ref # Absent
        /\ k.ref = batch.ref
        /\ Net(k) = Net(batch)
        /\ BridgeBalances(book, batch)
        /\ JournalBalances(book, batch)
        /\ \A link \in g.links : link.txn.flags = {}

\* No cleared group has a case that should have held it: the gate asks
\* _classify for one type and one amount, and the cases of the same group come
\* from the detectors, which look again on their own.
ClearedGroupsCarryNoBlockedCase ==
    \A g \in Cleared, c \in cases : c.group = g.subject =>
        /\ c.type \notin NeverAutoResolve
        /\ c.amount <= AutoResolveMax

\* A finished run leaves no review that nobody can find, and the backstop of
\* _ensure_every_review_is_queued adds nothing to a group some detector named.
EveryReviewIsQueued ==
    stage = "done" =>
        /\ \A g \in groups \ Cleared : Queued(g)
        /\ \A c, d \in cases : c.detector = "rev" /\ d.group = c.group => d = c

\* Case ids are made of the detector and the record it names, and they are the
\* primary keys of the run's commit: two cases with one id fail the run.
CaseIdsAreUnique ==
    \A c, d \in cases : c.detector = d.detector /\ c.subject = d.subject => c = d

\* The run as the attribution of credits to payouts.
Attributed ==
    UNION {{<<k.id, g.subject>> : k \in Credits(g)} : g \in groups}

Board == INSTANCE Attribution WITH
    owner   <- Attributed,
    cleared <- {g.subject : g \in Cleared \cap Settled}

\* A credit belongs to one payout for the whole run, a payout has at most one
\* credit, and only a payout that has just got its credit is cleared.
ImplementsAttribution == Board!Spec

---------------------------------------------------------------------------
(* Why it holds: the invariant that the steps preserve.                    *)

\* The groups and the cases of a settlement are what one pass through the
\* loop made of one batch and one leg.
IsSettlement(g) ==
    \E batch \in OfType(book, "settlement_batch"), claimed \in SUBSET Ids(book) :
        \E leg \in BankLegs(book, claimed, batch) : g = SettlementGroup(book, batch, leg)

RaisedWith(c, g) ==
    \E batch \in OfType(book, "settlement_batch"), claimed \in SUBSET Ids(book) :
        \E leg \in BankLegs(book, claimed, batch) :
            /\ g = SettlementGroup(book, batch, leg)
            /\ c \in BatchCases(book, batch, leg)

IsInvoiceMatch(g) ==
    \E claimed \in SUBSET Ids(book) : g \in InvoiceGroups(book, claimed)

GroupsAreMade ==
    \A g \in groups : IsSettlement(g) \/ (stage # "settlements" /\ IsInvoiceMatch(g))

OneGroupPerSubject == \A g, h \in groups : g.subject = h.subject => g = h

CasesAreRaised ==
    /\ \A c \in cases : c.group # Absent => \E g \in groups : g.subject = c.group
    /\ \A c \in cases, g \in groups : c.group = g.subject =>
          RaisedWith(c, g) \/ g.status = "pending_review"
    /\ stage # "done" => \A c \in cases : c.detector # "rev"

CreditsAreClaimed == \A g \in groups : \A k \in Credits(g) : k.id \in consumed

\* The inductive invariant.
IInv ==
    /\ book \in Books
    /\ consumed \subseteq Ids(book)
    /\ GroupsAreMade
    /\ OneGroupPerSubject
    /\ CasesAreRaised
    /\ CreditsAreClaimed
    /\ EveryReviewIsQueued

\* Who names a case decides which record its id is made of: the loop names a
\* group's subject, and each stage adds detectors of its own.
OfTheLoop == {"mbc", "amt", "led", "fee", "dat", "lag"}

CasesAreNamed ==
    /\ \A c \in cases : c.detector \in OfTheLoop => \E g \in groups : g.subject = c.subject
    /\ stage \in {"settlements", "exceptions"} => \A c \in cases : c.detector \in OfTheLoop
    /\ stage = "queue" => \A c \in cases : c.detector # "rev"

---------------------------------------------------------------------------
(* What the documents say and the code does not do.                        *)

\* docs/01-PRD.md, 9: a settlement outside the window is never auto-resolved,
\* however well the rest of it reconciles.
LateSettlementsAreHeld ==
    \A g \in Cleared, c \in cases : c.group = g.subject => c.type # "date_mismatch"

\* docs/01-PRD.md, 9: a journal posted twice is a duplicate and is never
\* auto-resolved.
DoublePostingsAreHeld ==
    \A g \in Cleared, c \in cases : \A link \in g.links :
        ~(c.type = "duplicate" /\ link.role = "ledger" /\ link.txn.id = c.subject)

\* docs/03-architecture.md: a transaction belongs to at most one group of a run.
GroupsShareNothing ==
    \A g, h \in groups : \A l \in g.links, m \in h.links :
        l.txn = m.txn => g = h

\* rules.py, R2: the bank leg of a settlement is a credit.
BankLegsAreCredits ==
    \A g \in groups : \A k \in Credits(g) : k.direction = "credit"
=============================================================================
