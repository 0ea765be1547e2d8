-------------------------- MODULE Reconcile_proofs --------------------------
(***************************************************************************)
(* What is proved of a reconciliation run, for every population and every  *)
(* policy whose block list is as BlockListAssumption says.  Of the sums no *)
(* more is used than that they are whole numbers: the bridges are the      *)
(* conditions they are.                                                    *)
(***************************************************************************)
EXTENDS Reconcile, Numbers_proofs

---------------------------------------------------------------------------
(* Records.                                                                *)

\* Records of a book are told apart by their identifiers, which are not Absent.
LEMMA BookFacts ==
    ASSUME NEW b \in Books
    PROVE  /\ IsFiniteSet(b)
           /\ \A t, u \in b : t.id = u.id => t = u
           /\ \A t \in b : t.id # Absent /\ t.fee \in Nat /\ t.tax \in Nat
           /\ Ids(OfType(b, "settlement_batch")) \subseteq Payouts
           /\ Ids(OfType(b, "bank_transaction")) \subseteq Money
BY ReconcileAssumption DEF IsBook, Record

\* The lookups of the index return records of the book.
LEMMA LookupFacts ==
    ASSUME NEW b, NEW ref, NEW type, NEW claimed
    PROVE  /\ OfType(b, type) \subseteq b
           /\ Referencing(b, ref) \subseteq b
           /\ Free(b, claimed) \subseteq b
           /\ \A t \in b : t.id \in Ids(b)
BY DEF OfType, Referencing, Free, Ids

---------------------------------------------------------------------------
(* The bank leg.                                                           *)

\* A leg has at most one row, which nobody has claimed; R2 has matched its
\* reference and its net, and no bank row is free for the rule of no row.
LEMMA LegShape ==
    ASSUME NEW b, NEW claimed, NEW batch, NEW leg \in BankLegs(b, claimed, batch)
    PROVE  \/ leg.bank = {} /\ leg.rule = "R6"
           \/ \E k \in OfType(b, "bank_transaction") :
                 /\ leg.bank = {k}
                 /\ k.id \notin claimed
                 /\ \/ leg.rule = "R6"
                    \/ /\ leg.rule = "R2"
                       /\ leg.margin = NoCompetitor
                       /\ batch.ref # Absent
                       /\ k.ref = batch.ref
                       /\ Net(k) = Net(batch)
<1>1. CASE ExactMatches(b, claimed, batch) # {}
  <2>1. PICK k \in ExactMatches(b, claimed, batch) :
           leg = [rule |-> "R2", bank |-> {k}, margin |-> NoCompetitor]
    BY <1>1 DEF BankLegs
  <2>2. k \in OfType(b, "bank_transaction") /\ k.id \notin claimed
        /\ batch.ref # Absent /\ k.ref = batch.ref /\ Net(k) = Net(batch)
    BY <2>1 DEF ExactMatches, Free, OfType, Referencing
  <2>3. QED BY <2>1, <2>2
<1>2. CASE ExactMatches(b, claimed, batch) = {}
  <2>1. \/ leg = NoLeg
        \/ \E k \in Best(batch, Candidates(b, claimed, batch)) :
              leg = [rule |-> "R6", bank |-> {k},
                     margin |-> MarginOf(batch, Candidates(b, claimed, batch), k)]
    BY <1>2 DEF BankLegs
  <2>2. CASE leg = NoLeg
    BY <2>2 DEF NoLeg
  <2>3. CASE leg # NoLeg
    <3>1. PICK k \in Best(batch, Candidates(b, claimed, batch)) :
             leg = [rule |-> "R6", bank |-> {k},
                    margin |-> MarginOf(batch, Candidates(b, claimed, batch), k)]
      BY <2>1, <2>3
    <3>2. k \in OfType(b, "bank_transaction") /\ k.id \notin claimed
      BY DEF Best, Candidates, Free
    <3>3. leg.bank = {k} /\ leg.rule = "R6"
      BY <3>1
    <3>4. QED BY <3>2, <3>3
  <2>4. QED BY <2>2, <2>3
<1>3. QED BY <1>1, <1>2

---------------------------------------------------------------------------
(* Groups.                                                                 *)

\* The records behind a set of links of one role.
LEMMA RecordsOfLinks ==
    ASSUME NEW role, NEW records
    PROVE  {link.txn : link \in LinksAs(role, records)} = records
<1>1. ASSUME NEW t \in records
      PROVE  t \in {link.txn : link \in LinksAs(role, records)}
  <2>1. [txn |-> t, role |-> role] \in LinksAs(role, records)
    BY DEF LinksAs
  <2>2. [txn |-> t, role |-> role].txn = t
    OBVIOUS
  <2>3. QED BY <2>1, <2>2
<1>2. ASSUME NEW t \in {link.txn : link \in LinksAs(role, records)}
      PROVE  t \in records
  BY DEF LinksAs
<1>3. QED BY <1>1, <1>2

\* The fields of a settlement group that the proofs look at.
LEMMA SettlementFields ==
    ASSUME NEW b, NEW batch, NEW leg, NEW g, g = SettlementGroup(b, batch, leg)
    PROVE  /\ g.subject = batch.id
           /\ g.rule = leg.rule
           /\ g.links = SettlementLinks(b, batch, leg)
           /\ g.type = Classify(b, batch, leg)
           /\ g.status = Status(g.held)
           /\ Credits(g) = leg.bank
<1>1. /\ g.subject = batch.id
      /\ g.rule = leg.rule
      /\ g.links = SettlementLinks(b, batch, leg)
      /\ g.type = Classify(b, batch, leg)
      /\ g.status = Status(g.held)
  BY DEF SettlementGroup
<1>2. {l \in g.links : l.role = "bank_credit"} = LinksAs("bank_credit", leg.bank)
  BY <1>1 DEF SettlementLinks, LinksAs
<1>3. Credits(g) = leg.bank
  BY <1>2, RecordsOfLinks DEF Credits
<1>4. QED BY <1>1, <1>3

\* A group that holds nothing has passed each condition of the gate.
LEMMA NothingHeld ==
    ASSUME NEW rule, NEW links, NEW confidence, NEW type, NEW margin, NEW atRisk,
           Held(rule, links, confidence, type, margin, atRisk) = {}
    PROVE  /\ rule # "R6"
           /\ ~(atRisk > AutoResolveMax)
           /\ type \notin NeverAutoResolve
           /\ Flags(links) = {}
<1>1. /\ {c \in {"tier"} : rule = "R6"} = {}
      /\ {c \in {"amount"} : atRisk > AutoResolveMax} = {}
      /\ {c \in {"type"} : type \in NeverAutoResolve} = {}
      /\ {c \in {"quality"} : Flags(links) # {}} = {}
  BY DEF Held
<1>2. QED BY <1>1

\* A settlement that cleared passed each of the gate's conditions.
LEMMA SettlementCleared ==
    ASSUME NEW b, NEW batch, NEW leg, NEW g, g = SettlementGroup(b, batch, leg),
           g.status = "auto_resolved"
    PROVE  /\ leg.rule # "R6"
           /\ ~(AmountAtRisk(b, batch, Classify(b, batch, leg)) > AutoResolveMax)
           /\ Classify(b, batch, leg) \notin NeverAutoResolve
           /\ Flags(SettlementLinks(b, batch, leg)) = {}
<1>1. g.held = {}
  BY SettlementFields DEF Status
<1>2. g.held = Held(leg.rule, SettlementLinks(b, batch, leg),
                    Confidence(leg.rule, SettlementLinks(b, batch, leg),
                               Consistency(b, batch), leg.margin),
                    Classify(b, batch, leg), leg.margin,
                    AmountAtRisk(b, batch, Classify(b, batch, leg)))
  BY DEF SettlementGroup
<1>3. QED BY <1>1, <1>2, NothingHeld

\* An invoice match names its invoice, and no bank row.
LEMMA InvoiceFields ==
    ASSUME NEW b, NEW claimed, NEW g \in InvoiceGroups(b, claimed)
    PROVE  \E invoice \in Free(OfType(b, "invoice"), claimed) :
           \E p \in PaymentsFor(b, claimed, invoice) :
              /\ Cardinality(PaymentsFor(b, claimed, invoice)) = 1
              /\ g = InvoiceGroup(invoice, p)
              /\ g.subject = invoice.id
              /\ g.rule = "R4"
              /\ g.status = Status(g.held)
              /\ Credits(g) = {}
<1>1. PICK invoice \in Free(OfType(b, "invoice"), claimed) :
              \E p \in PaymentsFor(b, claimed, invoice) :
                 /\ Cardinality(PaymentsFor(b, claimed, invoice)) = 1
                 /\ g = InvoiceGroup(invoice, p)
  BY DEF InvoiceGroups
<1> PICK p \in PaymentsFor(b, claimed, invoice) :
              /\ Cardinality(PaymentsFor(b, claimed, invoice)) = 1
              /\ g = InvoiceGroup(invoice, p)
  BY <1>1
<1>2. /\ g.subject = invoice.id
      /\ g.rule = "R4"
      /\ g.status = Status(g.held)
      /\ g.links = LinksAs("invoice", {invoice}) \cup LinksAs("payment", {p})
  BY DEF InvoiceGroup
<1>3. Credits(g) = {}
  BY <1>2 DEF Credits, LinksAs
<1>4. QED BY <1>2, <1>3

\* Two settlement groups, or a settlement and an invoice match, with one
\* subject: the subject is the identifier of one record only.
LEMMA SettlementSubject ==
    ASSUME IInv, NEW g, IsSettlement(g)
    PROVE  /\ g.subject \in Ids(OfType(book, "settlement_batch"))
           /\ g.subject # Absent
           /\ g.rule # "R4"
<1>1. PICK batch \in OfType(book, "settlement_batch"), claimed \in SUBSET Ids(book) :
         \E leg \in BankLegs(book, claimed, batch) : g = SettlementGroup(book, batch, leg)
  BY DEF IsSettlement
<1>2. PICK leg \in BankLegs(book, claimed, batch) : g = SettlementGroup(book, batch, leg)
  BY <1>1
<1>3. g.subject = batch.id /\ g.rule = leg.rule
  BY <1>2, SettlementFields
<1>4. leg.rule # "R4"
  BY LegShape
<1>5. batch \in book /\ batch.id # Absent
  BY BookFacts DEF IInv, OfType
<1>6. QED BY <1>3, <1>4, <1>5 DEF Ids

\* The group of an invoice is named after the invoice, and holds no credit.
LEMMA InvoiceSubject ==
    ASSUME IInv, NEW claimed, NEW g \in InvoiceGroups(book, claimed)
    PROVE  /\ g.subject \in Ids(book)
           /\ g.subject \notin Ids(OfType(book, "settlement_batch"))
           /\ g.subject # Absent
           /\ g.rule = "R4"
           /\ Credits(g) = {}
<1>1. PICK invoice \in Free(OfType(book, "invoice"), claimed) :
         g.subject = invoice.id /\ g.rule = "R4" /\ Credits(g) = {}
  BY InvoiceFields
<1>2. invoice \in book /\ invoice.type = "invoice"
  BY DEF Free, OfType
<1>3. invoice.id # Absent /\ \A t \in book : t.id = invoice.id => t = invoice
  BY <1>2, BookFacts DEF IInv
<1>4. QED BY <1>1, <1>2, <1>3 DEF Ids, OfType

\* Of two matches of one invoice, both name its one payment.
LEMMA InvoiceMatchedOnce ==
    ASSUME IInv, NEW claimed, NEW g \in InvoiceGroups(book, claimed),
           NEW h \in InvoiceGroups(book, claimed), g.subject = h.subject
    PROVE  g = h
<1>1. PICK i \in Free(OfType(book, "invoice"), claimed) :
      \E p \in PaymentsFor(book, claimed, i) :
         /\ Cardinality(PaymentsFor(book, claimed, i)) = 1
         /\ g = InvoiceGroup(i, p) /\ g.subject = i.id
  BY InvoiceFields
<1>2. PICK j \in Free(OfType(book, "invoice"), claimed) :
      \E p \in PaymentsFor(book, claimed, j) :
         h = InvoiceGroup(j, p) /\ h.subject = j.id
  BY InvoiceFields
<1>3. i = j
  BY <1>1, <1>2, BookFacts DEF IInv, Free, OfType
<1>4. PaymentsFor(book, claimed, i) \subseteq book /\ IsFiniteSet(book)
  BY BookFacts DEF IInv, PaymentsFor, Free, OfType, Referencing
<1>5. IsFiniteSet(PaymentsFor(book, claimed, i))
  BY <1>4, FS_Subset
<1>6. \E p : PaymentsFor(book, claimed, i) = {p}
  BY <1>1, <1>5, FS_Singleton
<1>7. QED BY <1>1, <1>2, <1>3, <1>6

---------------------------------------------------------------------------
(* The invariant.                                                          *)

\* The invariant holds before the first batch.
LEMMA InitIInv == Init => IInv
BY DEF Init, IInv, GroupsAreMade, OneGroupPerSubject, CasesAreRaised, CreditsAreClaimed,
       EveryReviewIsQueued

\* The predicates on a group or a case look at the book alone.
LEMMA SameBook ==
    ASSUME book' = book
    PROVE  /\ \A g : IsSettlement(g)' <=> IsSettlement(g)
           /\ \A g : IsInvoiceMatch(g)' <=> IsInvoiceMatch(g)
           /\ \A c, g : RaisedWith(c, g)' <=> RaisedWith(c, g)
BY DEF IsSettlement, IsInvoiceMatch, RaisedWith

\* One pass of the loop over a batch keeps the invariant.
LEMMA BatchStep ==
    ASSUME IInv, NEW batch \in Pending, NEW leg \in BankLegs(book, consumed, batch),
           ReconcileBatch(batch, leg)
    PROVE  IInv'
<1> DEFINE new == SettlementGroup(book, batch, leg)
<1>1. batch \in OfType(book, "settlement_batch") /\ batch \in book
      /\ batch.id # Absent /\ \A g \in groups : g.subject # batch.id
  BY BookFacts DEF Pending, OfType, IInv
<1>2. /\ stage = "settlements" /\ stage' = stage /\ book' = book
      /\ groups' = groups \cup {new}
      /\ cases' = cases \cup BatchCases(book, batch, leg)
      /\ consumed' = consumed \cup Ids({link.txn : link \in SettlementLinks(book, batch, leg)})
  BY DEF ReconcileBatch
<1>3. new.subject = batch.id /\ new.links = SettlementLinks(book, batch, leg)
      /\ Credits(new) = leg.bank
  BY SettlementFields
<1>4. IsSettlement(new) /\ \A c \in BatchCases(book, batch, leg) : RaisedWith(c, new)
  BY <1>1 DEF IsSettlement, RaisedWith, IInv
<1>5. \A c \in BatchCases(book, batch, leg) : c.group = batch.id /\ c.detector # "rev"
  BY DEF BatchCases, CaseFor
<1>6. consumed' \subseteq Ids(book)
  <2>1. leg.bank \subseteq book
    BY LegShape DEF OfType
  <2>2. \A link \in SettlementLinks(book, batch, leg) : link.txn \in book
    BY <1>1, <2>1, LookupFacts
       DEF SettlementLinks, LinksAs, Lines, Payments, PaymentOf, Journal, OfType, Referencing
  <2>3. QED BY <1>2, <2>2 DEF Ids, IInv
<1>7. GroupsAreMade'
  BY <1>2, <1>4, SameBook DEF IInv, GroupsAreMade
<1>8. OneGroupPerSubject'
  BY <1>1, <1>2, <1>3 DEF IInv, OneGroupPerSubject
<1>9. CasesAreRaised'
  <2>1. \A c \in cases' : c.group # Absent => \E g \in groups' : g.subject = c.group
    BY <1>2, <1>3, <1>5 DEF IInv, CasesAreRaised
  <2>2. ASSUME NEW c \in cases', NEW g \in groups', c.group = g.subject
        PROVE  RaisedWith(c, g) \/ g.status = "pending_review"
    <3>1. CASE c \in cases /\ g \in groups
      BY <2>2, <3>1 DEF IInv, CasesAreRaised
    <3>2. CASE c \in cases /\ g = new
      <4>1. c.group = batch.id
        BY <1>3, <2>2, <3>2
      <4>2. QED BY <1>1, <3>2, <4>1 DEF IInv, CasesAreRaised
    <3>3. CASE c \in BatchCases(book, batch, leg) /\ g \in groups
      BY <1>1, <1>5, <2>2, <3>3
    <3>4. CASE c \in BatchCases(book, batch, leg) /\ g = new
      BY <1>4, <3>4
    <3>5. QED BY <1>2, <2>2, <3>1, <3>2, <3>3, <3>4
  <2>3. \A c \in cases' : c.detector # "rev"
    BY <1>2, <1>5 DEF IInv, CasesAreRaised
  <2>4. QED BY <1>2, <2>1, <2>2, <2>3, SameBook DEF CasesAreRaised
<1>10. CreditsAreClaimed'
  <2>1. ASSUME NEW k \in Credits(new)
        PROVE  k.id \in consumed'
    <3>1. PICK link \in SettlementLinks(book, batch, leg) : k = link.txn
      BY <1>3, <2>1 DEF Credits
    <3>2. QED BY <1>2, <3>1 DEF Ids
  <2>2. Credits(new)' = Credits(new) /\ \A g : Credits(g)' = Credits(g)
    BY <1>2 DEF Credits
  <2>3. \A g \in groups' : \A k \in Credits(g) : k.id \in consumed'
    BY <1>2, <2>1 DEF IInv, CreditsAreClaimed
  <2>4. QED BY <2>2, <2>3 DEF CreditsAreClaimed
<1>11. EveryReviewIsQueued'
  BY <1>2 DEF EveryReviewIsQueued
<1>12. QED BY <1>2, <1>6, <1>7, <1>8, <1>9, <1>10, <1>11 DEF IInv

\* The invoice matches keep the invariant.
LEMMA MatchStep ==
    ASSUME IInv, MatchInvoices
    PROVE  IInv'
<1> DEFINE new == InvoiceGroups(book, consumed)
<1>1. /\ stage = "settlements" /\ stage' = "exceptions" /\ book' = book /\ cases' = cases
      /\ groups' = groups \cup new
      /\ consumed' = consumed \cup {g.subject : g \in new}
  BY DEF MatchInvoices
<1>2. \A g \in groups : IsSettlement(g)
  BY <1>1 DEF IInv, GroupsAreMade
<1>3. \A g \in new : IsInvoiceMatch(g)
  BY DEF IsInvoiceMatch, IInv
<1>4. GroupsAreMade'
  BY <1>1, <1>2, <1>3, SameBook DEF GroupsAreMade
<1>5. OneGroupPerSubject'
  <2>1. ASSUME NEW g \in groups, NEW h \in new
        PROVE  g.subject # h.subject
    BY <1>2, SettlementSubject, InvoiceSubject
  <2>2. ASSUME NEW g \in new, NEW h \in new, g.subject = h.subject
        PROVE  g = h
    BY <2>2, InvoiceMatchedOnce
  <2>3. QED BY <1>1, <2>1, <2>2 DEF IInv, OneGroupPerSubject
<1>6. CasesAreRaised'
  <2>1. ASSUME NEW c \in cases, NEW g \in new
        PROVE  c.group # g.subject
    <3>1. g.subject # Absent
      BY InvoiceSubject
    <3>2. ASSUME NEW h \in groups
          PROVE  h.subject # g.subject
      BY <1>2, SettlementSubject, InvoiceSubject
    <3>3. QED BY <3>1, <3>2 DEF IInv, CasesAreRaised
  <2>2. QED BY <1>1, <2>1, SameBook DEF IInv, CasesAreRaised
<1>7. CreditsAreClaimed'
  <2>1. \A g \in new : Credits(g) = {}
    BY InvoiceSubject
  <2>2. \A g : Credits(g)' = Credits(g)
    BY DEF Credits
  <2>3. QED BY <1>1, <2>1, <2>2 DEF IInv, CreditsAreClaimed
<1>8. consumed' \subseteq Ids(book)
  BY <1>1, InvoiceSubject DEF IInv
<1>9. EveryReviewIsQueued'
  BY <1>1 DEF EveryReviewIsQueued
<1>10. QED BY <1>1, <1>4, <1>5, <1>6, <1>7, <1>8, <1>9 DEF IInv

\* The standalone detectors raise cases of no group.
LEMMA StandaloneFields ==
    ASSUME NEW b, NEW firsts,
           NEW c \in UnmatchedPayments(b) \cup Duplicates(b, firsts)
                       \cup UnlinkedRefunds(b) \cup StatusConflicts(b)
    PROVE  c.group = Absent /\ c.detector # "rev"
<1>1. CASE c \in UnmatchedPayments(b)
  BY <1>1 DEF UnmatchedPayments, CaseFor
<1>2. CASE c \in Duplicates(b, firsts)
  BY <1>2 DEF Duplicates, CaseFor
<1>3. CASE c \in UnlinkedRefunds(b)
  BY <1>3 DEF UnlinkedRefunds, CaseFor
<1>4. CASE c \in StatusConflicts(b)
  BY <1>4 DEF StatusConflicts, CaseFor
<1>5. QED BY <1>1, <1>2, <1>3, <1>4

\* Every group has a subject.
LEMMA SubjectsPresent ==
    ASSUME IInv, NEW g \in groups
    PROVE  g.subject # Absent
<1>1. CASE IsSettlement(g)
  BY <1>1, SettlementSubject
<1>2. CASE IsInvoiceMatch(g)
  BY <1>2, InvoiceSubject DEF IsInvoiceMatch
<1>3. QED BY <1>1, <1>2 DEF IInv, GroupsAreMade

\* The standalone detectors keep the invariant.
LEMMA DetectStep ==
    ASSUME IInv, DetectStandalone
    PROVE  IInv'
<1>1. PICK firsts \in Firsts(book) :
         cases' = cases \cup UnmatchedPayments(book) \cup Duplicates(book, firsts)
                        \cup UnlinkedRefunds(book) \cup StatusConflicts(book)
  BY DEF DetectStandalone
<1>2. /\ stage = "exceptions" /\ stage' = "queue"
      /\ book' = book /\ consumed' = consumed /\ groups' = groups
  BY DEF DetectStandalone
<1>3. \A c \in cases' : c \in cases \/ (c.group = Absent /\ c.detector # "rev")
  BY <1>1, StandaloneFields
<1>4. CasesAreRaised'
  BY <1>2, <1>3, SameBook, SubjectsPresent DEF IInv, CasesAreRaised
<1>5. GroupsAreMade'
  BY <1>2, SameBook DEF IInv, GroupsAreMade
<1>6. QED BY <1>2, <1>4, <1>5
          DEF IInv, OneGroupPerSubject, CreditsAreClaimed, Credits, EveryReviewIsQueued

\* The backstop queues every review that has no case, and keeps the invariant.
LEMMA QueueStep ==
    ASSUME IInv, QueueReviews
    PROVE  IInv'
<1> DEFINE lost == {h \in groups : h.status = "pending_review" /\ ~Queued(h)}
           review(g) == [detector |-> "rev", subject |-> g.subject, type |-> "status_conflict",
                         amount |-> Max({LinkAmount(link) : link \in g.links}),
                         group |-> g.subject]
<1>1. /\ stage = "queue" /\ stage' = "done"
      /\ book' = book /\ consumed' = consumed /\ groups' = groups
      /\ cases' = cases \cup {review(g) : g \in lost}
  BY DEF QueueReviews
<1>2. \A g \in lost : /\ review(g).group = g.subject
                      /\ review(g).detector = "rev"
  OBVIOUS
<1> HIDE DEF review
<1>3. \A g \in lost : g \in groups /\ g.status = "pending_review"
                      /\ \A c \in cases : c.group # g.subject
  BY DEF Queued
<1>4. CasesAreRaised'
  <2>1. \A c \in cases' : c.group # Absent => \E g \in groups' : g.subject = c.group
    BY <1>1, <1>2, <1>3 DEF IInv, CasesAreRaised
  <2>2. ASSUME NEW c \in cases', NEW g \in groups', c.group = g.subject
        PROVE  RaisedWith(c, g) \/ g.status = "pending_review"
    <3>1. CASE c \in cases
      BY <1>1, <2>2, <3>1 DEF IInv, CasesAreRaised
    <3>2. CASE c \notin cases
      <4>1. PICK h \in lost : c = review(h)
        BY <1>1, <3>2
      <4>2. g = h
        BY <1>1, <1>2, <1>3, <2>2, <4>1 DEF IInv, OneGroupPerSubject
      <4>3. QED BY <1>3, <4>2
    <3>3. QED BY <3>1, <3>2
  <2>3. QED BY <1>1, <2>1, <2>2, SameBook DEF CasesAreRaised
<1>5. EveryReviewIsQueued'
  <2>1. ASSUME NEW g \in groups, g.status # "auto_resolved"
        PROVE  \E c \in cases' : c.group = g.subject
    <3>1. g.status = "pending_review"
      <4>1. CASE IsSettlement(g)
        BY <2>1, <4>1, SettlementFields DEF IsSettlement, Status
      <4>2. CASE IsInvoiceMatch(g)
        BY <2>1, <4>2, InvoiceFields DEF IsInvoiceMatch, Status
      <4>3. QED BY <4>1, <4>2 DEF IInv, GroupsAreMade
    <3>2. CASE Queued(g)
      BY <1>1, <3>2 DEF Queued
    <3>3. CASE ~Queued(g)
      BY <1>1, <1>2, <3>1, <3>3
    <3>4. QED BY <3>2, <3>3
  <2>2. ASSUME NEW c \in cases', NEW d \in cases', c.detector = "rev", d.group = c.group
        PROVE  d = c
    <3>1. c \notin cases
      BY <1>1, <2>2 DEF IInv, CasesAreRaised
    <3>2. PICK g \in lost : c = review(g)
      BY <1>1, <3>1
    <3>3. d \notin cases
      BY <1>2, <1>3, <2>2, <3>2
    <3>4. PICK h \in lost : d = review(h)
      BY <1>1, <3>3
    <3>5. g = h
      BY <1>2, <1>3, <2>2, <3>2, <3>4 DEF IInv, OneGroupPerSubject
    <3>6. QED BY <3>2, <3>4, <3>5
  <2>3. QED BY <1>1, <2>1, <2>2 DEF EveryReviewIsQueued, Cleared, Queued
<1>6. GroupsAreMade'
  BY <1>1, SameBook DEF IInv, GroupsAreMade
<1>7. QED BY <1>1, <1>4, <1>5, <1>6
          DEF IInv, OneGroupPerSubject, CreditsAreClaimed, Credits

\* Every step of a run keeps the invariant.
LEMMA StepIInv ==
    ASSUME IInv, [Next]_vars
    PROVE  IInv'
<1>1. ASSUME NEW batch \in Pending, NEW leg \in BankLegs(book, consumed, batch),
             ReconcileBatch(batch, leg)
      PROVE  IInv'
  BY <1>1, BatchStep
<1>2. CASE UNCHANGED vars
  BY <1>2 DEF vars, IInv, GroupsAreMade, OneGroupPerSubject, CasesAreRaised, CreditsAreClaimed,
              EveryReviewIsQueued, IsSettlement, IsInvoiceMatch, RaisedWith, Credits, Cleared,
              Queued
<1>3. QED BY <1>1, <1>2, MatchStep, DetectStep, QueueStep DEF Next

\* The invariant of a run, whatever the population and the order in which the
\* database hands it over.
THEOREM Invariance == Spec => []IInv
BY InitIInv, StepIInv, PTL DEF Spec

---------------------------------------------------------------------------
(* What follows.                                                           *)

\* A run that is done has a case for every group that did not clear, and the
\* generic one only where no detector has named the group
\* (_ensure_every_review_is_queued).
THEOREM ReviewsAreQueued == Spec => []EveryReviewIsQueued
<1>1. IInv => EveryReviewIsQueued
  BY DEF IInv
<1>2. QED BY <1>1, Invariance, PTL

\* A group that cleared carries no case of a blocked type, nor of an amount
\* above the limit (_classify and _raise_cases agree).
THEOREM NoBlockedCaseCleared == Spec => []ClearedGroupsCarryNoBlockedCase
<1>1. ASSUME IInv, NEW g \in groups, NEW c \in cases,
             g.status = "auto_resolved", c.group = g.subject
      PROVE  c.type \notin NeverAutoResolve /\ c.amount <= AutoResolveMax
  <2>1. RaisedWith(c, g)
    BY <1>1 DEF IInv, CasesAreRaised
  <2>2. PICK batch \in OfType(book, "settlement_batch"), claimed \in SUBSET Ids(book) :
           \E leg \in BankLegs(book, claimed, batch) :
              g = SettlementGroup(book, batch, leg) /\ c \in BatchCases(book, batch, leg)
    BY <2>1 DEF RaisedWith
  <2>3. PICK leg \in BankLegs(book, claimed, batch) :
           g = SettlementGroup(book, batch, leg) /\ c \in BatchCases(book, batch, leg)
    BY <2>2
  <2> DEFINE type == Classify(book, batch, leg)
  <2>4. type \notin NeverAutoResolve /\ ~(AmountAtRisk(book, batch, type) > AutoResolveMax)
    BY <1>1, <2>3, SettlementCleared
  <2>5. type # "missing_bank_credit" /\ type # "amount_mismatch"
    BY <2>4, BlockListAssumption
  <2>6. ~Unconfirmed(batch, leg) /\ BridgeBalances(book, batch) /\ JournalBalances(book, batch)
    BY <2>5 DEF Classify
  <2>7. CASE ~FeesOnSchedule(book, batch)
    <3>1. type = "fee_tax_discrepancy"
      BY <2>6, <2>7 DEF Classify
    <3>2. AmountAtRisk(book, batch, type) = batch.fee + batch.tax
      BY <3>1 DEF AmountAtRisk
    <3>3. batch.fee + batch.tax \in Nat
      BY <1>1, BookFacts DEF IInv, OfType
    <3>4. batch.fee + batch.tax <= AutoResolveMax
      BY <2>4, <3>2, <3>3, RulesAssumption
    <3>5. \/ c.type = "fee_tax_discrepancy" /\ c.amount = batch.fee + batch.tax
          \/ c.type = "date_mismatch" /\ c.amount = 0
      BY <2>3, <2>6 DEF BatchCases, CaseFor
    <3>6. "date_mismatch" \notin NeverAutoResolve
      BY <2>4, <3>1, BlockListAssumption
    <3>7. QED BY <2>4, <3>1, <3>4, <3>5, <3>6, RulesAssumption
  <2>8. CASE FeesOnSchedule(book, batch)
    <3>1. c.type = "date_mismatch" /\ c.amount = 0
          /\ (CreditOutsideWindow(batch, leg) \/ SettledLate(book, batch))
      BY <2>3, <2>6, <2>8 DEF BatchCases, CaseFor
    <3>2. type = "date_mismatch"
      BY <2>6, <2>8, <3>1 DEF Classify
    <3>3. QED BY <2>4, <3>1, <3>2, RulesAssumption
  <2>9. QED BY <2>7, <2>8
<1>2. IInv => ClearedGroupsCarryNoBlockedCase
  BY <1>1 DEF ClearedGroupsCarryNoBlockedCase, Cleared
<1>3. QED BY <1>2, Invariance, PTL

\* A settlement that cleared has its credit, by reference and net, and its
\* bridges balance (the gate and _classify).
THEOREM ClearedIsSound == Spec => []ClearedGroupsAreSound
<1>1. ASSUME IInv, NEW g \in groups, g.status = "auto_resolved", g.rule # "R4"
      PROVE  \E batch \in book, k \in book :
                /\ g.subject = batch.id
                /\ Credits(g) = {k}
                /\ batch.ref # Absent
                /\ k.ref = batch.ref
                /\ Net(k) = Net(batch)
                /\ BridgeBalances(book, batch)
                /\ JournalBalances(book, batch)
                /\ \A link \in g.links : link.txn.flags = {}
  <2>1. IsSettlement(g)
    BY <1>1, InvoiceSubject DEF IInv, GroupsAreMade, IsInvoiceMatch
  <2>2. PICK batch \in OfType(book, "settlement_batch"), claimed \in SUBSET Ids(book) :
           \E leg \in BankLegs(book, claimed, batch) : g = SettlementGroup(book, batch, leg)
    BY <2>1 DEF IsSettlement
  <2>3. PICK leg \in BankLegs(book, claimed, batch) : g = SettlementGroup(book, batch, leg)
    BY <2>2
  <2>4. /\ leg.rule # "R6"
        /\ Classify(book, batch, leg) \notin NeverAutoResolve
        /\ Flags(SettlementLinks(book, batch, leg)) = {}
    BY <1>1, <2>3, SettlementCleared
  <2>5. PICK k \in OfType(book, "bank_transaction") :
           /\ leg.bank = {k}
           /\ batch.ref # Absent /\ k.ref = batch.ref /\ Net(k) = Net(batch)
    BY <2>4, LegShape
  <2>6. BridgeBalances(book, batch) /\ JournalBalances(book, batch)
    BY <2>4, BlockListAssumption DEF Classify
  <2>7. g.subject = batch.id /\ Credits(g) = {k} /\ g.links = SettlementLinks(book, batch, leg)
    BY <2>3, <2>5, SettlementFields
  <2>8. \A link \in g.links : link.txn.flags = {}
    BY <2>4, <2>7 DEF Flags
  <2>9. QED BY <2>5, <2>6, <2>7, <2>8 DEF OfType
<1>2. IInv => ClearedGroupsAreSound
  BY <1>1 DEF ClearedGroupsAreSound, Cleared, Settled
<1>3. QED BY <1>2, Invariance, PTL

---------------------------------------------------------------------------
(* Case ids.                                                               *)

Named == CasesAreNamed /\ CaseIdsAreUnique

\* One pass of the loop raises at most one case per detector, on its batch.
LEMMA BatchCaseFields ==
    ASSUME NEW b, NEW batch, NEW leg, NEW c \in BatchCases(b, batch, leg)
    PROVE  /\ c.detector \in OfTheLoop
           /\ c.subject = batch.id
           /\ \A d \in BatchCases(b, batch, leg) : c.detector = d.detector => c = d
BY DEF BatchCases, CaseFor, OfTheLoop

\* What a standalone detector says of one record of the book it says once.
LEMMA UnmatchedOnce ==
    ASSUME NEW b \in Books, NEW c \in UnmatchedPayments(b)
    PROVE  /\ c.detector = "unm"
           /\ \A d \in UnmatchedPayments(b) : c.subject = d.subject => c = d
<1>1. PICK p \in b : c = CaseFor("unm", p, "unmatched_payment", p.gross, Absent)
  BY DEF UnmatchedPayments, OfType
<1>2. ASSUME NEW d \in UnmatchedPayments(b), c.subject = d.subject
      PROVE  c = d
  <2>1. PICK q \in b : d = CaseFor("unm", q, "unmatched_payment", q.gross, Absent)
    BY DEF UnmatchedPayments, OfType
  <2>2. p.id = q.id
    BY <1>1, <1>2, <2>1 DEF CaseFor
  <2>3. QED BY <1>1, <2>1, <2>2, BookFacts
<1>3. QED BY <1>1, <1>2 DEF CaseFor

\* A refund is found unlinked once.
LEMMA RefundsOnce ==
    ASSUME NEW b \in Books, NEW c \in UnlinkedRefunds(b)
    PROVE  /\ c.detector = "rfn"
           /\ \A d \in UnlinkedRefunds(b) : c.subject = d.subject => c = d
<1>1. PICK r \in b : c = CaseFor("rfn", r, "refund_unlinked", r.gross, Absent)
  BY DEF UnlinkedRefunds, OfType
<1>2. ASSUME NEW d \in UnlinkedRefunds(b), c.subject = d.subject
      PROVE  c = d
  <2>1. PICK s \in b : d = CaseFor("rfn", s, "refund_unlinked", s.gross, Absent)
    BY DEF UnlinkedRefunds, OfType
  <2>2. r.id = s.id
    BY <1>1, <1>2, <2>1 DEF CaseFor
  <2>3. QED BY <1>1, <2>1, <2>2, BookFacts
<1>3. QED BY <1>1, <1>2 DEF CaseFor

\* A first of a kind is a record of the book, however firsts were chosen.
LEMMA DuplicatesOnce ==
    ASSUME NEW b \in Books, NEW firsts \in Firsts(b), NEW c \in Duplicates(b, firsts)
    PROVE  /\ c.detector = "dup"
           /\ \A d \in Duplicates(b, firsts) : c.subject = d.subject => c = d
<1> DEFINE case(t) == CaseFor("dup", t, "duplicate", Net(t) * (Cardinality(Twins(b, t)) - 1),
                              Absent)
<1>1. firsts \subseteq b
  <2>1. \A members \in Repeated(b) : members \subseteq b
    BY DEF Repeated, Twins, OfType
  <2>2. QED BY <2>1 DEF Firsts
<1>2. PICK t \in firsts : c = case(t)
  BY DEF Duplicates
<1>3. \A u : case(u).subject = u.id /\ case(u).detector = "dup"
  BY DEF CaseFor
<1>4. ASSUME NEW d \in Duplicates(b, firsts), c.subject = d.subject
      PROVE  c = d
  <2>1. PICK u \in firsts : d = case(u)
    BY DEF Duplicates
  <2> HIDE DEF case
  <2>2. t.id = u.id
    BY <1>2, <1>3, <1>4, <2>1
  <2>3. t = u
    BY <1>1, <2>2, BookFacts
  <2>4. QED BY <1>2, <2>1, <2>3
<1>5. QED BY <1>2, <1>3, <1>4

\* A conflict names the invoice, and its payment is the only one.
LEMMA ConflictsOnce ==
    ASSUME NEW b \in Books, NEW c \in StatusConflicts(b)
    PROVE  /\ c.detector = "sts"
           /\ \A d \in StatusConflicts(b) : c.subject = d.subject => c = d
<1> DEFINE payments(i) == OfType(Referencing(b, i.ref), "payment")
           case(i, p)  == CaseFor("sts", i, "status_conflict", p.gross, Absent)
<1>1. \A d \in StatusConflicts(b) : \E i \in b : \E p \in payments(i) :
         Cardinality(payments(i)) = 1 /\ d = case(i, p)
  BY DEF StatusConflicts, OfType
<1>2. PICK i \in b : \E p \in payments(i) : Cardinality(payments(i)) = 1 /\ c = case(i, p)
  BY <1>1
<1>3. PICK p \in payments(i) : Cardinality(payments(i)) = 1 /\ c = case(i, p)
  BY <1>2
<1>4. \E q : payments(i) = {q}
  <2>1. payments(i) \subseteq b
    BY DEF OfType, Referencing
  <2>2. IsFiniteSet(payments(i))
    BY <2>1, BookFacts, FS_Subset
  <2>3. QED BY <1>3, <2>2, FS_Singleton
<1>5. \A j, q : case(j, q).subject = j.id /\ case(j, q).detector = "sts"
  BY DEF CaseFor
<1>6. ASSUME NEW d \in StatusConflicts(b), c.subject = d.subject
      PROVE  c = d
  <2>1. PICK j \in b : \E q \in payments(j) : d = case(j, q)
    BY <1>1
  <2>2. PICK q \in payments(j) : d = case(j, q)
    BY <2>1
  <2>3. i.id = j.id
    BY <1>3, <1>5, <1>6, <2>2
  <2>4. i = j
    BY <2>3, BookFacts
  <2>5. QED BY <1>3, <1>4, <2>2, <2>4
<1>7. QED BY <1>3, <1>5, <1>6

\* No two standalone cases share a detector and a subject.
LEMMA DetectedOnce ==
    ASSUME NEW b \in Books, NEW firsts \in Firsts(b),
           NEW c \in UnmatchedPayments(b) \cup Duplicates(b, firsts)
                       \cup UnlinkedRefunds(b) \cup StatusConflicts(b),
           NEW d \in UnmatchedPayments(b) \cup Duplicates(b, firsts)
                       \cup UnlinkedRefunds(b) \cup StatusConflicts(b),
           c.detector = d.detector, c.subject = d.subject
    PROVE  c = d
BY UnmatchedOnce, DuplicatesOnce, RefundsOnce, ConflictsOnce

\* Every step keeps cases named after what they were raised for.
LEMMA NamedStep ==
    ASSUME IInv, Named, [Next]_vars
    PROVE  Named'
<1>1. ASSUME NEW batch \in Pending, NEW leg \in BankLegs(book, consumed, batch),
             ReconcileBatch(batch, leg)
      PROVE  Named'
  <2> DEFINE new == SettlementGroup(book, batch, leg)
  <2>1. /\ stage = "settlements" /\ stage' = stage
        /\ groups' = groups \cup {new}
        /\ cases' = cases \cup BatchCases(book, batch, leg)
    BY <1>1 DEF ReconcileBatch
  <2>2. new.subject = batch.id /\ \A g \in groups : g.subject # batch.id
    BY SettlementFields DEF Pending
  <2> HIDE DEF new
  <2>3. CasesAreNamed'
    BY <2>1, <2>2, BatchCaseFields DEF Named, CasesAreNamed
  <2>4. ASSUME NEW c \in cases, NEW d \in BatchCases(book, batch, leg)
        PROVE  c.subject # d.subject
    BY <2>1, <2>2, BatchCaseFields DEF Named, CasesAreNamed
  <2>5. CaseIdsAreUnique'
    BY <2>1, <2>4, BatchCaseFields DEF Named, CaseIdsAreUnique
  <2>6. QED BY <2>3, <2>5 DEF Named
<1>2. CASE MatchInvoices
  BY <1>2 DEF MatchInvoices, Named, CasesAreNamed, CaseIdsAreUnique
<1>3. CASE DetectStandalone
  <2>1. PICK firsts \in Firsts(book) :
           cases' = cases \cup UnmatchedPayments(book) \cup Duplicates(book, firsts)
                          \cup UnlinkedRefunds(book) \cup StatusConflicts(book)
    BY <1>3 DEF DetectStandalone
  <2> DEFINE new == UnmatchedPayments(book) \cup Duplicates(book, firsts)
                       \cup UnlinkedRefunds(book) \cup StatusConflicts(book)
  <2>2. /\ stage = "exceptions" /\ stage' = "queue" /\ groups' = groups
        /\ cases' = cases \cup new
    BY <1>3, <2>1 DEF DetectStandalone
  <2>3. \A c \in new : c.detector \in {"unm", "dup", "rfn", "sts"}
    BY UnmatchedOnce, DuplicatesOnce, RefundsOnce, ConflictsOnce DEF IInv
  <2>4. \A c, d \in new : c.detector = d.detector /\ c.subject = d.subject => c = d
    BY DetectedOnce DEF IInv
  <2> HIDE DEF new
  <2>5. \A c \in cases : c.detector \in OfTheLoop
    BY <2>2 DEF Named, CasesAreNamed
  <2>6. \A c \in cases, d \in new : c.detector # d.detector /\ d.detector \notin OfTheLoop
    BY <2>3, <2>5 DEF OfTheLoop
  <2>7. CasesAreNamed'
    BY <2>2, <2>3, <2>5, <2>6 DEF Named, CasesAreNamed, OfTheLoop
  <2>8. CaseIdsAreUnique'
    BY <2>2, <2>4, <2>6 DEF Named, CaseIdsAreUnique
  <2>9. QED BY <2>7, <2>8 DEF Named
<1>4. CASE QueueReviews
  <2> DEFINE review(g) ==
         [detector |-> "rev", subject |-> g.subject, type |-> "status_conflict",
          amount |-> Max({LinkAmount(link) : link \in g.links}), group |-> g.subject]
  <2>1. /\ stage = "queue" /\ stage' = "done" /\ groups' = groups
        /\ cases' = cases \cup
             {review(g) : g \in {h \in groups : h.status = "pending_review" /\ ~Queued(h)}}
    BY <1>4 DEF QueueReviews
  <2>2. \A g : review(g).detector = "rev" /\ review(g).subject = g.subject
    OBVIOUS
  <2> HIDE DEF review
  <2>3. \A c \in cases : c.detector # "rev"
    BY <2>1 DEF Named, CasesAreNamed
  <2>4. CasesAreNamed'
    BY <2>1, <2>2 DEF Named, CasesAreNamed, OfTheLoop
  <2>5. CaseIdsAreUnique'
    BY <2>1, <2>2, <2>3 DEF Named, CaseIdsAreUnique, IInv, OneGroupPerSubject
  <2>6. QED BY <2>4, <2>5 DEF Named
<1>5. CASE UNCHANGED vars
  BY <1>5 DEF vars, Named, CasesAreNamed, CaseIdsAreUnique
<1>6. QED BY <1>1, <1>2, <1>3, <1>4, <1>5 DEF Next

\* However many records an order, a batch or a reference has, no two cases of a
\* run have one id: its commit meets no duplicate key (exceptions.py:313).
THEOREM CaseIdsDoNotCollide == Spec => []CaseIdsAreUnique
<1>1. Init => Named
  BY DEF Init, Named, CasesAreNamed, CaseIdsAreUnique
<1>2. Named => CaseIdsAreUnique
  BY DEF Named
<1>3. QED BY <1>1, <1>2, NamedStep, Invariance, PTL DEF Spec

---------------------------------------------------------------------------
(* The run implements the attribution.                                     *)

Paid(gs) == UNION {{<<k.id, g.subject>> : k \in Credits(g)} : g \in gs}
Done(gs) == {g.subject : g \in {h \in gs : h.status = "auto_resolved" /\ h.rule # "R4"}}

\* What the abstract board shows, read off the groups.
LEMMA BoardNow == /\ Attributed = Paid(groups)
                  /\ {g.subject : g \in Cleared \cap Settled} = Done(groups)
BY DEF Attributed, Paid, Done, Cleared, Settled

\* What further groups add to the board.
LEMMA BoardAdds ==
    ASSUME NEW gs, NEW hs
    PROVE  /\ Paid(gs \cup hs) = Paid(gs) \cup Paid(hs)
           /\ Done(gs \cup hs) = Done(gs) \cup Done(hs)
BY DEF Paid, Done

\* The loop attributes at most the credit of its leg, to its batch.
LEMMA BatchAttributes ==
    ASSUME IInv, NEW batch \in Pending, NEW leg \in BankLegs(book, consumed, batch),
           ReconcileBatch(batch, leg)
    PROVE  [Board!Next]_(Board!vars)
<1> DEFINE new == SettlementGroup(book, batch, leg)
<1>1. groups' = groups \cup {new} /\ \A g : Credits(g)' = Credits(g)
  BY DEF ReconcileBatch, Credits
<1>2. new.subject = batch.id /\ new.rule = leg.rule /\ Credits(new) = leg.bank
  BY SettlementFields
<1>3. /\ Attributed = Paid(groups)
      /\ Attributed' = Paid(groups) \cup Paid({new})
      /\ {g.subject : g \in Cleared \cap Settled} = Done(groups)
      /\ {g.subject : g \in Cleared \cap Settled}' = Done(groups) \cup Done({new})
  <2>1. Attributed' = Paid(groups') /\ {g.subject : g \in Cleared \cap Settled}' = Done(groups')
    BY DEF Attributed, Paid, Done, Cleared, Settled, Credits
  <2>2. QED BY <1>1, <2>1, BoardNow, BoardAdds
<1>4. Done({new}) \in {{}, {batch.id}}
  BY <1>2 DEF Done
<1>5. batch \in OfType(book, "settlement_batch") /\ \A g \in groups : g.subject # batch.id
  BY DEF Pending
<1>6. CASE leg.bank = {}
  <2>1. Paid({new}) = {}
    BY <1>2, <1>6 DEF Paid
  <2>2. leg.rule = "R6"
    BY <1>6, LegShape
  <2>3. Done({new}) = {}
    BY <2>2, SettlementCleared DEF Done
  <2>4. QED BY <1>3, <2>1, <2>3 DEF Board!vars
<1>7. CASE leg.bank # {}
  <2>1. PICK k \in OfType(book, "bank_transaction") : leg.bank = {k} /\ k.id \notin consumed
    BY <1>7, LegShape
  <2>2. Paid({new}) = {<<k.id, batch.id>>}
    BY <1>2, <2>1 DEF Paid
  <2>3. ASSUME NEW pair \in Attributed
        PROVE  pair[1] # k.id /\ pair[2] # batch.id
    <3>1. PICK g \in groups : \E j \in Credits(g) : pair = <<j.id, g.subject>>
      BY <2>3 DEF Attributed
    <3>2. QED BY <1>5, <2>1, <3>1 DEF IInv, CreditsAreClaimed
  <2>4. k.id \in Money /\ batch.id \in Payouts
    BY <1>5, BookFacts DEF IInv, Ids
  <2>5. Board!Attribute(k.id, batch.id)
    BY <1>3, <1>4, <2>2, <2>3 DEF Board!Attribute
  <2>6. QED BY <2>4, <2>5 DEF Board!Next
<1>8. QED BY <1>6, <1>7

\* An invoice match attributes nothing and clears no settlement.
LEMMA MatchAttributesNothing ==
    ASSUME IInv, MatchInvoices
    PROVE  UNCHANGED Board!vars
<1> DEFINE new == InvoiceGroups(book, consumed)
<1>1. groups' = groups \cup new /\ \A g : Credits(g)' = Credits(g)
  BY DEF MatchInvoices, Credits
<1>2. \A g \in new : g.rule = "R4" /\ Credits(g) = {}
  BY InvoiceSubject
<1>3. Paid(new) = {} /\ Done(new) = {}
  BY <1>2 DEF Paid, Done
<1>4. Attributed' = Paid(groups') /\ {g.subject : g \in Cleared \cap Settled}' = Done(groups')
  BY DEF Attributed, Paid, Done, Cleared, Settled, Credits
<1>5. Paid(groups \cup new) = Paid(groups) /\ Done(groups \cup new) = Done(groups)
  BY <1>3, BoardAdds
<1>6. /\ Attributed' = Attributed
      /\ {g.subject : g \in Cleared \cap Settled}' = {g.subject : g \in Cleared \cap Settled}
  BY <1>1, <1>4, <1>5, BoardNow
<1>7. QED BY <1>6 DEF Board!vars

\* Whatever the population, a run is an attribution of credits to payouts: one
\* to one, final, and cleared only together with its credit.
THEOREM RunImplementsAttribution == Spec => ImplementsAttribution
<1>1. Init => Board!Init
  BY DEF Init, Board!Init, Attributed, Cleared, Settled
<1>2. ASSUME IInv, [Next]_vars
      PROVE  [Board!Next]_(Board!vars)
  <2>1. ASSUME NEW batch \in Pending, NEW leg \in BankLegs(book, consumed, batch),
               ReconcileBatch(batch, leg)
        PROVE  [Board!Next]_(Board!vars)
    BY <1>2, <2>1, BatchAttributes
  <2>2. CASE groups' = groups
    BY <2>2 DEF Board!vars, Attributed, Cleared, Settled, Credits
  <2>3. CASE MatchInvoices
    BY <1>2, <2>3, MatchAttributesNothing
  <2>4. QED BY <1>2, <2>1, <2>2, <2>3 DEF Next, DetectStandalone, QueueReviews, vars
<1>3. QED BY <1>1, <1>2, Invariance, PTL DEF Spec, ImplementsAttribution, Board!Spec

\* What the attribution is for: no bank credit pays two settlements, none is
\* paid twice, and a settlement that cleared has its credit.
THEOREM CreditsPayOnce == Spec => []Board!OneToOne
<1>1. Board!Init => Board!OneToOne
  BY DEF Board!Init, Board!OneToOne
<1>2. ASSUME Board!OneToOne, [Board!Next]_(Board!vars)
      PROVE  Board!OneToOne'
  <2>1. ASSUME NEW k \in Money, NEW b \in Payouts, Board!Attribute(k, b)
        PROVE  Board!OneToOne'
    <3> DEFINE cleared == {g.subject : g \in Cleared \cap Settled}
    <3>1. Attributed' = Attributed \cup {<<k, b>>} /\ cleared' \in {cleared, cleared \cup {b}}
      BY <2>1 DEF Board!Attribute
    <3>2. \A p, q \in Attributed' : p[1] = q[1] \/ p[2] = q[2] => p = q
      BY <1>2, <2>1, <3>1 DEF Board!OneToOne, Board!Attribute
    <3>3. \A c \in cleared : \E pair \in Attributed : pair[2] = c
      BY <1>2 DEF Board!OneToOne
    <3>4. <<k, b>> \in Attributed' /\ <<k, b>>[2] = b
      BY <3>1
    <3>5. ASSUME NEW c \in cleared'
          PROVE  \E pair \in Attributed' : pair[2] = c
      <4> HIDE DEF cleared
      <4>1. CASE c = b
        BY <3>4, <4>1
      <4>2. CASE c \in cleared
        BY <3>1, <3>3, <4>2
      <4>3. QED BY <3>1, <3>5, <4>1, <4>2
    <3>6. QED BY <3>2, <3>5 DEF Board!OneToOne
  <2>2. CASE UNCHANGED Board!vars
    BY <1>2, <2>2 DEF Board!vars, Board!OneToOne
  <2>3. QED BY <1>2, <2>1, <2>2 DEF Board!Next
<1>3. QED BY <1>1, <1>2, RunImplementsAttribution, PTL DEF ImplementsAttribution, Board!Spec
---------------------------------------------------------------------------
(* Sums and maxima over finite sets.                                       *)

\* The member that a sum over a set takes next, and the function that holds the
\* sums over all the subsets of a set.
Member(s) == CHOOSE x \in s : TRUE
SumsOver(it, S, h) ==
    it = [s \in SUBSET S |-> IF s = {} THEN 0 ELSE h[Member(s)] + it[s \ {Member(s)}]]

\* A set without the member that a sum takes next is smaller by one.
LEMMA WithoutMember ==
    ASSUME NEW S, IsFiniteSet(S), NEW s \in SUBSET S, s # {}
    PROVE  /\ Member(s) \in s
           /\ s \ {Member(s)} \in SUBSET S
           /\ Cardinality(s) \in Nat \ {0}
           /\ Cardinality(s \ {Member(s)}) = Cardinality(s) - 1
<1>1. Member(s) \in s
  BY DEF Member
<1>2. IsFiniteSet(s)
  BY FS_Subset
<1>3. Cardinality(s) \in Nat /\ Cardinality(s) # 0
  BY <1>2, FS_CardinalityType, FS_EmptySet
<1>4. Cardinality(s \ {Member(s)}) = Cardinality(s) - 1
  BY <1>1, <1>2, FS_RemoveElement
<1> QED  BY <1>1, <1>3, <1>4

\* The sizes of the subsets of a finite set.
LEMMA SizesOf ==
    ASSUME NEW S, IsFiniteSet(S), NEW s \in SUBSET S
    PROVE  Cardinality(s) \in Nat /\ (Cardinality(s) <= 0 => s = {})
<1>1. IsFiniteSet(s)
  BY FS_Subset
<1>2. Cardinality(s) \in Nat /\ (Cardinality(s) = 0 => s = {})
  BY <1>1, FS_CardinalityType, FS_EmptySet
<1> QED  BY <1>2

\* The recursion over the subsets of a finite set has a solution: by induction
\* on their size, each stage is right one size further up.
LEMMA SumsExist ==
    ASSUME NEW S, IsFiniteSet(S), NEW h \in [S -> Int]
    PROVE  \E it : SumsOver(it, S, h)
<1> DEFINE Step(it, s) == IF s = {} THEN 0 ELSE h[Member(s)] + it[s \ {Member(s)}]
           T == {n \in Nat : \E it : /\ it = [s \in SUBSET S |-> it[s]]
                                     /\ \A s \in SUBSET S : Cardinality(s) <= n => it[s] = Step(it, s)}
<1>1. 0 \in T
  <2> DEFINE it == [s \in SUBSET S |-> 0]
  <2>1. \A s \in SUBSET S : Cardinality(s) <= 0 => s = {}
    BY SizesOf
  <2>2. it = [s \in SUBSET S |-> it[s]] /\ \A s \in SUBSET S : Cardinality(s) <= 0 => it[s] = Step(it, s)
    BY <2>1
  <2> QED  BY <2>2
<1>2. ASSUME NEW n \in T
      PROVE  n + 1 \in T
  <2>1. PICK it : \A s \in SUBSET S : Cardinality(s) <= n => it[s] = Step(it, s)
    OBVIOUS
  <2> DEFINE more == [s \in SUBSET S |-> Step(it, s)]
  <2>2. ASSUME NEW s \in SUBSET S, Cardinality(s) <= n + 1
        PROVE  more[s] = Step(more, s)
    <3>1. CASE s = {}
      BY <3>1
    <3>2. CASE s # {}
      <4> DEFINE r == s \ {Member(s)}
      <4>1. r \in SUBSET S /\ Cardinality(r) <= n
        BY <2>2, <3>2, WithoutMember
      <4>2. it[r] = Step(it, r) /\ more[r] = Step(it, r)
        BY <2>1, <4>1
      <4> QED  BY <3>2, <4>2
    <3> QED  BY <3>1, <3>2
  <2>3. more = [s \in SUBSET S |-> more[s]] /\ n + 1 \in Nat
    OBVIOUS
  <2> QED  BY <2>2, <2>3
<1>3. T = Nat
  <2>1. T \in SUBSET Nat
    OBVIOUS
  <2> HIDE DEF T
  <2> QED  BY <1>1, <1>2, <2>1, Induction
<1>4. Cardinality(S) \in T
  BY <1>3, FS_CardinalityType
<1>5. PICK it : /\ it = [s \in SUBSET S |-> it[s]]
                /\ \A s \in SUBSET S : Cardinality(s) <= Cardinality(S) => it[s] = Step(it, s)
  BY <1>4
<1>6. \A s \in SUBSET S : Cardinality(s) <= Cardinality(S)
  BY FS_Subset
<1>7. it = [s \in SUBSET S |-> Step(it, s)]
  BY <1>5, <1>6
<1> QED  BY <1>7 DEF SumsOver

\* Every solution is a whole number on every subset.
LEMMA SumsAreInt ==
    ASSUME NEW S, IsFiniteSet(S), NEW h \in [S -> Int], NEW it, SumsOver(it, S, h)
    PROVE  it[S] \in Int
<1> DEFINE T == {n \in Nat : \A s \in SUBSET S : Cardinality(s) <= n => it[s] \in Int}
<1>0. it[{}] = 0 /\ \A s \in SUBSET S : s # {} => it[s] = h[Member(s)] + it[s \ {Member(s)}]
  <2>1. {} \in SUBSET S
    OBVIOUS
  <2> QED  BY <2>1 DEF SumsOver
<1>1. 0 \in T
  <2>1. \A s \in SUBSET S : Cardinality(s) <= 0 => s = {}
    BY SizesOf
  <2>2. \A s \in SUBSET S : Cardinality(s) <= 0 => it[s] = 0
    BY <1>0, <2>1
  <2> QED  BY <2>2
<1>2. ASSUME NEW n \in T
      PROVE  n + 1 \in T
  <2>2. ASSUME NEW s \in SUBSET S, Cardinality(s) <= n + 1
        PROVE  it[s] \in Int
    <3>1. CASE s = {}
      BY <1>0, <3>1
    <3>2. CASE s # {}
      <4> DEFINE r == s \ {Member(s)}
      <4>1. r \in SUBSET S /\ Cardinality(r) <= n /\ Member(s) \in S
        BY <2>2, <3>2, WithoutMember
      <4>2. it[r] \in Int /\ h[Member(s)] \in Int
        BY <4>1
      <4>3. it[s] = h[Member(s)] + it[r]
        BY <1>0, <3>2
      <4> QED  BY <4>2, <4>3
    <3> QED  BY <3>1, <3>2
  <2> QED  BY <2>2
<1>3. T = Nat
  <2>1. T \in SUBSET Nat
    OBVIOUS
  <2> HIDE DEF T
  <2> QED  BY <1>1, <1>2, <2>1, Induction
<1>4. Cardinality(S) \in T
  BY <1>3, FS_CardinalityType
<1> QED  BY <1>4, FS_CardinalityType

\* The sums of the bridges (bridge.py) are whole numbers.
LEMMA NetsSumToInt ==
    ASSUME NEW S, IsFiniteSet(S), \A t \in S : Net(t) \in Int
    PROVE  MapThenSumSet(Net, S) \in Int
<1> DEFINE h == [t \in S |-> Net(t)]
           P(it) == it = [s \in SUBSET S |-> IF s = {} THEN 0
                             ELSE Net(CHOOSE x \in s : TRUE) + it[s \ {CHOOSE x \in s : TRUE}]]
<1>1. MapThenSumSet(Net, S) = (CHOOSE it : P(it))[S]
  BY DEF MapThenSumSet, MapThenFoldSet
<1>2. \A it : P(it) <=> SumsOver(it, S, h)
  BY WithoutMember DEF SumsOver, Member
<1> HIDE DEF P
<1>3. h \in [S -> Int]
  OBVIOUS
<1> HIDE DEF h
<1>4. P(CHOOSE it : P(it))
  BY <1>2, <1>3, SumsExist
<1> QED  BY <1>1, <1>2, <1>3, <1>4, SumsAreInt

\* A finite set of whole numbers that is not empty has its maximum.
LEMMA GrossesSumToInt ==
    ASSUME NEW S, IsFiniteSet(S), \A t \in S : Gross(t) \in Int
    PROVE  MapThenSumSet(Gross, S) \in Int
<1> DEFINE h == [t \in S |-> Gross(t)]
           P(it) == it = [s \in SUBSET S |-> IF s = {} THEN 0
                             ELSE Gross(CHOOSE x \in s : TRUE) + it[s \ {CHOOSE x \in s : TRUE}]]
<1>1. MapThenSumSet(Gross, S) = (CHOOSE it : P(it))[S]
  BY DEF MapThenSumSet, MapThenFoldSet
<1>2. \A it : P(it) <=> SumsOver(it, S, h)
  BY WithoutMember DEF SumsOver, Member
<1> HIDE DEF P
<1>3. h \in [S -> Int]
  OBVIOUS
<1> HIDE DEF h
<1>4. P(CHOOSE it : P(it))
  BY <1>2, <1>3, SumsExist
<1> QED  BY <1>1, <1>2, <1>3, <1>4, SumsAreInt

\* A finite set of whole numbers that is not empty has its maximum.
LEMMA LargestOf ==
    ASSUME NEW S, IsFiniteSet(S), S # {}, S \subseteq Int
    PROVE  Max(S) \in S
<1> DEFINE T == {n \in Nat : \A s \in SUBSET S : s # {} /\ Cardinality(s) <= n =>
                                 \E x \in s : \A y \in s : x >= y}
<1>1. 0 \in T
  BY SizesOf
<1>2. ASSUME NEW n \in T
      PROVE  n + 1 \in T
  <2>1. ASSUME NEW s \in SUBSET S, s # {}, Cardinality(s) <= n + 1
        PROVE  \E x \in s : \A y \in s : x >= y
    <3> DEFINE m == Member(s)
               r == s \ {m}
    <3>1. r \in SUBSET S /\ Cardinality(r) <= n /\ m \in s
      <4>1. m \in s /\ r \in SUBSET S /\ Cardinality(r) = Cardinality(s) - 1
        BY <2>1, WithoutMember
      <4>2. Cardinality(s) \in Nat /\ n \in Nat
        BY SizesOf
      <4> QED  BY <2>1, <4>1, <4>2
    <3> HIDE DEF m
    <3>2. CASE r = {}
      BY <3>1, <3>2
    <3>3. CASE r # {}
      <4>1. PICK x \in r : \A y \in r : x >= y
        BY <3>1, <3>3
      <4>2. CASE x >= m
        BY <3>1, <4>1, <4>2
      <4>3. CASE ~(x >= m)
        <5>1. \A y \in s : m >= y
          BY <3>1, <4>1, <4>3
        <5> QED  BY <3>1, <5>1
      <4> QED  BY <4>2, <4>3
    <3> QED  BY <3>2, <3>3
  <2> QED  BY <2>1
<1>3. T = Nat
  <2>1. T \in SUBSET Nat
    OBVIOUS
  <2> HIDE DEF T
  <2> QED  BY <1>1, <1>2, <2>1, Induction
<1>4. Cardinality(S) \in T
  BY <1>3, FS_CardinalityType
<1>5. \E x \in S : \A y \in S : x >= y
  BY <1>4, FS_CardinalityType
<1> QED  BY <1>5 DEF Max

---------------------------------------------------------------------------
(* Types.                                                                  *)

\* The fields of a record of a book, and what is computed of them.
LEMMA RecordFields ==
    ASSUME NEW b \in Books, NEW t \in b
    PROVE  /\ t \in Record
           /\ t.id \in Nat /\ t.gross \in Nat /\ t.fee + t.tax \in Int
           /\ Net(t) \in Int /\ Gross(t) \in Int
BY ReconcileAssumption DEF IsBook, Record, Net, Gross

\* The bridges of a batch are whole numbers.
LEMMA BridgesAreInt ==
    ASSUME NEW b \in Books, NEW batch \in b
    PROVE  /\ Magnitude(BridgeDifference(b, batch)) \in Int
           /\ Magnitude(JournalDifference(b, batch)) \in Int
<1> DEFINE Side(direction) == {e \in Journal(b, batch) : e.direction = direction}
<1>1. Lines(b, batch) \subseteq b /\ \A direction : Side(direction) \subseteq b
  BY DEF Lines, Journal, OfType, Referencing
<1>2. IsFiniteSet(b)
  BY BookFacts
<1>3. IsFiniteSet(Lines(b, batch)) /\ IsFiniteSet(Side("debit")) /\ IsFiniteSet(Side("credit"))
  BY <1>1, <1>2, FS_Subset
<1>4. MapThenSumSet(Net, Lines(b, batch)) \in Int
  BY <1>1, <1>3, RecordFields, NetsSumToInt
<1>5. MapThenSumSet(Gross, Side("debit")) \in Int /\ MapThenSumSet(Gross, Side("credit")) \in Int
  BY <1>1, <1>3, RecordFields, GrossesSumToInt
<1>6. BridgeDifference(b, batch) \in Int
  <2>1. Net(batch) \in Int
    BY RecordFields
  <2>2. PICK net \in Int : net = Net(batch)
    BY <2>1
  <2>3. PICK sum \in Int : sum = MapThenSumSet(Net, Lines(b, batch))
    BY <1>4
  <2>4. BridgeDifference(b, batch) = net - sum
    BY <2>2, <2>3 DEF BridgeDifference
  <2> QED  BY <2>4
<1>7. JournalDifference(b, batch) \in Int
  BY <1>5 DEF JournalDifference, Posted
<1> QED  BY <1>6, <1>7 DEF Magnitude

\* What the gate answers.
LEMMA HeldAndStatus ==
    ASSUME NEW rule, NEW links, NEW confidence, NEW type, NEW margin, NEW atRisk, NEW held,
           held = Held(rule, links, confidence, type, margin, atRisk)
    PROVE  /\ held \in SUBSET {"confidence", "tier", "amount", "type", "margin", "quality"}
           /\ Status(held) \in {"auto_resolved", "pending_review"}
BY DEF Held, Status

\* A settlement group has its fields, and links the batch at least.
LEMMA SettlementGroupTyped ==
    ASSUME NEW b \in Books, NEW claimed, NEW batch \in OfType(b, "settlement_batch"),
           NEW leg \in BankLegs(b, claimed, batch)
    PROVE  /\ SettlementGroup(b, batch, leg) \in Group
           /\ \A link \in SettlementLinks(b, batch, leg) : link.txn \in b
           /\ SettlementLinks(b, batch, leg) # {}
<1> DEFINE g == SettlementGroup(b, batch, leg)
           links == SettlementLinks(b, batch, leg)
<1>1. batch \in b
  BY DEF OfType
<1>2. leg.bank \subseteq b /\ leg.rule \in {"R2", "R6"}
  BY LegShape DEF OfType
<1>3. \A role \in {"settlement_batch", "settlement_line", "payment", "bank_credit", "ledger"},
         records \in SUBSET b : LinksAs(role, records) \subseteq Link
  BY RecordFields DEF LinksAs, Link
<1>4. Lines(b, batch) \subseteq b /\ Payments(b, batch) \subseteq b /\ Journal(b, batch) \subseteq b
  BY DEF Lines, Payments, PaymentOf, Journal, OfType, Referencing
<1>5. links \subseteq Link /\ \A link \in links : link.txn \in b
  <2>1. links \subseteq Link
    BY <1>1, <1>2, <1>3, <1>4 DEF SettlementLinks
  <2>2. \A link \in links : link.txn \in b
    BY <1>1, <1>2, <1>4 DEF SettlementLinks, LinksAs
  <2> QED  BY <2>1, <2>2
<1>6. Classify(b, batch, leg) \in CaseTypes \cup {"none"}
  BY DEF Classify, CaseTypes
<1>7. batch.id \in Nat
  BY <1>1, RecordFields
<1>8. g \in Group
  <2> DEFINE held == Held(leg.rule, links, Confidence(leg.rule, links, Consistency(b, batch), leg.margin),
                          Classify(b, batch, leg), leg.margin,
                          AmountAtRisk(b, batch, Classify(b, batch, leg)))
  <2>1. g = [subject |-> batch.id, rule |-> leg.rule, links |-> links,
             type |-> Classify(b, batch, leg), held |-> held, status |-> Status(held)]
    BY DEF SettlementGroup
  <2>2. /\ held \in SUBSET {"confidence", "tier", "amount", "type", "margin", "quality"}
        /\ Status(held) \in {"auto_resolved", "pending_review"}
    BY HeldAndStatus
  <2> HIDE DEF held, g, links
  <2> QED  BY <1>2, <1>5, <1>6, <1>7, <2>1, <2>2 DEF Group
<1>9. [txn |-> batch, role |-> "settlement_batch"] \in links
  BY DEF SettlementLinks, LinksAs
<1> QED  BY <1>5, <1>8, <1>9

\* So has an invoice match.
LEMMA InvoiceGroupTyped ==
    ASSUME NEW b \in Books, NEW claimed, NEW g \in InvoiceGroups(b, claimed)
    PROVE  /\ g \in Group
           /\ g.links # {} /\ \A link \in g.links : link.txn \in b
<1>1. PICK invoice \in Free(OfType(b, "invoice"), claimed) :
              \E p \in PaymentsFor(b, claimed, invoice) : g = InvoiceGroup(invoice, p)
  BY InvoiceFields
<1>2. PICK p \in PaymentsFor(b, claimed, invoice) : g = InvoiceGroup(invoice, p)
  BY <1>1
<1>3. invoice \in b /\ p \in b
  BY DEF Free, OfType, PaymentsFor, Referencing
<1> DEFINE links == LinksAs("invoice", {invoice}) \cup LinksAs("payment", {p})
           held  == Held("R4", links, Confidence("R4", links, 10000, NoCompetitor),
                         "none", NoCompetitor, 0)
<1>4. g = [subject |-> invoice.id, rule |-> "R4", links |-> links, type |-> "none",
           held |-> held, status |-> Status(held)]
  BY <1>2 DEF InvoiceGroup
<1>5. links \subseteq Link /\ links # {} /\ \A link \in links : link.txn \in b
  <2>1. invoice \in Record /\ p \in Record
    BY <1>3, RecordFields
  <2>2. links = {[txn |-> invoice, role |-> "invoice"], [txn |-> p, role |-> "payment"]}
    BY DEF LinksAs
  <2> HIDE DEF links
  <2>3. \A link \in links : /\ link.txn \in {invoice, p}
                            /\ link \in Link
    BY <2>1, <2>2 DEF Link
  <2> QED  BY <1>3, <2>2, <2>3
<1>6. /\ held \in SUBSET {"confidence", "tier", "amount", "type", "margin", "quality"}
      /\ Status(held) \in {"auto_resolved", "pending_review"}
  BY HeldAndStatus
<1>7. invoice.id \in Nat
  BY <1>3, RecordFields
<1> HIDE DEF links, held
<1> QED  BY <1>4, <1>5, <1>6, <1>7 DEF Group

\* Cases name a record of the book and an amount.
LEMMA CaseTyped ==
    ASSUME NEW b \in Books, NEW t \in b, NEW detector, NEW type \in CaseTypes, NEW amount \in Int,
           NEW group \in Nat,
           detector \in {"mbc", "amt", "led", "fee", "dat", "lag", "unm", "dup", "rfn", "sts"}
    PROVE  CaseFor(detector, t, type, amount, group) \in Case
BY RecordFields DEF CaseFor, Case

\* What one pass of the loop raises.
LEMMA BatchCasesTyped ==
    ASSUME NEW b \in Books, NEW batch \in OfType(b, "settlement_batch"), NEW leg,
           NEW c \in BatchCases(b, batch, leg)
    PROVE  c \in Case
<1>1. batch \in b
  BY DEF OfType
<1>2. /\ batch.id \in Nat /\ Net(batch) \in Int /\ batch.fee + batch.tax \in Int
      /\ Magnitude(BridgeDifference(b, batch)) \in Int
      /\ Magnitude(JournalDifference(b, batch)) \in Int
  BY <1>1, RecordFields, BridgesAreInt
<1>3. \/ c = CaseFor("mbc", batch, "missing_bank_credit", Net(batch), batch.id)
      \/ c = CaseFor("amt", batch, "amount_mismatch", Magnitude(BridgeDifference(b, batch)), batch.id)
      \/ c = CaseFor("led", batch, "amount_mismatch", Magnitude(JournalDifference(b, batch)), batch.id)
      \/ c = CaseFor("fee", batch, "fee_tax_discrepancy", batch.fee + batch.tax, batch.id)
      \/ c = CaseFor("dat", batch, "date_mismatch", 0, batch.id)
      \/ c = CaseFor("lag", batch, "date_mismatch", 0, batch.id)
  BY DEF BatchCases
<1> QED  BY <1>1, <1>2, <1>3, CaseTyped DEF CaseTypes

\* What the standalone detectors raise.
LEMMA StandaloneTyped ==
    ASSUME NEW b \in Books, NEW firsts \in Firsts(b),
           NEW c \in UnmatchedPayments(b) \cup Duplicates(b, firsts)
                       \cup UnlinkedRefunds(b) \cup StatusConflicts(b)
    PROVE  c \in Case
<1>1. CASE c \in UnmatchedPayments(b)
  <2>1. PICK p \in b : c = CaseFor("unm", p, "unmatched_payment", p.gross, Absent)
    BY <1>1 DEF UnmatchedPayments, OfType
  <2> QED  BY <2>1, CaseTyped, RecordFields DEF CaseTypes, Absent
<1>2. CASE c \in Duplicates(b, firsts)
  <2>1. PICK t \in firsts :
           c = CaseFor("dup", t, "duplicate", Net(t) * (Cardinality(Twins(b, t)) - 1), Absent)
    BY <1>2 DEF Duplicates
  <2>2. \A members \in Repeated(b) : members \subseteq b
    BY DEF Repeated, Twins, OfType
  <2>3. t \in b
    BY <2>2 DEF Firsts
  <2>4. Cardinality(Twins(b, t)) \in Nat
    <3>1. Twins(b, t) \subseteq b
      BY DEF Twins, OfType
    <3> QED  BY <3>1, BookFacts, FS_Subset, FS_CardinalityType
  <2>5. Net(t) * (Cardinality(Twins(b, t)) - 1) \in Int
    <3>1. PICK n \in Int, m \in Nat : n = Net(t) /\ m = Cardinality(Twins(b, t))
      BY <2>3, <2>4, RecordFields
    <3>2. n * (m - 1) \in Int
      OBVIOUS
    <3> QED  BY <3>1, <3>2
  <2> QED  BY <2>1, <2>3, <2>5, CaseTyped DEF CaseTypes, Absent
<1>3. CASE c \in UnlinkedRefunds(b)
  <2>1. PICK r \in b : c = CaseFor("rfn", r, "refund_unlinked", r.gross, Absent)
    BY <1>3 DEF UnlinkedRefunds, OfType
  <2>2. r.gross \in Int /\ "refund_unlinked" \in CaseTypes /\ Absent \in Nat
    BY RecordFields DEF CaseTypes, Absent
  <2> QED  BY <2>1, <2>2, CaseTyped
<1>4. CASE c \in StatusConflicts(b)
  <2>1. PICK invoice \in b : \E p \in b :
           c = CaseFor("sts", invoice, "status_conflict", p.gross, Absent)
    BY <1>4 DEF StatusConflicts, OfType, Referencing
  <2>2. PICK p \in b : c = CaseFor("sts", invoice, "status_conflict", p.gross, Absent)
    BY <2>1
  <2> QED  BY <2>2, CaseTyped, RecordFields DEF CaseTypes, Absent
<1> QED  BY <1>1, <1>2, <1>3, <1>4

\* The largest amount of a group's links, of which there are finitely many.
LEMMA LargestLink ==
    ASSUME NEW b \in Books, NEW g \in Group, g.links # {}, \A link \in g.links : link.txn \in b
    PROVE  Max({LinkAmount(link) : link \in g.links}) \in Int
<1> DEFINE roles == {"settlement_batch", "settlement_line", "payment", "bank_credit", "ledger",
                     "invoice"}
           amounts == {LinkAmount(link) : link \in g.links}
<1>1. g.links \subseteq [txn : b, role : roles]
  BY DEF Group, Link
<1>2. IsFiniteSet(amounts)
  <2> DEFINE pairs == b \X roles
             f == [p \in pairs |-> LinkAmount([txn |-> p[1], role |-> p[2]])]
  <2>1. IsFiniteSet(roles)
    <3>1. IsFiniteSet({"settlement_batch"})
      BY FS_Singleton
    <3>2. IsFiniteSet({"settlement_batch"} \cup {"settlement_line"})
      BY <3>1, FS_AddElement
    <3>3. IsFiniteSet({"settlement_batch", "settlement_line"} \cup {"payment"})
      BY <3>2, FS_AddElement
    <3>4. IsFiniteSet({"settlement_batch", "settlement_line", "payment"} \cup {"bank_credit"})
      BY <3>3, FS_AddElement
    <3>5. IsFiniteSet({"settlement_batch", "settlement_line", "payment", "bank_credit"}
                        \cup {"ledger"})
      BY <3>4, FS_AddElement
    <3>6. IsFiniteSet({"settlement_batch", "settlement_line", "payment", "bank_credit", "ledger"}
                        \cup {"invoice"})
      BY <3>5, FS_AddElement
    <3> QED  BY <3>6
  <2>2. IsFiniteSet(pairs)
    BY <2>1, BookFacts, FS_Product
  <2>3. IsFiniteSet({f[p] : p \in pairs})
    <3>1. f \in Surjection(pairs, {f[p] : p \in pairs})
      BY DEF Surjection
    <3> HIDE DEF f, pairs
    <3> QED  BY <2>2, <3>1, FS_Surjection
  <2>4. ASSUME NEW link \in g.links
        PROVE  LinkAmount(link) \in {f[p] : p \in pairs}
    <3>1. <<link.txn, link.role>> \in pairs
      BY <1>1
    <3>2. link = [txn |-> link.txn, role |-> link.role]
      BY <1>1
    <3>3. f[<<link.txn, link.role>>] = LinkAmount(link)
      BY <3>1, <3>2
    <3> HIDE DEF f
    <3> QED  BY <3>1, <3>3
  <2>5. amounts \subseteq {f[p] : p \in pairs}
    BY <2>4
  <2> QED  BY <2>3, <2>5, FS_Subset
<1>3. amounts \subseteq Int /\ amounts # {}
  <2>1. \A link \in g.links : LinkAmount(link) \in Int
    BY RecordFields DEF LinkAmount
  <2> QED  BY <2>1
<1> QED  BY <1>2, <1>3, LargestOf

\* The groups of a run have links, to records of its book.
LEMMA GroupsHaveLinks ==
    ASSUME IInv, NEW g \in groups
    PROVE  g.links # {} /\ \A link \in g.links : link.txn \in book
<1>1. CASE IsSettlement(g)
  <2>1. PICK batch \in OfType(book, "settlement_batch"), claimed \in SUBSET Ids(book) :
           \E leg \in BankLegs(book, claimed, batch) : g = SettlementGroup(book, batch, leg)
    BY <1>1 DEF IsSettlement
  <2>2. PICK leg \in BankLegs(book, claimed, batch) : g = SettlementGroup(book, batch, leg)
    BY <2>1
  <2> QED  BY <2>2, SettlementFields, SettlementGroupTyped DEF IInv
<1>2. CASE IsInvoiceMatch(g)
  BY <1>2, InvoiceGroupTyped DEF IsInvoiceMatch, IInv
<1> QED  BY <1>1, <1>2 DEF IInv, GroupsAreMade

\* Groups and cases keep their types; what the backstop adds needs the
\* invariant, because an amount is the largest of a group's links only where
\* the group has some.
Typed == groups \subseteq Group /\ cases \subseteq Case
         /\ stage \in {"settlements", "exceptions", "queue", "done"}

\* One step of a run.
LEMMA TypedStep ==
    ASSUME IInv, Typed, [Next]_vars
    PROVE  Typed'
<1>1. book \in Books
  BY DEF IInv
<1>2. ASSUME NEW batch \in Pending, NEW leg \in BankLegs(book, consumed, batch),
             ReconcileBatch(batch, leg)
      PROVE  Typed'
  <2>1. batch \in OfType(book, "settlement_batch")
    BY DEF Pending
  <2>2. /\ groups' = groups \cup {SettlementGroup(book, batch, leg)}
        /\ cases' = cases \cup BatchCases(book, batch, leg)
        /\ stage' = stage
    BY <1>2 DEF ReconcileBatch
  <2> QED  BY <1>1, <2>1, <2>2, SettlementGroupTyped, BatchCasesTyped DEF Typed
<1>3. CASE MatchInvoices
  <2>1. /\ groups' = groups \cup InvoiceGroups(book, consumed)
        /\ cases' = cases /\ stage' = "exceptions"
    BY <1>3 DEF MatchInvoices
  <2> QED  BY <1>1, <2>1, InvoiceGroupTyped DEF Typed
<1>4. CASE DetectStandalone
  <2>1. PICK firsts \in Firsts(book) :
           cases' = cases \cup UnmatchedPayments(book) \cup Duplicates(book, firsts)
                          \cup UnlinkedRefunds(book) \cup StatusConflicts(book)
    BY <1>4 DEF DetectStandalone
  <2>2. groups' = groups /\ stage' = "queue"
    BY <1>4 DEF DetectStandalone
  <2> QED  BY <1>1, <2>1, <2>2, StandaloneTyped DEF Typed
<1>5. CASE QueueReviews
  <2> DEFINE review(g) == [detector |-> "rev", subject |-> g.subject, type |-> "status_conflict",
                           amount |-> Max({LinkAmount(link) : link \in g.links}),
                           group |-> g.subject]
  <2>1. /\ cases' \subseteq cases \cup {review(g) : g \in groups}
        /\ groups' = groups /\ stage' = "done"
    BY <1>5 DEF QueueReviews
  <2>2. ASSUME NEW g \in groups
        PROVE  review(g) \in Case
    <3>1. g \in Group /\ g.subject \in Nat
      BY DEF Typed, Group
    <3>2. Max({LinkAmount(link) : link \in g.links}) \in Int
      BY <1>1, <3>1, GroupsHaveLinks, LargestLink
    <3> QED  BY <3>1, <3>2 DEF Case, CaseTypes
  <2> HIDE DEF review
  <2> QED  BY <2>1, <2>2 DEF Typed
<1>6. CASE UNCHANGED vars
  BY <1>6 DEF Typed, vars
<1> QED  BY <1>2, <1>3, <1>4, <1>5, <1>6 DEF Next

\* The state of a run has its types throughout: every group links records of
\* the book, every case has a type of the catalogue and an amount (models.py).
THEOREM Typing == Spec => []TypeOK
<1>1. Init => Typed
  BY DEF Init, Typed
<1>2. IInv /\ Typed /\ [Next]_vars => Typed'
  BY TypedStep
<1>3. IInv /\ Typed => TypeOK
  BY ReconcileAssumption DEF IInv, Typed, TypeOK
<1> QED  BY <1>1, <1>2, <1>3, Invariance, PTL DEF Spec
=============================================================================
