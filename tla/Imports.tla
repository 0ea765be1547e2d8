------------------------------ MODULE Imports ------------------------------
(***************************************************************************)
(* Uploading a source file (routers/imports.py, create_import) over the    *)
(* Postgres repository.  Each repository call is one commit and the        *)
(* handler suspends at each, so an upload is a walk through the steps      *)
(*   key -> hash -> create -> load -> save -> audit -> done                *)
(* that other uploads, the demo reset and the end of the process fall      *)
(* between.  A request creates at most one import: its id names both.      *)
(***************************************************************************)
EXTENDS Rows

CONSTANTS
    Requests,    \* the uploads; a retry is another request with the same key and file
    Files,       \* the distinct contents: equal content, equal SHA-256
    Content,     \* Content[f]: the header's columns and the rows below it
    Declared,    \* the datasets that uploads are declared as
    Keys,        \* idempotency keys that clients send
    None,        \* no key, no answer
    MaxResets    \* bound: how often the demo data is reset

ASSUME ImportsAssumption ==
    /\ None \notin Keys \cup Requests \cup Files \cup Datasets
    /\ None \notin {"completed", "failed", "duplicate"}
    /\ Declared \subseteq Datasets
    /\ \A f \in Files : /\ Len(Content[f].rows) \in Nat
                       /\ DOMAIN Content[f].rows = 1..Len(Content[f].rows)
    /\ MaxResets \in Nat

VARIABLES
    imports,     \* durable: the imports table, one row per request that created one
    loaded,      \* durable: loaded[r]: the canonical rows that import r inserted
    audited,     \* durable: the imports with an "imported" audit event
    requests,    \* how far each request has got
    resets       \* resets so far

vars == <<imports, loaded, audited, requests, resets>>

NoImport == [status |-> "absent", file |-> None, dataset |-> None, key |-> None,
             accepted |-> 0, rejected |-> 0]
Idle     == [pc |-> "idle", file |-> None, dataset |-> None, key |-> None,
             final |-> None, answer |-> None]

Statuses == {"absent", "pending", "completed", "failed", "duplicate"}
Working  == {"key", "hash", "create", "load", "save", "audit"}

ImportRec  == [status : Statuses, file : Files \cup {None},
               dataset : Datasets \cup {None}, key : Keys \cup {None},
               accepted : Nat, rejected : Nat]
RequestRec == [pc : {"idle", "done", "error"} \cup Working,
               file : Files \cup {None}, dataset : Datasets \cup {None},
               key : Keys \cup {None},
               final : {"completed", "failed", "duplicate", None},
               answer : Requests \cup {None}]

Init ==
    /\ imports  = [r \in Requests |-> NoImport]
    /\ loaded   = [r \in Requests |-> {}]
    /\ audited  = {}
    /\ requests = [r \in Requests |-> Idle]
    /\ resets   = 0

----------------------------------------------------------------------------
(* Reading the file: pure, so part of the step after the row is created. *)

RequiredColumns ==
    [payments           |-> {"payment_id", "amount", "currency", "status", "created_at"},
     settlement_batches |-> {"batch_id", "gross", "fee", "tax", "net", "status", "settled_at"},
     settlement_lines   |-> {"settlement_id", "batch_id", "payment_id",
                             "gross", "fee", "tax", "net"},
     bank_statement     |-> {"bank_txn_id", "date", "amount", "direction"},
     invoices           |-> {"invoice_id", "amount_due", "status", "issued_at"},
     ledger             |-> {"journal_id", "account", "debit", "credit", "posted_at"}]

HasHeader(f, d) == RequiredColumns[d] \subseteq Content[f].columns

AcceptedRows(f, d) ==
    {i \in DOMAIN Content[f].rows :
        HasHeader(f, d) /\ Normalise(d, Content[f].rows[i]).code = "ok"}
AcceptedIds(f, d) == {Content[f].rows[i].id : i \in AcceptedRows(f, d)}

Wholes == {AcceptedIds(f, d) : f \in Files, d \in Datasets}

\* Two rows of the file have one external id.
RepeatsAnId(f, d) ==
    \E i, j \in AcceptedRows(f, d) : i # j /\ Content[f].rows[i].id = Content[f].rows[j].id

----------------------------------------------------------------------------
(* The repository *)

Exists(r) == imports[r].status # "absent"

ImportsByKey(k)  == {r \in Requests : Exists(r) /\ imports[r].key = k}

\* find_import_by_hash: whatever has not failed, finished or not.
ImportsByHash(f) == {r \in Requests : imports[r].file = f
                                      /\ imports[r].status \notin {"absent", "failed"}}

\* Variant: nothing in the schema keeps a key unique.
KeyIsAlwaysFree(k) == TRUE

\* create_import: source_files by upsert, then the row; uq_import_idem may refuse it.
KeyIsFree(k) == k = None \/ ImportsByKey(k) = {}
CreateRow(r, f, d, k) ==
    imports' = [imports EXCEPT ![r] = [NoImport EXCEPT
                   !.status = "pending", !.file = f, !.dataset = d, !.key = k]]

\* Variant: an id that is there already does not refuse the insert.
LoadableAgain(r, f, d) == Exists(r) /\ ~RepeatsAnId(f, d)

\* Variant: one commit per table, interrupted after the first row.
InsertOneRow(r, f, d) ==
    loaded' = [loaded EXCEPT ![r] = {CHOOSE id \in AcceptedIds(f, d) : TRUE}]

\* add_transactions: source and canonical rows in one commit, or an error when
\* the import is gone or an external id is already there.
Loadable(r, f, d) ==
    /\ Exists(r)
    /\ ~RepeatsAnId(f, d)
    /\ \A other \in Requests : loaded[other] \cap AcceptedIds(f, d) = {}
InsertRows(r, f, d) == loaded' = [loaded EXCEPT ![r] = AcceptedIds(f, d)]

\* Variant: the rows that were refused are counted from the other end.
WriteOutcomeNegated(r, status, accepted, rejected) ==
    imports' = IF Exists(r)
               THEN [imports EXCEPT ![r].status = status, ![r].accepted = accepted,
                                    ![r].rejected = rejected - accepted]
               ELSE imports

\* save_import: an update, which finds no row after a reset.
WriteOutcome(r, status, accepted, rejected) ==
    imports' = IF Exists(r)
               THEN [imports EXCEPT ![r].status = status, ![r].accepted = accepted,
                                    ![r].rejected = rejected]
               ELSE imports

\* all_transactions: what a reconciliation run reads.
Visible(r) == IF imports[r].status = "completed" THEN loaded[r] ELSE {}

----------------------------------------------------------------------------
(* The handler *)

Goto(r, pc)       == requests' = [requests EXCEPT ![r].pc = pc]
Answer(r, import) == requests' = [requests EXCEPT ![r].pc = "done", ![r].answer = import]
Raise(r)          == Goto(r, "error")

Submit(r) ==
    /\ requests[r].pc = "idle"
    /\ \E f \in Files, d \in Declared, k \in Keys \cup {None} :
          requests' = [requests EXCEPT ![r] = [Idle EXCEPT
              !.pc = IF k = None THEN "hash" ELSE "key",
              !.file = f, !.dataset = d, !.key = k]]
    /\ UNCHANGED <<imports, loaded, audited, resets>>

\* A key that is known replays the import it named.
FindByKey(r) ==
    /\ requests[r].pc = "key"
    /\ IF ImportsByKey(requests[r].key) = {} THEN Goto(r, "hash")
       ELSE \E import \in ImportsByKey(requests[r].key) : Answer(r, import)
    /\ UNCHANGED <<imports, loaded, audited, resets>>

FindByHash(r) ==
    /\ requests[r].pc = "hash"
    /\ requests' = [requests EXCEPT ![r].pc = "create",
           ![r].final = IF ImportsByHash(requests[r].file) = {} THEN None ELSE "duplicate"]
    /\ UNCHANGED <<imports, loaded, audited, resets>>

\* The row, and then everything up to the next call: header, columns, rows.
Create(r) ==
    LET q == requests[r]
        final == CASE q.final = "duplicate"          -> "duplicate"
                   [] ~HasHeader(q.file, q.dataset) -> "failed"
                   [] OTHER                         -> "completed"
    IN  /\ q.pc = "create"
        /\ IF KeyIsFree(q.key)
           THEN /\ CreateRow(r, q.file, q.dataset, q.key)
                /\ requests' = [requests EXCEPT ![r].final = final,
                       ![r].pc = IF final = "completed" THEN "load" ELSE "save"]
           ELSE Raise(r) /\ UNCHANGED imports
        /\ UNCHANGED <<loaded, audited, resets>>

\* No accepted row, no call.
Load(r) ==
    LET f == requests[r].file
        d == requests[r].dataset
    IN  /\ requests[r].pc = "load"
        /\ IF AcceptedIds(f, d) = {}      THEN Goto(r, "save") /\ UNCHANGED loaded
           ELSE IF Loadable(r, f, d)      THEN Goto(r, "save") /\ InsertRows(r, f, d)
                                          ELSE Raise(r) /\ UNCHANGED loaded
        /\ UNCHANGED <<imports, audited, resets>>

\* Counts are kept for a file that was read to its end.
Save(r) ==
    LET q        == requests[r]
        read     == q.final = "completed"
        accepted == Cardinality(AcceptedRows(q.file, q.dataset))
    IN  /\ q.pc = "save"
        /\ WriteOutcome(r, q.final,
               IF read THEN accepted ELSE 0,
               IF read THEN Len(Content[q.file].rows) - accepted ELSE 0)
        /\ IF read THEN Goto(r, "audit") ELSE Answer(r, r)
        /\ UNCHANGED <<loaded, audited, resets>>

Audit(r) ==
    /\ requests[r].pc = "audit"
    /\ audited' = audited \cup {r}
    /\ Answer(r, r)
    /\ UNCHANGED <<imports, loaded, resets>>

\* A call raises, or the process ends: nothing is undone and nobody returns.
Die(r) ==
    /\ requests[r].pc \in Working
    /\ Raise(r)
    /\ UNCHANGED <<imports, loaded, audited, resets>>

\* reset_reconciliation_data, as far as uploads go.
Reset ==
    /\ resets < MaxResets
    /\ resets' = resets + 1
    /\ imports' = [r \in Requests |-> NoImport]
    /\ loaded'  = [r \in Requests |-> {}]
    /\ audited' = {}
    /\ UNCHANGED requests

Upload(r) == Submit(r) \/ FindByKey(r) \/ FindByHash(r) \/ Create(r)
             \/ Load(r) \/ Save(r) \/ Audit(r) \/ Die(r)

Next == (\E r \in Requests : Upload(r)) \/ Reset

Spec == Init /\ [][Next]_vars

----------------------------------------------------------------------------
(* Properties *)

TypeOK ==
    /\ imports  \in [Requests -> ImportRec]
    /\ loaded   \in [Requests -> SUBSET UNION Wholes]
    /\ audited  \subseteq Requests
    /\ requests \in [Requests -> RequestRec]
    /\ resets   \in 0..MaxResets

\* An import that says completed holds every accepted row of its file and
\* nothing else, and one that says failed or duplicate holds none, wherever an
\* upload raised or the process ended (imports.py:164, store_postgres.py:252).
CompletedImportIsWhole ==
    \A r \in Requests :
        /\ imports[r].status = "completed" =>
               /\ loaded[r] = AcceptedIds(imports[r].file, imports[r].dataset)
               /\ imports[r].accepted = Cardinality(loaded[r])
               /\ imports[r].accepted + imports[r].rejected = Len(Content[imports[r].file].rows)
        /\ imports[r].status \in {"absent", "failed", "duplicate"} => loaded[r] = {}

\* However two uploads of one file overlap, its rows are counted once
\* (imports.py:103: "a second copy of a bank statement inflates every total").
FileIsLoadedOnce ==
    \A r, s \in Requests :
        r # s /\ Visible(r) # {} /\ imports[r].dataset = imports[s].dataset
              /\ imports[r].file = imports[s].file => Visible(s) = {}

\* Everybody who sent one key and got an answer got the same import, as long
\* as it is there (imports.py:91, docs/01-PRD.md:142).
OneAnswerPerKey ==
    \A r, s \in Requests :
        LET a == requests[r].answer
            b == requests[s].answer
        IN  /\ requests[r].key = requests[s].key /\ requests[r].key # None
            /\ a # None /\ b # None
            => (Exists(a) /\ Exists(b) => a = b)

\* An upload is refused with "identical content was already imported as ..."
\* (imports.py:113) only when some import of that content has been completed.
DuplicateMeansLoaded ==
    \A r \in Requests :
        imports[r].status = "duplicate" =>
            \E s \in Requests : /\ imports[s].file = imports[r].file
                                /\ imports[s].status = "completed"

\* Uploads implement Intake: what the engine can read changes by whole files.
Abstract == INSTANCE Intake WITH
                Uploads   <- Requests,
                Wholes    <- Wholes,
                published <- [r \in Requests |-> Visible(r)]
ImplementsIntake == Abstract!Spec

----------------------------------------------------------------------------
(* The invariant that the properties follow from: what an import and its   *)
(* rows are at each step of the request that made them.                    *)

Fresh(r) == requests[r].pc \in {"idle", "key", "hash", "create"}

\* The rows of import r, where it has any.
Rows(r) == AcceptedIds(requests[r].file, requests[r].dataset)

RequestOK(r) ==
    /\ Fresh(r) => ~Exists(r)
    /\ requests[r].pc \in Working => requests[r].answer = None
    /\ requests[r].pc # "idle" => requests[r].file \in Files /\ requests[r].dataset \in Datasets
    /\ requests[r].pc = "load" => requests[r].final = "completed"
    /\ requests[r].pc = "save" => requests[r].final # None

ImportOK(r) ==
    Exists(r) =>
        /\ imports[r].file = requests[r].file
        /\ imports[r].dataset = requests[r].dataset
        /\ imports[r].key = requests[r].key

\* Rows are those of one commit, and an import that has been saved has them all.
RowsOK(r) ==
    /\ loaded[r] # {} => /\ Exists(r)
                         /\ loaded[r] = Rows(r)
                         /\ requests[r].pc # "load"
                         /\ requests[r].pc = "save" => requests[r].final = "completed"
                         /\ imports[r].status \in {"pending", "completed"}
    /\ requests[r].pc \in {"load", "save"} => imports[r].status \in {"absent", "pending"}
    /\ Exists(r) /\ requests[r].pc = "save" /\ requests[r].final = "completed" =>
           loaded[r] = Rows(r) /\ ~RepeatsAnId(requests[r].file, requests[r].dataset)

NoRowTwice == \A r, s \in Requests : r # s => loaded[r] \cap loaded[s] = {}
OneImportPerKey ==
    \A r, s \in Requests : Exists(r) /\ Exists(s) /\ imports[r].key = imports[s].key
                          /\ imports[r].key # None => r = s

\* An answer names an import that has been created, under the key that was sent.
AnswerOK(r) ==
    LET a == requests[r].answer
    IN  a # None => /\ ~Fresh(a)
                    /\ requests[r].key # None => requests[a].key = requests[r].key

IInv ==
    /\ TypeOK
    /\ \A r \in Requests : RequestOK(r) /\ ImportOK(r) /\ RowsOK(r) /\ AnswerOK(r)
    /\ NoRowTwice /\ OneImportPerKey
    /\ CompletedImportIsWhole
=============================================================================
