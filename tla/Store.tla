------------------------------- MODULE Store -------------------------------
(***************************************************************************)
(* The Postgres-backed repository (store_postgres.py) as far as runs,      *)
(* exception cases, verdicts and the audit trail go.  Every method that    *)
(* awaits the database opens one session and commits once, so one method   *)
(* is one atomic step on the durable variables; what it then keeps in the  *)
(* process (`_results`, `_decisions`) is a further step, because other     *)
(* requests run between the commit and the line after it.                  *)
(***************************************************************************)
EXTENDS Naturals, Sequences, FiniteSets

CONSTANTS
    RunIds,      \* the uuid4 values a process can mint for runs
    Cases,       \* exception case ids: derived from the data, equal in every run over it
    Users,       \* accounts that call the API
    Role,        \* Role[u]: the account's role
    MaxData,     \* bound: number of imports that complete between two resets
    Found,       \* Found[d][c]: what the engine says of case c over the d-th population
    None,        \* no run, nobody
    FaultPoints, \* the calls at which the database may raise an error
    MaxFaults    \* bound: how many errors the database raises

Amounts  == {"absent", "within", "material"}
Roles    == {"analyst", "reviewer", "controller", "admin"}
Verdicts == {"approved", "rejected", "overridden", "dismissed", "auto_resolved"}
Statuses == {"absent", "queued", "running", "completed", "failed"}

\* The calls of the three handlers that write, named for what they write.
CallPoints == {"create", "audit_start",
               "set_running", "load", "commit", "complete", "audit_end", "fail",
               "decision", "audit_decision"}

ASSUME StoreAssumption ==
    /\ MaxData \in Nat
    /\ Role \in [Users -> Roles]
    /\ Found \in [0..MaxData -> [Cases -> Amounts]]
    /\ \A c \in Cases : Found[0][c] = "absent"
    /\ None \notin RunIds \cup Users \cup Cases
    /\ None \notin [Cases -> Amounts]
    /\ FaultPoints \subseteq CallPoints
    /\ MaxFaults \in Nat

VARIABLES
    data,        \* durable: how many imports all_transactions reads
    runs,        \* durable: reconciliation_runs.status, "absent" when there is no row
    minted,      \* run ids in the order of queued_at; an id is never minted twice
    rows,        \* durable: exception_cases
    metrics,     \* durable: run_metrics, what the run's commit said it found
    audit,       \* durable: decision_audit_events
    results,     \* volatile: _results, a dict in insertion order
    decisions,   \* volatile: _decisions
    faults       \* errors raised so far

durableVars  == <<data, runs, minted, rows, metrics, audit>>
volatileVars == <<results, decisions>>
storeVars    == <<durableVars, volatileVars, faults>>

NoRow      == [run |-> None, amount |-> "absent", verdict |-> "open", by |-> None]
NoDecision == [verdict |-> "open", by |-> None]

Row      == [run: RunIds \cup {None}, amount: Amounts,
             verdict: Verdicts \cup {"open"}, by: Users \cup {None}]
Decision == [verdict: Verdicts \cup {"open"}, by: Users \cup {None}]
Event    == [entity: RunIds \cup Cases,
             action: Verdicts \cup {"run_started", "run_completed"},
             by: Users \cup {None}]
Result   == [run: RunIds, found: [Cases -> Amounts]]

StoreTypeOK ==
    /\ data \in 0..MaxData
    /\ runs \in [RunIds -> Statuses]
    /\ minted \in Seq(RunIds)
    /\ rows \in [Cases -> Row]
    /\ metrics \in [RunIds -> [Cases -> Amounts] \cup {None}]
    /\ audit \subseteq Event
    /\ results \in Seq(Result)
    /\ decisions \in [Cases -> Decision]
    /\ faults \in 0..MaxFaults

StoreInit ==
    /\ data = 0
    /\ runs = [r \in RunIds |-> "absent"]
    /\ minted = <<>>
    /\ rows = [c \in Cases |-> NoRow]
    /\ metrics = [r \in RunIds |-> None]
    /\ audit = {}
    /\ results = <<>>
    /\ decisions = [c \in Cases |-> NoDecision]
    /\ faults = 0

Minted == {minted[i] : i \in 1..Len(minted)}

\* An import that completes: all_transactions reads one more file from now on.
ImportCompletes ==
    /\ data < MaxData
    /\ data' = data + 1
    /\ UNCHANGED <<runs, minted, rows, metrics, audit, results, decisions, faults>>

\* The database raises at one of the calls, instead of doing what it was asked.
Raise(point) ==
    /\ point \in FaultPoints
    /\ faults < MaxFaults
    /\ faults' = faults + 1

---------------------------------------------------------------------------
(* The repository's methods.  Each says what its own variables become.     *)

CreateRun(r) ==
    /\ r \notin Minted
    /\ runs' = [runs EXCEPT ![r] = "queued"]
    /\ minted' = Append(minted, r)

\* Variant: an upsert, which brings a deleted row back.
SaveRunUpsert(r, status) == runs' = [runs EXCEPT ![r] = status]

\* An UPDATE: it changes no row when the row is gone.
SaveRun(r, status) ==
    runs' = IF runs[r] = "absent" THEN runs ELSE [runs EXCEPT ![r] = status]

\* Variant: the delete takes every other run's cases, not only the same ids.
SaveRunResultAlone(r, found) ==
    /\ rows' = [c \in Cases |->
          IF found[c] # "absent"
          THEN [run |-> r, amount |-> found[c], verdict |-> "open", by |-> None]
          ELSE NoRow]
    /\ metrics' = [metrics EXCEPT ![r] = found]

\* The rows of this run, and any earlier copy of the same case ids, are
\* deleted, this run's cases are inserted as open, and run_metrics says what
\* was found: one commit.
SaveRunResult(r, found) ==
    /\ rows' = [c \in Cases |->
          IF found[c] # "absent"
          THEN [run |-> r, amount |-> found[c], verdict |-> "open", by |-> None]
          ELSE IF rows[c].run = r THEN NoRow ELSE rows[c]]
    /\ metrics' = [metrics EXCEPT ![r] = found]

CacheResult(r, found) == results' = Append(results, [run |-> r, found |-> found])

\* get_case scans the results in insertion order and returns the first hit.
CaseServed(c) == \E i \in 1..Len(results) : results[i].found[c] # "absent"

AmountServed(c) ==
    LET first == CHOOSE i \in 1..Len(results) :
                    /\ results[i].found[c] # "absent"
                    /\ \A j \in 1..(i - 1) : results[j].found[c] = "absent"
    IN  results[first].found[c]

\* Variant: the audit event is left to the router.
CommitDecisionAlone(c, verdict, u) ==
    /\ rows' = IF rows[c].run = None THEN rows
               ELSE [rows EXCEPT ![c].verdict = verdict, ![c].by = u]
    /\ UNCHANGED audit

\* The UPDATE of the case row and the INSERT of its audit event: one commit.
CommitDecision(c, verdict, u) ==
    /\ rows' = IF rows[c].run = None THEN rows
               ELSE [rows EXCEPT ![c].verdict = verdict, ![c].by = u]
    /\ audit' = audit \cup {[entity |-> c, action |-> verdict, by |-> u]}

\* Variant: the fields are swapped.
CacheDecisionSwapped(c, verdict, u) ==
    decisions' = [decisions EXCEPT ![c] = [verdict |-> u, by |-> verdict]]

CacheDecision(c, verdict, u) ==
    decisions' = [decisions EXCEPT ![c] = [verdict |-> verdict, by |-> u]]

AddAudit(entity, action, u) ==
    audit' = audit \cup {[entity |-> entity, action |-> action, by |-> u]}

\* TRUNCATE ... CASCADE of the working set; the caches are cleared after it.
Truncate ==
    /\ data' = 0
    /\ runs' = [r \in RunIds |-> "absent"]
    /\ rows' = [c \in Cases |-> NoRow]
    /\ metrics' = [r \in RunIds |-> None]
    /\ audit' = {}
    /\ UNCHANGED minted

\* A new process: the class-level dicts are empty again.
ForgetCaches ==
    /\ results' = <<>>
    /\ decisions' = [c \in Cases |-> NoDecision]
=============================================================================
