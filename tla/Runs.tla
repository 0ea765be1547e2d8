-------------------------------- MODULE Runs --------------------------------
(***************************************************************************)
(* Reconciliation runs (routers/runs.py): the start_run handler and the    *)
(* background task _execute_run, one action per repository call.  A call   *)
(* may raise when the database does: those are the ...Raises actions.      *)
(***************************************************************************)
EXTENDS Store

CONSTANT
    Starters     \* users with a POST request in flight

ASSUME RunsAssumption == Starters \subseteq Users

VARIABLES
    starts,      \* starts[q]: how far the request has got, and the run it created
    tasks        \* tasks[r]: how far the background task has got, and what it computed

runVars == <<starts, tasks>>

Nothing   == [c \in Cases |-> "absent"]
IdleStart == [pc |-> "idle", run |-> None]
NoTask    == [pc |-> "none", found |-> Nothing]

StartRec == [pc: {"idle", "read", "checked", "created"}, run: RunIds \cup {None}]
TaskRec  == [pc: {"none", "scheduled", "fetched", "running", "computed", "committed",
                  "cached", "completed", "failing"},
             found: [Cases -> Amounts]]

RunsTypeOK ==
    /\ starts \in [Starters -> StartRec]
    /\ tasks \in [RunIds -> TaskRec]

RunsInit ==
    /\ starts = [q \in Starters |-> IdleStart]
    /\ tasks = [r \in RunIds |-> NoTask]

---------------------------------------------------------------------------
(* start_run                                                               *)

\* Every identifier a process mints is new; RunIds bounds how many there are.
IdsLeft == Len(minted) + Cardinality({q \in Starters : starts[q].pc # "idle"})
             < Cardinality(RunIds)

\* all_transactions: with nothing imported the answer is a 409 at once.
StartRead(q) ==
    /\ starts[q].pc = "idle"
    /\ IdsLeft
    /\ data > 0
    /\ starts' = [starts EXCEPT ![q].pc = "read"]
    /\ UNCHANGED <<storeVars, tasks>>

SomeRunIsRunning == \E r \in RunIds : runs[r] = "running"

\* list_runs, and the 409 RUN_IN_PROGRESS.
StartCheck(q) ==
    /\ starts[q].pc = "read"
    /\ starts' = [starts EXCEPT ![q].pc = IF SomeRunIsRunning THEN "idle" ELSE "checked"]
    /\ UNCHANGED <<storeVars, tasks>>

StartCreate(q) ==
    /\ starts[q].pc = "checked"
    /\ \E r \in RunIds :
          /\ CreateRun(r)
          /\ starts' = [starts EXCEPT ![q] = [pc |-> "created", run |-> r]]
    /\ UNCHANGED <<data, rows, metrics, audit, results, decisions, faults, tasks>>

\* The audit event, the background task and the 202.
StartAccept(q) ==
    /\ starts[q].pc = "created"
    /\ AddAudit(starts[q].run, "run_started", q)
    /\ tasks' = [tasks EXCEPT ![starts[q].run].pc = "scheduled"]
    /\ starts' = [starts EXCEPT ![q] = IdleStart]
    /\ UNCHANGED <<data, runs, minted, rows, metrics, results, decisions, faults>>

\* A 500: a run that was created stays queued and nothing executes it.
StartRaises(q) ==
    /\ \/ starts[q].pc = "checked" /\ Raise("create")
       \/ starts[q].pc = "created" /\ Raise("audit_start")
    /\ starts' = [starts EXCEPT ![q] = IdleStart]
    /\ UNCHANGED <<durableVars, volatileVars, tasks>>

Start(q) ==
    \/ StartRead(q) \/ StartCheck(q) \/ StartCreate(q)
    \/ StartAccept(q) \/ StartRaises(q)

---------------------------------------------------------------------------
(* _execute_run                                                            *)

\* get_run: after a reset there is no record and the task returns.
TaskFetch(r) ==
    /\ tasks[r].pc = "scheduled"
    /\ tasks' = IF runs[r] = "absent"
                THEN [tasks EXCEPT ![r] = NoTask]
                ELSE [tasks EXCEPT ![r].pc = "fetched"]
    /\ UNCHANGED <<storeVars, starts>>

TaskSetRunning(r) ==
    /\ tasks[r].pc = "fetched"
    /\ SaveRun(r, "running")
    /\ tasks' = [tasks EXCEPT ![r].pc = "running"]
    /\ UNCHANGED <<data, minted, rows, metrics, audit, results, decisions, faults, starts>>

\* Variant: the result is served as soon as it is computed.
TaskComputeServing(r) ==
    /\ tasks[r].pc = "running"
    /\ tasks' = [tasks EXCEPT ![r] = [pc |-> "computed", found |-> Found[data]]]
    /\ CacheResult(r, Found[data])
    /\ UNCHANGED <<durableVars, decisions, faults, starts>>

\* all_transactions, and the engine: execute is one call without an await.
TaskCompute(r) ==
    /\ tasks[r].pc = "running"
    /\ tasks' = [tasks EXCEPT ![r] = [pc |-> "computed", found |-> Found[data]]]
    /\ UNCHANGED <<storeVars, starts>>

\* Variant: nothing ties a case to a run that exists.
TaskCommitUnchecked(r) ==
    /\ tasks[r].pc = "computed"
    /\ SaveRunResult(r, tasks[r].found)
    /\ tasks' = [tasks EXCEPT ![r].pc = "committed"]
    /\ UNCHANGED <<data, runs, minted, audit, results, decisions, faults, starts>>

\* The commit of save_run_result.  Without the run's row the foreign keys
\* refuse the insert, and the handler of `except` takes over.
TaskCommit(r) ==
    /\ tasks[r].pc = "computed"
    /\ IF runs[r] = "absent"
       THEN /\ tasks' = [tasks EXCEPT ![r].pc = "failing"]
            /\ UNCHANGED <<rows, metrics>>
       ELSE /\ SaveRunResult(r, tasks[r].found)
            /\ tasks' = [tasks EXCEPT ![r].pc = "committed"]
    /\ UNCHANGED <<data, runs, minted, audit, results, decisions, faults, starts>>

\* The last line of save_run_result, after the session is closed.
TaskCache(r) ==
    /\ tasks[r].pc = "committed"
    /\ CacheResult(r, tasks[r].found)
    /\ tasks' = [tasks EXCEPT ![r].pc = "cached"]
    /\ UNCHANGED <<durableVars, decisions, faults, starts>>

TaskComplete(r) ==
    /\ tasks[r].pc = "cached"
    /\ SaveRun(r, "completed")
    /\ tasks' = [tasks EXCEPT ![r].pc = "completed"]
    /\ UNCHANGED <<data, minted, rows, metrics, audit, results, decisions, faults, starts>>

TaskAudit(r) ==
    /\ tasks[r].pc = "completed"
    /\ AddAudit(r, "run_completed", None)
    /\ tasks' = [tasks EXCEPT ![r] = NoTask]
    /\ UNCHANGED <<data, runs, minted, rows, metrics, results, decisions, faults, starts>>

\* Variant: an error inside the try block ends the task.
TaskRaisesUncaught(r) ==
    /\ \/ tasks[r].pc = "running"   /\ Raise("load")
       \/ tasks[r].pc = "computed"  /\ Raise("commit")
       \/ tasks[r].pc = "cached"    /\ Raise("complete")
       \/ tasks[r].pc = "completed" /\ Raise("audit_end")
    /\ tasks' = [tasks EXCEPT ![r] = NoTask]
    /\ UNCHANGED <<durableVars, volatileVars, starts>>

\* An error inside the try block.
TaskRaises(r) ==
    /\ \/ tasks[r].pc = "running"   /\ Raise("load")
       \/ tasks[r].pc = "computed"  /\ Raise("commit")
       \/ tasks[r].pc = "cached"    /\ Raise("complete")
       \/ tasks[r].pc = "completed" /\ Raise("audit_end")
    /\ tasks' = [tasks EXCEPT ![r].pc = "failing"]
    /\ UNCHANGED <<durableVars, volatileVars, starts>>

TaskFail(r) ==
    /\ tasks[r].pc = "failing"
    /\ SaveRun(r, "failed")
    /\ tasks' = [tasks EXCEPT ![r] = NoTask]
    /\ UNCHANGED <<data, minted, rows, metrics, audit, results, decisions, faults, starts>>

\* An error outside the try block, or in the except handler itself: the
\* background task dies and its row keeps the status it had.
TaskDies(r) ==
    /\ \/ tasks[r].pc = "fetched" /\ Raise("set_running")
       \/ tasks[r].pc = "failing" /\ Raise("fail")
    /\ tasks' = [tasks EXCEPT ![r] = NoTask]
    /\ UNCHANGED <<durableVars, volatileVars, starts>>

Execute(r) ==
    \/ TaskFetch(r) \/ TaskSetRunning(r) \/ TaskCompute(r) \/ TaskCommit(r)
    \/ TaskCache(r) \/ TaskComplete(r) \/ TaskAudit(r)
    \/ TaskRaises(r) \/ TaskFail(r) \/ TaskDies(r)

\* The process ends: no handler and no background task survives it.
DropRunWork ==
    /\ starts' = [q \in Starters |-> IdleStart]
    /\ tasks' = [r \in RunIds |-> NoTask]
=============================================================================
