------------------------------ MODULE Workflow ------------------------------
(***************************************************************************)
(* Runs and verdicts over one repository, with the demo reset              *)
(* (routers/admin.py) and the process that serves them ending and starting *)
(* again at any moment.                                                    *)
(***************************************************************************)
EXTENDS Runs, Decisions

CONSTANTS
    Environment, \* settings.environment
    MaxCrashes,  \* bound: how often the process ends
    MaxResets    \* bound: how often an admin resets

ASSUME WorkflowAssumption ==
    /\ Environment \in {"local", "staging", "production"}
    /\ MaxCrashes \in Nat
    /\ MaxResets \in Nat

VARIABLES
    reset,       \* the reset request: "idle", or between its TRUNCATE and its cache clearing
    resets,      \* resets so far
    crashes      \* times the process has ended

adminVars == <<reset, resets, crashes>>
vars == <<storeVars, runVars, deciders, adminVars>>

TypeOK ==
    /\ StoreTypeOK
    /\ RunsTypeOK
    /\ DecisionsTypeOK
    /\ reset \in {"idle", "truncated"}
    /\ resets \in 0..MaxResets
    /\ crashes \in 0..MaxCrashes

Init ==
    /\ StoreInit
    /\ RunsInit
    /\ DecisionsInit
    /\ reset = "idle"
    /\ resets = 0
    /\ crashes = 0

---------------------------------------------------------------------------
(* reset_reconciliation_data: refused in production, the TRUNCATE, and the *)
(* caches it clears: _results and _investigations.                         *)

ResetTruncate ==
    /\ Environment # "production"
    /\ reset = "idle"
    /\ resets < MaxResets
    /\ Truncate
    /\ reset' = "truncated"
    /\ resets' = resets + 1
    /\ UNCHANGED <<volatileVars, faults, runVars, deciders, crashes>>

ResetClear ==
    /\ reset = "truncated"
    /\ results' = <<>>
    /\ reset' = "idle"
    /\ UNCHANGED <<durableVars, decisions, faults, runVars, deciders, resets, crashes>>

\* The process ends and a new one bootstraps: only the database is left.
Crash ==
    /\ crashes < MaxCrashes
    /\ crashes' = crashes + 1
    /\ ForgetCaches
    /\ DropRunWork
    /\ DropDecisionWork
    /\ reset' = "idle"
    /\ UNCHANGED <<durableVars, faults, resets>>

Import == ImportCompletes /\ UNCHANGED <<runVars, deciders, adminVars>>

StartStep(q)   == Start(q) /\ UNCHANGED <<deciders, adminVars>>
TaskStep(r)    == Execute(r) /\ UNCHANGED <<deciders, adminVars>>
DecideStep(u)  == Decide(u) /\ UNCHANGED <<runVars, adminVars>>

Next ==
    \/ Import
    \/ \E q \in Starters : StartStep(q)
    \/ \E r \in RunIds : TaskStep(r)
    \/ \E u \in Users : DecideStep(u)
    \/ ResetTruncate
    \/ ResetClear
    \/ Crash

Spec == Init /\ [][Next]_vars

\* The event loop resumes every background task that can go on, and the
\* database answers it, with a result or with an error.  Clients owe nothing.
FairSpec == Spec /\ \A r \in RunIds : WF_vars(TaskStep(r))

---------------------------------------------------------------------------
(* What the workflow promises.                                             *)

\* A completed run left every case it counted in run_metrics in the queue:
\* save_run_result is all or nothing (store_postgres.py), and no crash, error,
\* reset or other run between its commit and the status update leaves a
\* completed run without its cases.
Whole(r) ==
    /\ metrics[r] # None
    /\ \A c \in Cases : metrics[r][c] # "absent" => rows[c].run # None

CompletedRunIsWhole == \A r \in RunIds : runs[r] = "completed" => Whole(r)

\* Every case row was written by a run that is still on record, with the
\* amount that run computed: a reset that overtakes a run leaves no orphan.
RowsComeFromTheirRun ==
    \A c \in Cases : rows[c].run # None =>
        /\ runs[rows[c].run] # "absent"
        /\ metrics[rows[c].run] # None
        /\ rows[c].amount = metrics[rows[c].run][c]

\* A verdict on a case row has its audit event: record_decision writes both
\* in one transaction, so an error or a crash loses both or neither.
ResolvedRowsAreAudited ==
    \A c \in Cases : rows[c].verdict # "open" =>
        [entity |-> c, action |-> rows[c].verdict, by |-> rows[c].by] \in audit

\* What the process serves of a run that is on record is what the run
\* committed: _results is filled after the commit and never before it.
ServedIsCommitted ==
    \A i \in 1..Len(results) : runs[results[i].run] # "absent" =>
        metrics[results[i].run] = results[i].found

\* A request that has passed the checks and not yet written its verdict.
InFlight(c) == \E u \in Users : deciders[u].case = c /\ deciders[u].pc # "cached"

Settled(c) == decisions[c] # NoDecision /\ ~InFlight(c)

\* A verdict that no overlapping request can still overwrite is final as long
\* as the process lives: a later request is a 409, whatever runs and resets do.
SettledVerdictStands ==
    [][\A c \in Cases : Settled(c) =>
          \/ crashes' # crashes
          \/ decisions'[c] = decisions[c] /\ Settled(c)']_vars

\* A run that a reset deleted does not come back, although its task may still
\* be writing its status: save_run updates and never inserts.
DeletedRunStaysDeleted ==
    [][\A r \in Minted : runs[r] = "absent" => runs'[r] = "absent"]_vars

\* A run whose request was answered with a 202 ends, completed or failed, if
\* errors strike only inside the try block of _execute_run and the process
\* lives: "a crashed run must be visibly failed, not silently stuck".
AcceptedRunsEnd ==
    \A r \in RunIds :
        tasks[r].pc # "none" ~> runs[r] \in {"completed", "failed", "absent"}
                                  /\ tasks[r].pc = "none"

---------------------------------------------------------------------------
(* Why it holds: the invariant that the steps preserve.                    *)

\* What a request carries once it has passed its checks.
RequestsOK ==
    /\ \A q \in Starters : starts[q].pc = "created" => starts[q].run \in Minted
    /\ \A u \in Users :
          IF deciders[u].pc = "idle" THEN deciders[u].case = None
          ELSE deciders[u].case \in Cases /\ deciders[u].verdict \in Verdicts

\* One request at most carries a run, and then no task executes it yet.
OneOwner ==
    /\ \A q \in Starters : starts[q].pc = "created" => tasks[starts[q].run].pc = "none"
    /\ \A p, q \in Starters :
          starts[p].pc = "created" /\ starts[q].pc = "created" /\ starts[p].run = starts[q].run
              => p = q

\* Only a minted identifier is used.
UsedIsMinted ==
    /\ \A r \in RunIds : runs[r] # "absent" \/ tasks[r].pc # "none" => r \in Minted
    /\ \A i \in 1..Len(results) : results[i].run \in Minted

BeforeCommit == {"scheduled", "fetched", "running", "computed"}
AfterCommit  == {"committed", "cached", "completed"}

Uncommitted(r) ==
    \/ runs[r] = "absent"
    \/ tasks[r].pc \in BeforeCommit
    \/ \E q \in Starters : starts[q].pc = "created" /\ starts[q].run = r

\* A run commits at most once, and a reset forgets what it committed.
CommitsOnce == \A r \in RunIds : Uncommitted(r) => metrics[r] = None

\* What a task has committed stays whole until it has ended.
CommittedIsWhole ==
    \A r \in RunIds : tasks[r].pc \in AfterCommit /\ runs[r] # "absent" =>
        Whole(r) /\ metrics[r] = tasks[r].found

\* The inductive invariant.
IInv ==
    /\ TypeOK
    /\ RequestsOK
    /\ OneOwner
    /\ UsedIsMinted
    /\ CommitsOnce
    /\ CommittedIsWhole
    /\ CompletedRunIsWhole
    /\ RowsComeFromTheirRun
    /\ ServedIsCommitted
    /\ ResolvedRowsAreAudited

---------------------------------------------------------------------------
(* What the repository says, and the code does not keep.                   *)

\* runs.py calls the check in start_run "the advisory-lock equivalent".
AtMostOneRunExecutes ==
    \A r, s \in RunIds : runs[r] = "running" /\ runs[s] = "running" => r = s

\* _execute_run: a crashed run must not be "silently stuck at `running`".
RunningMeansExecuting ==
    \A r \in RunIds : runs[r] = "running" => tasks[r].pc # "none"

\* decide: a second decision is "a 409 rather than an overwrite".
FirstVerdictStands ==
    [][\A c \in Cases : decisions[c] # NoDecision /\ decisions'[c] # NoDecision =>
          decisions'[c] = decisions[c]]_vars

\* decide: "a reviewer may not clear a case above the material threshold".
MaterialCasesNeedAController ==
    \A c \in Cases : rows[c].verdict # "open" /\ rows[c].amount = "material" =>
        Role[rows[c].by] \in MayDecideMaterial
=============================================================================
