-------------------------- MODULE Workflow_proofs --------------------------
(***************************************************************************)
(* Proofs about Workflow: IInv is inductive, and the invariants and the    *)
(* action properties that follow from it.                                  *)
(***************************************************************************)
EXTENDS Workflow, SequenceTheorems, TLAPS

\* What a create or a cached result adds to a sequence.
LEMMA AppendAdds ==
    ASSUME NEW S, NEW s \in Seq(S), NEW e \in S
    PROVE  /\ Append(s, e) \in Seq(S)
           /\ Len(Append(s, e)) = Len(s) + 1
           /\ Len(s) \in Nat
           /\ \A i \in 1..Len(s) : Append(s, e)[i] = s[i]
           /\ Append(s, e)[Len(s) + 1] = e
  BY AppendProperties, LenProperties

\* The minted identifiers are run ids, and a create adds the one it mints.
LEMMA MintedFacts ==
    ASSUME minted \in Seq(RunIds)
    PROVE  /\ Minted \subseteq RunIds
           /\ minted' = minted => Minted' = Minted
           /\ \A r \in RunIds : minted' = Append(minted, r) => Minted' = Minted \cup {r}
<1>1. Minted \subseteq RunIds
  BY ElementOfSeq DEF Minted
<1>2. minted' = minted => Minted' = Minted
  BY DEF Minted
<1>3. ASSUME NEW r \in RunIds, minted' = Append(minted, r)
      PROVE  Minted' = Minted \cup {r}
  <2>1. /\ Len(minted') = Len(minted) + 1
        /\ Len(minted) \in Nat
        /\ \A i \in 1..Len(minted) : minted'[i] = minted[i]
        /\ minted'[Len(minted) + 1] = r
    BY <1>3, AppendAdds
  <2>2. \A i : i \in 1..(Len(minted) + 1) <=> i \in 1..Len(minted) \/ i = Len(minted) + 1
    BY <2>1
  <2>3. Minted' \subseteq Minted \cup {r}
    BY <2>1, <2>2 DEF Minted
  <2>4. Minted \cup {r} \subseteq Minted'
    BY <2>1, <2>2 DEF Minted
  <2> QED  BY <2>3, <2>4
<1> QED  BY <1>1, <1>2, <1>3

---------------------------------------------------------------------------
(* One lemma per part of the invariant.                                    *)

\* The records of start requests and background tasks keep their type.
LEMMA RunsTypeStep ==
    ASSUME StoreTypeOK, RunsTypeOK, RequestsOK, [Next]_vars
    PROVE  RunsTypeOK'
<1>0. /\ starts \in [Starters -> StartRec]
      /\ tasks \in [RunIds -> TaskRec]
      /\ Minted \subseteq RunIds
  BY MintedFacts DEF RunsTypeOK, StoreTypeOK
<1> USE DEF RunsTypeOK
<1>1. ASSUME NEW q \in Starters, Start(q)
      PROVE  RunsTypeOK'
  <2> USE DEF StartRec, IdleStart
  <2>1. CASE StartRead(q)
    BY <1>0, <2>1 DEF StartRead
  <2>2. CASE StartCheck(q)
    BY <1>0, <2>2 DEF StartCheck
  <2>3. CASE StartCreate(q)
    BY <1>0, <2>3 DEF StartCreate
  <2>4. CASE StartAccept(q)
    <3>1. starts[q].run \in RunIds
      BY <1>0, <2>4 DEF StartAccept, RequestsOK
    <3>2. tasks' \in [RunIds -> TaskRec]
      BY <1>0, <2>4, <3>1 DEF StartAccept, TaskRec
    <3> QED  BY <1>0, <2>4, <3>2 DEF StartAccept
  <2>5. CASE StartRaises(q)
    BY <1>0, <2>5 DEF StartRaises
  <2> QED  BY <1>1, <2>1, <2>2, <2>3, <2>4, <2>5 DEF Start
<1>2. ASSUME NEW r \in RunIds, Execute(r)
      PROVE  RunsTypeOK'
  <2> USE DEF TaskRec
  <2>1. NoTask \in TaskRec
    BY DEF NoTask, Nothing, Amounts
  <2>2. CASE TaskFetch(r)
    BY <1>0, <2>1, <2>2 DEF TaskFetch
  <2>7. CASE TaskSetRunning(r) \/ TaskCache(r) \/ TaskComplete(r)
    BY <1>0, <2>7 DEF TaskSetRunning, TaskCache, TaskComplete
  <2>3. CASE TaskCompute(r)
    <3>1. Found[data] \in [Cases -> Amounts]
      BY StoreAssumption DEF StoreTypeOK
    <3> QED  BY <1>0, <2>3, <3>1 DEF TaskCompute
  <2>4. CASE TaskCommit(r)
    BY <1>0, <2>4 DEF TaskCommit
  <2>5. CASE TaskRaises(r)
    BY <1>0, <2>5 DEF TaskRaises
  <2>6. CASE TaskAudit(r) \/ TaskFail(r) \/ TaskDies(r)
    BY <1>0, <2>1, <2>6 DEF TaskAudit, TaskFail, TaskDies
  <2> QED  BY <1>2, <2>2, <2>3, <2>4, <2>5, <2>6, <2>7 DEF Execute
<1>3. CASE Crash
  BY <1>3 DEF Crash, DropRunWork, StartRec, IdleStart, TaskRec, NoTask, Nothing, Amounts
<1>4. CASE UNCHANGED runVars
  BY <1>0, <1>4 DEF runVars
<1> QED  BY <1>1, <1>2, <1>3, <1>4
         DEF Next, Import, StartStep, TaskStep, DecideStep, ResetTruncate, ResetClear, vars

\* The records of verdict requests keep their type.
LEMMA DecisionsTypeStep ==
    ASSUME DecisionsTypeOK, [Next]_vars
    PROVE  DecisionsTypeOK'
<1> USE DEF DecisionsTypeOK, DeciderRec, IdleDecider
<1>1. ASSUME NEW u \in Users, DecideCheck(u)
      PROVE  DecisionsTypeOK'
  BY <1>1, DecisionsAssumption DEF DecideCheck
<1>2. ASSUME NEW u \in Users, DecideCommit(u) \/ DecideCache(u)
      PROVE  DecisionsTypeOK'
  BY <1>2 DEF DecideCommit, DecideCache
<1>3. ASSUME NEW u \in Users, DecideAudit(u) \/ DecideRaises(u)
      PROVE  DecisionsTypeOK'
  BY <1>3 DEF DecideAudit, DecideRaises
<1>4. CASE Crash
  BY <1>4 DEF Crash, DropDecisionWork
<1>5. CASE UNCHANGED deciders
  BY <1>5
<1> QED  BY <1>1, <1>2, <1>3, <1>4, <1>5
         DEF Next, Import, StartStep, TaskStep, DecideStep, Decide, ResetTruncate, ResetClear,
             adminVars, vars

\* What the repository keeps, in the database and in the process, keeps its type.
LEMMA StoreTypeStep ==
    ASSUME StoreTypeOK, RunsTypeOK, DecisionsTypeOK, RequestsOK, [Next]_vars
    PROVE  StoreTypeOK'
<1> USE DEF StoreTypeOK, storeVars, durableVars, volatileVars
<1>0. /\ NoRow \in Row
      /\ NoDecision \in Decision
      /\ \A r \in RunIds : tasks[r].found \in [Cases -> Amounts]
  BY DEF NoRow, Row, NoDecision, Decision, Amounts, RunsTypeOK, TaskRec
<1>1. CASE Import
  BY <1>1, StoreAssumption DEF Import, ImportCompletes
<1>2. ASSUME NEW q \in Starters, Start(q)
      PROVE  StoreTypeOK'
  <2>1. CASE StartRead(q) \/ StartCheck(q)
    BY <2>1 DEF StartRead, StartCheck
  <2>2. CASE StartCreate(q)
    <3>1. PICK r \in RunIds : CreateRun(r)
      BY <2>2 DEF StartCreate
    <3>2. minted' \in Seq(RunIds)
      BY <3>1, AppendAdds DEF CreateRun
    <3>3. runs' \in [RunIds -> Statuses]
      BY <3>1 DEF CreateRun, Statuses
    <3> QED  BY <2>2, <3>2, <3>3 DEF StartCreate
  <2>3. CASE StartAccept(q)
    <3>1. starts[q].run \in RunIds
      BY <2>3, MintedFacts DEF StartAccept, RequestsOK
    <3>2. audit' \subseteq Event
      BY <2>3, <3>1, RunsAssumption DEF StartAccept, AddAudit, Event
    <3> QED  BY <2>3, <3>2 DEF StartAccept
  <2>4. CASE StartRaises(q)
    BY <2>4, StoreAssumption DEF StartRaises, Raise
  <2> QED  BY <1>2, <2>1, <2>2, <2>3, <2>4 DEF Start
<1>3. ASSUME NEW r \in RunIds, Execute(r)
      PROVE  StoreTypeOK'
  <2>1. CASE TaskFetch(r) \/ TaskCompute(r)
    BY <2>1 DEF TaskFetch, TaskCompute
  <2>2. CASE TaskSetRunning(r) \/ TaskComplete(r) \/ TaskFail(r)
    <3>1. runs' \in [RunIds -> Statuses]
      BY <2>2 DEF TaskSetRunning, TaskComplete, TaskFail, SaveRun, Statuses
    <3> QED  BY <2>2, <3>1 DEF TaskSetRunning, TaskComplete, TaskFail
  <2>3. CASE TaskCommit(r)
    <3>1. rows' \in [Cases -> Row]
      <4>1. \A c \in Cases : [run |-> r, amount |-> tasks[r].found[c],
                              verdict |-> "open", by |-> None] \in Row
        BY <1>0 DEF Row
      <4>2. CASE runs[r] = "absent"
        BY <2>3, <4>2 DEF TaskCommit
      <4>3. CASE runs[r] # "absent"
        BY <1>0, <2>3, <4>1, <4>3 DEF TaskCommit, SaveRunResult
      <4> QED  BY <4>2, <4>3
    <3>2. metrics' \in [RunIds -> [Cases -> Amounts] \cup {None}]
      BY <1>0, <2>3 DEF TaskCommit, SaveRunResult
    <3> QED  BY <2>3, <3>1, <3>2 DEF TaskCommit
  <2>4. CASE TaskCache(r)
    <3>1. [run |-> r, found |-> tasks[r].found] \in Result
      BY <1>0 DEF Result
    <3>2. results' \in Seq(Result)
      BY <2>4, <3>1, AppendAdds DEF TaskCache, CacheResult
    <3> QED  BY <2>4, <3>2 DEF TaskCache
  <2>5. CASE TaskAudit(r)
    BY <2>5 DEF TaskAudit, AddAudit, Event
  <2>6. CASE TaskRaises(r) \/ TaskDies(r)
    BY <2>6, StoreAssumption DEF TaskRaises, TaskDies, Raise
  <2> QED  BY <1>3, <2>1, <2>2, <2>3, <2>4, <2>5, <2>6 DEF Execute
<1>4. ASSUME NEW u \in Users, Decide(u)
      PROVE  StoreTypeOK'
  <2>0. deciders[u].pc # "idle" =>
            deciders[u].case \in Cases /\ deciders[u].verdict \in Verdicts
    BY DEF RequestsOK
  <2>1. CASE DecideCheck(u)
    BY <2>1 DEF DecideCheck
  <2>2. CASE DecideCommit(u)
    <3>1. rows' \in [Cases -> Row]
      <4> DEFINE c == deciders[u].case
                 v == deciders[u].verdict
      <4>1. c \in Cases /\ v \in Verdicts
        BY <2>0, <2>2 DEF DecideCommit
      <4>2. [[rows[c] EXCEPT !.verdict = v] EXCEPT !.by = u] \in Row
        BY <4>1 DEF Row
      <4>3. CASE rows[c].run = None
        BY <2>2, <4>3 DEF DecideCommit, CommitDecision
      <4>4. CASE rows[c].run # None
        <5>1. rows' = [rows EXCEPT ![c].verdict = v, ![c].by = u]
          BY <2>2, <4>4 DEF DecideCommit, CommitDecision
        <5> QED  BY <4>1, <4>2, <5>1
      <4> QED  BY <4>3, <4>4
    <3>2. audit' \subseteq Event
      BY <2>0, <2>2 DEF DecideCommit, CommitDecision, Event
    <3> QED  BY <2>2, <3>1, <3>2 DEF DecideCommit
  <2>3. CASE DecideCache(u)
    BY <2>0, <2>3 DEF DecideCache, CacheDecision, Decision
  <2>4. CASE DecideAudit(u)
    BY <2>0, <2>4 DEF DecideAudit, AddAudit, Event
  <2>5. CASE DecideRaises(u)
    BY <2>5, StoreAssumption DEF DecideRaises, Raise
  <2> QED  BY <1>4, <2>1, <2>2, <2>3, <2>4, <2>5 DEF Decide
<1>5. CASE ResetTruncate
  BY <1>0, <1>5, StoreAssumption DEF ResetTruncate, Truncate, Statuses
<1>6. CASE ResetClear
  BY <1>6 DEF ResetClear
<1>7. CASE Crash
  BY <1>0, <1>7 DEF Crash, ForgetCaches
<1>8. CASE UNCHANGED vars
  BY <1>8 DEF vars
<1> QED  BY <1>1, <1>2, <1>3, <1>4, <1>5, <1>6, <1>7, <1>8
         DEF Next, StartStep, TaskStep, DecideStep

\* A step of any actor keeps every variable within its type.
LEMMA TypeStep ==
    ASSUME TypeOK, RequestsOK, [Next]_vars
    PROVE  TypeOK'
<1>1. StoreTypeOK' /\ RunsTypeOK' /\ DecisionsTypeOK'
  BY StoreTypeStep, RunsTypeStep, DecisionsTypeStep DEF TypeOK
<1>2. /\ reset' \in {"idle", "truncated"}
      /\ resets' \in 0..MaxResets
      /\ crashes' \in 0..MaxCrashes
  BY WorkflowAssumption DEF TypeOK, Next, Import, StartStep, TaskStep, DecideStep,
     ResetTruncate, ResetClear, Crash, adminVars, vars
<1> QED  BY <1>1, <1>2 DEF TypeOK

\* What a request carries stays right: only its own check and its own create
\* load it, and a minted identifier stays minted.
LEMMA RequestsStep ==
    ASSUME TypeOK, RequestsOK, [Next]_vars
    PROVE  RequestsOK'
<1>0. /\ starts \in [Starters -> StartRec]
      /\ deciders \in [Users -> DeciderRec]
      /\ minted' = minted => Minted' = Minted
      /\ \A r \in RunIds : CreateRun(r) => Minted' = Minted \cup {r}
  BY MintedFacts DEF TypeOK, StoreTypeOK, RunsTypeOK, DecisionsTypeOK, CreateRun
<1> USE DEF RequestsOK, durableVars, storeVars
<1>1. ASSUME NEW q \in Starters, Start(q), UNCHANGED deciders
      PROVE  RequestsOK'
  <2> USE DEF StartRec, IdleStart
  <2>1. CASE StartCreate(q)
    BY <1>0, <1>1, <2>1 DEF StartCreate
  <2>2. CASE StartRead(q) \/ StartCheck(q)
    BY <1>0, <1>1, <2>2 DEF StartRead, StartCheck
  <2>3. CASE StartAccept(q) \/ StartRaises(q)
    BY <1>0, <1>1, <2>3 DEF StartAccept, StartRaises
  <2> QED  BY <1>1, <2>1, <2>2, <2>3 DEF Start
<1>2. ASSUME NEW u \in Users, Decide(u), UNCHANGED starts
      PROVE  RequestsOK'
  <2> USE DEF DeciderRec, IdleDecider
  <2>1. CASE DecideCheck(u)
    BY <1>0, <1>2, <2>1, DecisionsAssumption DEF DecideCheck
  <2>2. CASE DecideCommit(u) \/ DecideCache(u)
    BY <1>0, <1>2, <2>2 DEF DecideCommit, DecideCache
  <2>3. CASE DecideAudit(u) \/ DecideRaises(u)
    BY <1>0, <1>2, <2>3 DEF DecideAudit, DecideRaises
  <2> QED  BY <1>2, <2>1, <2>2, <2>3 DEF Decide
<1>3. CASE Crash
  BY <1>0, <1>3 DEF Crash, DropRunWork, DropDecisionWork, IdleStart, IdleDecider
<1>4. CASE UNCHANGED <<minted, starts, deciders>>
  BY <1>0, <1>4
<1>5. ASSUME NEW r \in RunIds, Execute(r)
      PROVE  UNCHANGED <<minted, starts>>
  BY <1>5 DEF Execute, TaskFetch, TaskSetRunning, TaskCompute, TaskCommit, TaskCache,
              TaskComplete, TaskAudit, TaskRaises, TaskFail, TaskDies
<1> QED
  BY <1>1, <1>2, <1>3, <1>4, <1>5
  DEF Next, Import, ImportCompletes, StartStep, TaskStep, DecideStep, ResetTruncate,
      Truncate, ResetClear, adminVars, runVars, vars

\* No second request or task gets hold of a run: a create mints a new
\* identifier, and a task starts only from the request that created its run.
LEMMA OneOwnerStep ==
    ASSUME TypeOK, RequestsOK, OneOwner, UsedIsMinted, [Next]_vars
    PROVE  OneOwner'
<1>0. /\ starts \in [Starters -> StartRec]
      /\ tasks \in [RunIds -> TaskRec]
      /\ Minted \subseteq RunIds
  BY MintedFacts DEF TypeOK, StoreTypeOK, RunsTypeOK
<1> USE DEF OneOwner
<1>1. ASSUME NEW q \in Starters, Start(q)
      PROVE  OneOwner'
  <2> USE DEF StartRec, IdleStart
  <2>1. CASE StartCreate(q)
    <3>1. PICK r \in RunIds :
             /\ r \notin Minted
             /\ starts' = [starts EXCEPT ![q] = [pc |-> "created", run |-> r]]
             /\ tasks' = tasks
      BY <2>1 DEF StartCreate, CreateRun
    <3>2. tasks[r].pc = "none"
      BY <3>1 DEF UsedIsMinted
    <3>3. \A p \in Starters : starts[p].pc = "created" => starts[p].run # r
      BY <3>1 DEF RequestsOK
    <3> QED  BY <1>0, <3>1, <3>2, <3>3
  <2>2. CASE StartAccept(q)
    <3>1. starts[q].run \in RunIds
      BY <1>0, <2>2 DEF StartAccept, RequestsOK
    <3> QED  BY <1>0, <2>2, <3>1 DEF StartAccept, TaskRec
  <2>3. CASE StartRead(q) \/ StartCheck(q)
    BY <1>0, <2>3 DEF StartRead, StartCheck
  <2>4. CASE StartRaises(q)
    BY <1>0, <2>4 DEF StartRaises
  <2> QED  BY <1>1, <2>1, <2>2, <2>3, <2>4 DEF Start
<1>2. ASSUME NEW r \in RunIds, Execute(r)
      PROVE  OneOwner'
  <2>1. starts' = starts /\ tasks[r].pc # "none"
    BY <1>2 DEF Execute, TaskFetch, TaskSetRunning, TaskCompute, TaskCommit, TaskCache,
                TaskComplete, TaskAudit, TaskRaises, TaskFail, TaskDies
  <2>2. \A s \in RunIds : s # r => tasks'[s] = tasks[s]
    BY <1>0, <1>2 DEF Execute, TaskFetch, TaskSetRunning, TaskCompute, TaskCommit, TaskCache,
                      TaskComplete, TaskAudit, TaskRaises, TaskFail, TaskDies
  <2>3. \A q \in Starters : starts[q].pc = "created" => starts[q].run \in RunIds
    BY <1>0 DEF RequestsOK
  <2> QED  BY <2>1, <2>2, <2>3
<1>3. CASE Crash
  BY <1>3 DEF Crash, DropRunWork, IdleStart
<1>4. CASE UNCHANGED runVars
  BY <1>4 DEF runVars
<1> QED  BY <1>1, <1>2, <1>3, <1>4
         DEF Next, Import, StartStep, TaskStep, DecideStep, ResetTruncate, ResetClear, vars

\* A run is on record, has a task or is served only once it was minted.
LEMMA UsedIsMintedStep ==
    ASSUME TypeOK, RequestsOK, UsedIsMinted, [Next]_vars
    PROVE  UsedIsMinted'
<1>0. /\ starts \in [Starters -> StartRec]
      /\ tasks \in [RunIds -> TaskRec]
      /\ runs \in [RunIds -> Statuses]
      /\ results \in Seq(Result)
      /\ Minted \subseteq RunIds
      /\ minted' = minted => Minted' = Minted
      /\ \A r \in RunIds : CreateRun(r) => Minted' = Minted \cup {r}
  BY MintedFacts DEF TypeOK, StoreTypeOK, RunsTypeOK, CreateRun
<1> USE DEF UsedIsMinted
<1>1. ASSUME NEW q \in Starters, StartCreate(q)
      PROVE  UsedIsMinted'
  <2>1. PICK r \in RunIds : CreateRun(r)
    BY <1>1 DEF StartCreate
  <2> QED  BY <1>0, <1>1, <2>1 DEF StartCreate, CreateRun
<1>2. ASSUME NEW q \in Starters, StartAccept(q)
      PROVE  UsedIsMinted'
  <2>1. starts[q].run \in Minted
    BY <1>2 DEF StartAccept, RequestsOK
  <2> QED  BY <1>0, <1>2, <2>1 DEF StartAccept, TaskRec
<1>3. ASSUME NEW r \in RunIds, Execute(r)
      PROVE  UsedIsMinted'
  <2>1. minted' = minted /\ r \in Minted
    BY <1>3 DEF Execute, TaskFetch, TaskSetRunning, TaskCompute, TaskCommit, TaskCache,
                TaskComplete, TaskAudit, TaskRaises, TaskFail, TaskDies, storeVars, durableVars
  <2>2. \A s \in RunIds : s # r => tasks'[s] = tasks[s] /\ runs'[s] = runs[s]
    BY <1>0, <1>3 DEF Execute, TaskFetch, TaskSetRunning, TaskCompute, TaskCommit, TaskCache,
                      TaskComplete, TaskAudit, TaskRaises, TaskFail, TaskDies, SaveRun,
                      storeVars, durableVars
  <2>3. CASE TaskCache(r)
    <3>1. [run |-> r, found |-> tasks[r].found] \in Result
      BY <1>0 DEF Result, TaskRec
    <3>2. \A i \in 1..Len(results') : results'[i].run \in Minted
      BY <1>0, <2>1, <2>3, <3>1, AppendAdds DEF TaskCache, CacheResult
    <3> QED  BY <1>0, <2>1, <2>2, <3>2
  <2>4. CASE results' = results
    BY <1>0, <2>1, <2>2, <2>4
  <2> QED  BY <1>3, <2>3, <2>4 DEF Execute, TaskFetch, TaskSetRunning, TaskCompute, TaskCommit,
              TaskComplete, TaskAudit, TaskRaises, TaskFail, TaskDies, storeVars, volatileVars
<1>4. CASE Crash
  BY <1>0, <1>4 DEF Crash, ForgetCaches, DropRunWork, NoTask, durableVars
<1>5. CASE ResetTruncate
  BY <1>0, <1>5 DEF ResetTruncate, Truncate, volatileVars, runVars
<1>6. CASE ResetClear
  BY <1>0, <1>6 DEF ResetClear, durableVars, runVars
<1>7. CASE UNCHANGED <<minted, runs, results, tasks>>
  BY <1>0, <1>7
<1> QED
  BY <1>1, <1>2, <1>3, <1>4, <1>5, <1>6, <1>7
  DEF Next, Import, ImportCompletes, StartStep, Start, StartRead, StartCheck, StartRaises,
      TaskStep, DecideStep, Decide, DecideCheck, DecideCommit, DecideCache, DecideAudit,
      DecideRaises, vars, storeVars, durableVars, volatileVars, runVars

\* A run commits at most once: the step that fills its metrics takes it out of
\* the uncommitted runs, and no step takes it back without a reset.
LEMMA CommitsOnceStep ==
    ASSUME TypeOK, OneOwner, UsedIsMinted, CommitsOnce, [Next]_vars
    PROVE  CommitsOnce'
<1>0. /\ starts \in [Starters -> StartRec]
      /\ tasks \in [RunIds -> TaskRec]
      /\ runs \in [RunIds -> Statuses]
      /\ metrics \in [RunIds -> [Cases -> Amounts] \cup {None}]
  BY DEF TypeOK, StoreTypeOK, RunsTypeOK
<1> USE DEF CommitsOnce, Uncommitted, BeforeCommit
<1>1. ASSUME NEW q \in Starters, Start(q)
      PROVE  CommitsOnce'
  <2> USE DEF StartRec, IdleStart
  <2>1. CASE StartCreate(q)
    <3>1. PICK r \in RunIds :
             /\ CreateRun(r)
             /\ starts' = [starts EXCEPT ![q] = [pc |-> "created", run |-> r]]
             /\ metrics' = metrics /\ tasks' = tasks
      BY <2>1 DEF StartCreate
    <3>2. metrics[r] = None
      BY <3>1 DEF CreateRun, UsedIsMinted
    <3> QED  BY <1>0, <3>1, <3>2 DEF CreateRun
  <2>2. CASE StartAccept(q)
    BY <1>0, <2>2 DEF StartAccept, TaskRec
  <2>3. CASE StartRead(q) \/ StartCheck(q)
    BY <1>0, <2>3 DEF StartRead, StartCheck, storeVars, durableVars
  <2>4. CASE StartRaises(q)
    BY <1>0, <2>4 DEF StartRaises, durableVars
  <2> QED  BY <1>1, <2>1, <2>2, <2>3, <2>4 DEF Start
<1>2. ASSUME NEW r \in RunIds, Execute(r)
      PROVE  CommitsOnce'
  <2>1. CASE TaskCommit(r) /\ runs[r] # "absent"
    <3>1. /\ metrics' = [metrics EXCEPT ![r] = tasks[r].found]
          /\ tasks' = [tasks EXCEPT ![r].pc = "committed"]
          /\ runs' = runs /\ starts' = starts /\ tasks[r].pc # "none"
      BY <2>1 DEF TaskCommit, SaveRunResult
    <3>2. ~Uncommitted(r)'
      BY <1>0, <2>1, <3>1 DEF OneOwner
    <3> QED  BY <1>0, <3>1, <3>2
  <2>2. CASE ~(TaskCommit(r) /\ runs[r] # "absent")
    <3>1. metrics' = metrics /\ starts' = starts
      BY <1>2, <2>2 DEF Execute, TaskFetch, TaskSetRunning, TaskCompute, TaskCommit, TaskCache,
         TaskComplete, TaskAudit, TaskRaises, TaskFail, TaskDies, storeVars, durableVars
    <3>2. \A s \in RunIds : runs'[s] = "absent" => runs[s] = "absent"
      BY <1>0, <1>2 DEF Execute, TaskFetch, TaskSetRunning, TaskCompute, TaskCommit, TaskCache,
         TaskComplete, TaskAudit, TaskRaises, TaskFail, TaskDies, SaveRun, storeVars, durableVars
    <3>3. \A s \in RunIds : tasks'[s].pc \in BeforeCommit => tasks[s].pc \in BeforeCommit
      <4>1. \A s \in RunIds : s # r => tasks'[s] = tasks[s]
        BY <1>0, <1>2 DEF Execute, TaskFetch, TaskSetRunning, TaskCompute, TaskCommit,
           TaskCache, TaskComplete, TaskAudit, TaskRaises, TaskFail, TaskDies
      <4>2. CASE TaskFetch(r) \/ TaskSetRunning(r) \/ TaskCompute(r)
        BY <4>1, <4>2 DEF TaskFetch, TaskSetRunning, TaskCompute
      <4>3. CASE TaskCommit(r) \/ TaskCache(r) \/ TaskComplete(r) \/ TaskRaises(r)
        BY <1>0, <2>2, <4>1, <4>3 DEF TaskCommit, TaskCache, TaskComplete, TaskRaises, TaskRec
      <4>4. CASE TaskAudit(r) \/ TaskFail(r) \/ TaskDies(r)
        BY <1>0, <4>1, <4>4 DEF TaskAudit, TaskFail, TaskDies, NoTask
      <4> QED  BY <1>2, <4>2, <4>3, <4>4 DEF Execute
    <3> QED  BY <3>1, <3>2, <3>3
  <2> QED  BY <2>1, <2>2
<1>3. CASE ResetTruncate
  BY <1>3 DEF ResetTruncate, Truncate
<1>4. CASE Crash
  BY <1>4 DEF Crash, DropRunWork, IdleStart, NoTask, durableVars
<1>5. CASE UNCHANGED <<runs, metrics, starts, tasks>>
  BY <1>5
<1> QED
  BY <1>1, <1>2, <1>3, <1>4, <1>5
  DEF Next, Import, ImportCompletes, StartStep, TaskStep, DecideStep, Decide, DecideCheck,
      DecideCommit, DecideCache, DecideAudit, DecideRaises, ResetClear, vars, storeVars,
      durableVars, runVars

\* No step takes a case from a committed run, or its metrics, unless a reset
\* deletes the run: the cases a commit deletes belong to a run that commits
\* for the first time.
LEMMA WholeKept ==
    ASSUME TypeOK, CommitsOnce, RowsComeFromTheirRun, [Next]_vars,
           NEW r \in RunIds, Whole(r), runs'[r] # "absent"
    PROVE  Whole(r)' /\ metrics'[r] = metrics[r]
<1>0. /\ rows \in [Cases -> Row]
      /\ metrics \in [RunIds -> [Cases -> Amounts] \cup {None}]
      /\ runs \in [RunIds -> Statuses]
      /\ deciders \in [Users -> DeciderRec]
  BY DEF TypeOK, StoreTypeOK, DecisionsTypeOK
<1> USE DEF Whole
<1>1. ASSUME NEW s \in RunIds, TaskCommit(s), runs[s] # "absent"
      PROVE  Whole(r)' /\ metrics'[r] = metrics[r]
  <2>1. metrics[s] = None
    BY <1>1 DEF TaskCommit, CommitsOnce, Uncommitted, BeforeCommit
  <2>2. r # s
    BY <2>1
  <2>3. metrics'[r] = metrics[r]
    BY <1>0, <1>1, <2>2 DEF TaskCommit, SaveRunResult
  <2>4. \A c \in Cases : rows[c].run # None => rows[c].run # s
    BY <2>1 DEF RowsComeFromTheirRun
  <2>5. \A c \in Cases : rows[c].run # None => rows'[c].run # None
    BY <1>1, <2>4, StoreAssumption DEF TaskCommit, SaveRunResult
  <2> QED  BY <2>3, <2>5
<1>2. ASSUME NEW u \in Users, DecideCommit(u)
      PROVE  Whole(r)' /\ metrics'[r] = metrics[r]
  <2>1. \A c \in Cases : rows'[c].run = rows[c].run
    BY <1>0, <1>2 DEF DecideCommit, CommitDecision, Row
  <2> QED  BY <1>2, <2>1 DEF DecideCommit
<1>3. CASE ResetTruncate
  BY <1>3 DEF ResetTruncate, Truncate
<1>4. CASE UNCHANGED <<rows, metrics>>
  BY <1>4
<1>5. ASSUME NEW q \in Starters, Start(q)
      PROVE  UNCHANGED <<rows, metrics>>
  BY <1>5 DEF Start, StartRead, StartCheck, StartCreate, StartAccept, StartRaises, storeVars,
              durableVars
<1>6. ASSUME NEW s \in RunIds, Execute(s), ~(TaskCommit(s) /\ runs[s] # "absent")
      PROVE  UNCHANGED <<rows, metrics>>
  BY <1>6 DEF Execute, TaskFetch, TaskSetRunning, TaskCompute, TaskCommit, TaskCache,
              TaskComplete, TaskAudit, TaskRaises, TaskFail, TaskDies, storeVars, durableVars
<1>7. ASSUME NEW u \in Users, Decide(u), ~DecideCommit(u)
      PROVE  UNCHANGED <<rows, metrics>>
  BY <1>7 DEF Decide, DecideCheck, DecideCache, DecideAudit, DecideRaises, storeVars, durableVars
<1> QED
  BY <1>1, <1>2, <1>3, <1>4, <1>5, <1>6, <1>7
  DEF Next, Import, ImportCompletes, StartStep, TaskStep, DecideStep, ResetClear, Crash, vars,
      storeVars, durableVars

\* What a task has committed stays whole: its own commit makes it so, and
\* WholeKept says that nobody else undoes it.
LEMMA CommittedIsWholeStep ==
    ASSUME TypeOK, UsedIsMinted, CommitsOnce, RowsComeFromTheirRun, CommittedIsWhole, [Next]_vars
    PROVE  CommittedIsWhole'
<1> SUFFICES ASSUME NEW r \in RunIds, tasks'[r].pc \in AfterCommit, runs'[r] # "absent"
             PROVE  Whole(r)' /\ metrics'[r] = tasks'[r].found
  BY DEF CommittedIsWhole
<1>0. /\ tasks \in [RunIds -> TaskRec]
      /\ starts \in [Starters -> StartRec]
      /\ metrics \in [RunIds -> [Cases -> Amounts] \cup {None}]
      /\ runs \in [RunIds -> Statuses]
  BY DEF TypeOK, StoreTypeOK, RunsTypeOK
<1>1. CASE TaskCommit(r) /\ runs[r] # "absent"
  <2>1. /\ tasks'[r].found = tasks[r].found
        /\ metrics'[r] = tasks[r].found
        /\ tasks[r].found \in [Cases -> Amounts]
    BY <1>0, <1>1 DEF TaskCommit, SaveRunResult, TaskRec
  <2>2. \A c \in Cases : tasks[r].found[c] # "absent" => rows'[c].run = r
    BY <1>1 DEF TaskCommit, SaveRunResult
  <2> QED  BY <2>1, <2>2, StoreAssumption DEF Whole
<1>2. ASSUME ~(TaskCommit(r) /\ runs[r] # "absent")
      PROVE  tasks[r].pc \in AfterCommit /\ tasks'[r].found = tasks[r].found
  <2> USE DEF AfterCommit
  <2>1. ASSUME NEW s \in RunIds, Execute(s), s # r
        PROVE  tasks'[r] = tasks[r]
    BY <1>0, <2>1 DEF Execute, TaskFetch, TaskSetRunning, TaskCompute, TaskCommit, TaskCache,
                      TaskComplete, TaskAudit, TaskRaises, TaskFail, TaskDies
  <2>2. CASE TaskCache(r) \/ TaskComplete(r)
    BY <1>0, <2>2 DEF TaskCache, TaskComplete, TaskRec
  <2>3. ~(TaskFetch(r) \/ TaskSetRunning(r) \/ TaskCompute(r))
    BY <1>0 DEF TaskFetch, TaskSetRunning, TaskCompute, NoTask, TaskRec
  <2>4. ~(TaskAudit(r) \/ TaskRaises(r) \/ TaskFail(r) \/ TaskDies(r))
    BY <1>0 DEF TaskAudit, TaskRaises, TaskFail, TaskDies, NoTask, TaskRec
  <2>5. ~TaskCommit(r)
    BY <1>0, <1>2 DEF TaskCommit, TaskRec
  <2>6. ASSUME NEW q \in Starters, Start(q)
        PROVE  tasks'[r] = tasks[r]
    BY <1>0, <2>6 DEF Start, StartRead, StartCheck, StartCreate, StartAccept, StartRaises, TaskRec
  <2>7. CASE tasks'[r] = tasks[r]
    BY <2>7
  <2>8. ~Crash
    BY DEF Crash, DropRunWork, NoTask
  <2> QED
    BY <2>1, <2>2, <2>3, <2>4, <2>5, <2>6, <2>7, <2>8
    DEF Next, Import, StartStep, TaskStep, DecideStep, ResetTruncate, ResetClear, Execute,
        runVars, vars
<1>3. ASSUME runs[r] = "absent"
      PROVE  tasks[r].pc \notin AfterCommit
  <2>1. PICK q \in Starters : StartCreate(q) /\ CreateRun(r)
    <3>1. ~\E s \in RunIds : Execute(s)
      BY <1>0, <1>3 DEF Execute, TaskFetch, TaskSetRunning, TaskCompute, TaskCommit, TaskCache,
         TaskComplete, TaskAudit, TaskRaises, TaskFail, TaskDies, SaveRun, storeVars, durableVars
    <3>2. ~\E u \in Users : Decide(u)
      BY <1>3 DEF Decide, DecideCheck, DecideCommit, DecideCache, DecideAudit, DecideRaises,
                  storeVars, durableVars
    <3>3. ~(ResetTruncate \/ ResetClear \/ Crash \/ Import \/ UNCHANGED vars)
      BY <1>3 DEF ResetTruncate, Truncate, ResetClear, Crash, Import, ImportCompletes, vars,
                  storeVars, durableVars
    <3>4. PICK q \in Starters : Start(q)
      BY <3>1, <3>2, <3>3 DEF Next, StartStep, TaskStep, DecideStep
    <3>5. StartCreate(q)
      BY <1>3, <3>4 DEF Start, StartRead, StartCheck, StartAccept, StartRaises, storeVars,
                        durableVars
    <3> QED  BY <1>0, <1>3, <3>5 DEF StartCreate, CreateRun
  <2> QED  BY <2>1 DEF CreateRun, UsedIsMinted, AfterCommit
<1> QED  BY <1>1, <1>2, <1>3, WholeKept DEF CommittedIsWhole

\* A run becomes completed only from a task that has committed, so it is whole,
\* and stays so.
LEMMA CompletedRunIsWholeStep ==
    ASSUME TypeOK, CommitsOnce, RowsComeFromTheirRun, CommittedIsWhole, CompletedRunIsWhole,
           [Next]_vars
    PROVE  CompletedRunIsWhole'
<1> SUFFICES ASSUME NEW r \in RunIds, runs'[r] = "completed"
             PROVE  Whole(r)'
  BY DEF CompletedRunIsWhole
<1>0. runs \in [RunIds -> Statuses]
  BY DEF TypeOK, StoreTypeOK
<1>1. runs[r] = "completed" \/ (TaskComplete(r) /\ runs[r] # "absent")
  <2>1. ASSUME NEW q \in Starters, Start(q)
        PROVE  runs[r] = "completed"
    BY <1>0, <2>1 DEF Start, StartRead, StartCheck, StartCreate, CreateRun, StartAccept,
                      StartRaises, storeVars, durableVars
  <2>2. ASSUME NEW s \in RunIds, Execute(s), ~TaskComplete(s)
        PROVE  runs[r] = "completed"
    BY <1>0, <2>2 DEF Execute, TaskFetch, TaskSetRunning, TaskCompute, TaskCommit, TaskCache,
                      TaskAudit, TaskRaises, TaskFail, TaskDies, SaveRun, storeVars, durableVars
  <2>3. ASSUME NEW s \in RunIds, TaskComplete(s)
        PROVE  runs[r] = "completed" \/ (TaskComplete(r) /\ runs[r] # "absent")
    BY <1>0, <2>3 DEF TaskComplete, SaveRun
  <2>4. ASSUME NEW u \in Users, Decide(u)
        PROVE  runs[r] = "completed"
    BY <2>4 DEF Decide, DecideCheck, DecideCommit, DecideCache, DecideAudit, DecideRaises,
                storeVars, durableVars
  <2>5. ~ResetTruncate
    BY DEF ResetTruncate, Truncate
  <2> QED
    BY <2>1, <2>2, <2>3, <2>4, <2>5
    DEF Next, Import, ImportCompletes, StartStep, TaskStep, DecideStep, ResetClear, Crash,
        vars, storeVars, durableVars
<1>2. Whole(r)
  BY <1>1 DEF CompletedRunIsWhole, CommittedIsWhole, TaskComplete, AfterCommit
<1> QED  BY <1>2, WholeKept

\* A commit writes rows only for a run on record, with what its metrics say;
\* the rows it leaves belong to other runs, whose metrics it does not touch.
LEMMA RowsComeFromTheirRunStep ==
    ASSUME TypeOK, RowsComeFromTheirRun, [Next]_vars
    PROVE  RowsComeFromTheirRun'
<1>0. /\ rows \in [Cases -> Row]
      /\ runs \in [RunIds -> Statuses]
      /\ metrics \in [RunIds -> [Cases -> Amounts] \cup {None}]
      /\ tasks \in [RunIds -> TaskRec]
      /\ \A c \in Cases : rows[c].run # None => rows[c].run \in RunIds
  BY DEF TypeOK, StoreTypeOK, RunsTypeOK, Row
<1> USE DEF RowsComeFromTheirRun
<1>1. ASSUME NEW r \in RunIds, TaskCommit(r), runs[r] # "absent"
      PROVE  RowsComeFromTheirRun'
  <2>1. /\ metrics' = [metrics EXCEPT ![r] = tasks[r].found]
        /\ runs' = runs
        /\ tasks[r].found \in [Cases -> Amounts]
    BY <1>0, <1>1 DEF TaskCommit, SaveRunResult, TaskRec
  <2> SUFFICES ASSUME NEW c \in Cases, rows'[c].run # None
               PROVE  /\ runs[rows'[c].run] # "absent"
                      /\ metrics'[rows'[c].run] # None
                      /\ rows'[c].amount = metrics'[rows'[c].run][c]
    BY <2>1
  <2>2. CASE tasks[r].found[c] # "absent"
    <3>1. rows'[c].run = r /\ rows'[c].amount = tasks[r].found[c]
      BY <1>1, <2>2 DEF TaskCommit, SaveRunResult
    <3> QED  BY <1>0, <1>1, <2>1, <3>1, StoreAssumption
  <2>3. CASE tasks[r].found[c] = "absent"
    <3>1. rows'[c] = rows[c] /\ rows[c].run # r
      BY <1>1, <2>3 DEF TaskCommit, SaveRunResult, NoRow
    <3>2. rows[c].run \in RunIds /\ metrics'[rows[c].run] = metrics[rows[c].run]
      BY <1>0, <2>1, <3>1
    <3> QED  BY <3>1, <3>2
  <2> QED  BY <2>2, <2>3
<1>2. ASSUME NEW u \in Users, DecideCommit(u)
      PROVE  RowsComeFromTheirRun'
  <2>1. \A c \in Cases : rows'[c].run = rows[c].run /\ rows'[c].amount = rows[c].amount
    BY <1>0, <1>2 DEF DecideCommit, CommitDecision, Row
  <2> QED  BY <1>2, <2>1 DEF DecideCommit
<1>3. CASE ResetTruncate
  BY <1>3 DEF ResetTruncate, Truncate, NoRow
<1>4. ASSUME rows' = rows, metrics' = metrics,
             \A r \in RunIds : runs'[r] = "absent" => runs[r] = "absent"
      PROVE  RowsComeFromTheirRun'
  BY <1>0, <1>4
<1>5. ASSUME NEW q \in Starters, Start(q)
      PROVE  RowsComeFromTheirRun'
  <2>1. /\ rows' = rows /\ metrics' = metrics
        /\ \A r \in RunIds : runs'[r] = "absent" => runs[r] = "absent"
    BY <1>0, <1>5 DEF Start, StartRead, StartCheck, StartCreate, CreateRun, StartAccept,
                      StartRaises, storeVars, durableVars
  <2> QED  BY <1>4, <2>1
<1>6. ASSUME NEW s \in RunIds, Execute(s), ~(TaskCommit(s) /\ runs[s] # "absent")
      PROVE  RowsComeFromTheirRun'
  <2>1. /\ rows' = rows /\ metrics' = metrics
        /\ \A r \in RunIds : runs'[r] = "absent" => runs[r] = "absent"
    BY <1>0, <1>6 DEF Execute, TaskFetch, TaskSetRunning, TaskCompute, TaskCommit, TaskCache,
       TaskComplete, TaskAudit, TaskRaises, TaskFail, TaskDies, SaveRun, storeVars, durableVars
  <2> QED  BY <1>4, <2>1
<1>7. ASSUME UNCHANGED <<rows, metrics, runs>>
      PROVE  RowsComeFromTheirRun'
  BY <1>7
<1>8. ASSUME NEW u \in Users, Decide(u), ~DecideCommit(u)
      PROVE  UNCHANGED <<rows, metrics, runs>>
  BY <1>8 DEF Decide, DecideCheck, DecideCache, DecideAudit, DecideRaises, storeVars, durableVars
<1> QED
  BY <1>1, <1>2, <1>3, <1>5, <1>6, <1>7, <1>8
  DEF Next, Import, ImportCompletes, StartStep, TaskStep, DecideStep, ResetClear, Crash, vars,
      storeVars, durableVars

\* A result enters _results after its commit, and no later commit of the same
\* run changes what was served.
LEMMA ServedIsCommittedStep ==
    ASSUME TypeOK, UsedIsMinted, CommitsOnce, CommittedIsWhole, ServedIsCommitted, [Next]_vars
    PROVE  ServedIsCommitted'
<1>0. /\ runs \in [RunIds -> Statuses]
      /\ metrics \in [RunIds -> [Cases -> Amounts] \cup {None}]
      /\ tasks \in [RunIds -> TaskRec]
      /\ results \in Seq(Result)
      /\ Minted \subseteq RunIds
      /\ \A i \in 1..Len(results) : results[i] \in Result
  BY MintedFacts, ElementOfSeq DEF TypeOK, StoreTypeOK, RunsTypeOK
<1> USE DEF ServedIsCommitted
<1>1. ASSUME NEW r \in RunIds, TaskCommit(r), runs[r] # "absent"
      PROVE  ServedIsCommitted'
  <2>1. metrics[r] = None
    BY <1>1 DEF TaskCommit, CommitsOnce, Uncommitted, BeforeCommit
  <2>2. \A i \in 1..Len(results) : results[i].run \in RunIds /\ results[i].found # None
    BY <1>0, StoreAssumption DEF Result
  <2>3. \A i \in 1..Len(results) : results[i].run # r
    BY <1>1, <2>1, <2>2
  <2> QED  BY <1>0, <1>1, <2>2, <2>3 DEF TaskCommit, SaveRunResult
<1>2. ASSUME NEW r \in RunIds, TaskCache(r)
      PROVE  ServedIsCommitted'
  <2> DEFINE e == [run |-> r, found |-> tasks[r].found]
  <2>1. e \in Result
    BY <1>0 DEF Result, TaskRec
  <2>2. runs[r] # "absent" => metrics[r] = tasks[r].found
    BY <1>2 DEF TaskCache, CommittedIsWhole, AfterCommit
  <2>3. /\ Len(results') = Len(results) + 1
        /\ Len(results) \in Nat
        /\ \A i \in 1..Len(results) : results'[i] = results[i]
        /\ results'[Len(results) + 1] = e
    BY <1>0, <1>2, <2>1, AppendAdds DEF TaskCache, CacheResult
  <2>4. runs' = runs /\ metrics' = metrics
    BY <1>2 DEF TaskCache, durableVars
  <2>5. \A i \in 1..Len(results') : i \in 1..Len(results) \/ i = Len(results) + 1
    BY <2>3
  <2> QED  BY <2>2, <2>3, <2>4, <2>5
<1>3. ASSUME NEW q \in Starters, StartCreate(q)
      PROVE  ServedIsCommitted'
  <2>1. PICK r \in RunIds : CreateRun(r)
    BY <1>3 DEF StartCreate
  <2>2. \A i \in 1..Len(results) : runs'[results[i].run] = runs[results[i].run]
    BY <1>0, <2>1 DEF CreateRun, UsedIsMinted
  <2> QED  BY <1>3, <2>2 DEF StartCreate
<1>4. ASSUME NEW r \in RunIds, TaskSetRunning(r) \/ TaskComplete(r) \/ TaskFail(r)
      PROVE  ServedIsCommitted'
  <2>1. \A s \in RunIds : runs'[s] = "absent" <=> runs[s] = "absent"
    BY <1>0, <1>4 DEF TaskSetRunning, TaskComplete, TaskFail, SaveRun
  <2>2. results' = results /\ metrics' = metrics
    BY <1>4 DEF TaskSetRunning, TaskComplete, TaskFail
  <2> QED  BY <1>0, <2>1, <2>2 DEF UsedIsMinted
<1>5. CASE ResetTruncate
  BY <1>0, <1>5 DEF ResetTruncate, Truncate, volatileVars, UsedIsMinted
<1>6. CASE ResetClear
  BY <1>6 DEF ResetClear
<1>7. CASE Crash
  BY <1>7 DEF Crash, ForgetCaches
<1>8. CASE UNCHANGED <<runs, metrics, results>>
  BY <1>8
<1>9. ASSUME NEW q \in Starters, Start(q), ~StartCreate(q)
      PROVE  UNCHANGED <<runs, metrics, results>>
  BY <1>9 DEF Start, StartRead, StartCheck, StartAccept, StartRaises, storeVars, durableVars,
              volatileVars
<1>10. ASSUME NEW u \in Users, Decide(u)
       PROVE  UNCHANGED <<runs, metrics, results>>
  BY <1>10 DEF Decide, DecideCheck, DecideCommit, DecideCache, DecideAudit, DecideRaises,
               storeVars, durableVars, volatileVars
<1>11. ASSUME NEW r \in RunIds, Execute(r)
       PROVE  ServedIsCommitted'
  BY <1>1, <1>2, <1>4, <1>8, <1>11
     DEF Execute, TaskFetch, TaskCompute, TaskCommit, TaskAudit, TaskRaises, TaskDies,
         storeVars, durableVars, volatileVars
<1> QED
  BY <1>3, <1>5, <1>6, <1>7, <1>8, <1>9, <1>10, <1>11
  DEF Next, Import, ImportCompletes, StartStep, TaskStep, DecideStep, vars, storeVars,
      durableVars, volatileVars

\* The verdict and its audit event are one commit; the trail only grows, and a
\* reset takes the rows with it.
LEMMA ResolvedRowsAreAuditedStep ==
    ASSUME TypeOK, RequestsOK, ResolvedRowsAreAudited, [Next]_vars
    PROVE  ResolvedRowsAreAudited'
<1>0. rows \in [Cases -> Row] /\ deciders \in [Users -> DeciderRec]
  BY DEF TypeOK, StoreTypeOK, DecisionsTypeOK
<1> USE DEF ResolvedRowsAreAudited
<1>1. ASSUME rows' = rows, audit \subseteq audit'
      PROVE  ResolvedRowsAreAudited'
  BY <1>1
<1>2. ASSUME NEW q \in Starters, Start(q)
      PROVE  rows' = rows /\ audit \subseteq audit'
  BY <1>2 DEF Start, StartRead, StartCheck, StartCreate, StartAccept, StartRaises, AddAudit,
              storeVars, durableVars
<1>3. ASSUME NEW r \in RunIds, Execute(r)
      PROVE  ResolvedRowsAreAudited'
  <2>1. CASE TaskCommit(r) /\ runs[r] # "absent"
    <3>1. \A c \in Cases : rows'[c].verdict # "open" => rows'[c] = rows[c]
      BY <2>1 DEF TaskCommit, SaveRunResult, NoRow
    <3> QED  BY <2>1, <3>1 DEF TaskCommit
  <2>2. CASE ~(TaskCommit(r) /\ runs[r] # "absent")
    <3>1. rows' = rows /\ audit \subseteq audit'
      BY <1>3, <2>2 DEF Execute, TaskFetch, TaskSetRunning, TaskCompute, TaskCommit, TaskCache,
         TaskComplete, TaskAudit, TaskRaises, TaskFail, TaskDies, AddAudit, storeVars, durableVars
    <3> QED  BY <1>1, <3>1
  <2> QED  BY <2>1, <2>2
<1>4. ASSUME NEW u \in Users, DecideCommit(u)
      PROVE  ResolvedRowsAreAudited'
  <2> DEFINE c == deciders[u].case
             v == deciders[u].verdict
  <2>1. c \in Cases /\ audit' = audit \cup {[entity |-> c, action |-> v, by |-> u]}
    BY <1>4 DEF DecideCommit, CommitDecision, RequestsOK
  <2>2. \A d \in Cases : d # c => rows'[d] = rows[d]
    BY <1>0, <1>4 DEF DecideCommit, CommitDecision
  <2>3. rows'[c] = rows[c] \/ (rows'[c].verdict = v /\ rows'[c].by = u)
    BY <1>0, <1>4, <2>1 DEF DecideCommit, CommitDecision, Row
  <2> HIDE DEF c, v
  <2> QED  BY <2>1, <2>2, <2>3
<1>5. ASSUME NEW u \in Users, Decide(u), ~DecideCommit(u)
      PROVE  rows' = rows /\ audit \subseteq audit'
  BY <1>5 DEF Decide, DecideCheck, DecideCache, DecideAudit, DecideRaises, AddAudit, storeVars,
              durableVars
<1>6. CASE ResetTruncate
  BY <1>6 DEF ResetTruncate, Truncate, NoRow
<1> QED
  BY <1>1, <1>2, <1>3, <1>4, <1>5, <1>6
  DEF Next, Import, ImportCompletes, StartStep, TaskStep, DecideStep, ResetClear, Crash, vars,
      storeVars, durableVars

---------------------------------------------------------------------------
(* The theorems.                                                           *)

\* The empty database of a process that has just started satisfies IInv.
LEMMA InitIInv == Init => IInv
<1> SUFFICES ASSUME Init
             PROVE  IInv
  OBVIOUS
<1> USE DEF Init, StoreInit, RunsInit, DecisionsInit
<1>1. StoreTypeOK
  BY StoreAssumption
     DEF StoreTypeOK, Statuses, Row, NoRow, Decision, NoDecision, Amounts
<1>2. RunsTypeOK /\ DecisionsTypeOK
  BY DEF RunsTypeOK, StartRec, IdleStart, TaskRec, NoTask, Nothing, Amounts, DecisionsTypeOK,
         DeciderRec, IdleDecider
<1>3. TypeOK
  BY <1>1, <1>2, WorkflowAssumption DEF TypeOK
<1>4. RequestsOK /\ OneOwner
  BY DEF RequestsOK, OneOwner, IdleStart, IdleDecider
<1>5. UsedIsMinted /\ CommitsOnce /\ CommittedIsWhole /\ CompletedRunIsWhole
  BY DEF UsedIsMinted, CommitsOnce, CommittedIsWhole, CompletedRunIsWhole, NoTask, AfterCommit
<1>6. RowsComeFromTheirRun /\ ServedIsCommitted /\ ResolvedRowsAreAudited
  BY DEF RowsComeFromTheirRun, ServedIsCommitted, ResolvedRowsAreAudited, NoRow
<1> QED  BY <1>3, <1>4, <1>5, <1>6 DEF IInv

\* Every step of every actor, crash and reset preserves IInv.
LEMMA IInvStep == IInv /\ [Next]_vars => IInv'
  BY TypeStep, RequestsStep, OneOwnerStep, UsedIsMintedStep, CommitsOnceStep,
     CommittedIsWholeStep, CompletedRunIsWholeStep, RowsComeFromTheirRunStep,
     ServedIsCommittedStep, ResolvedRowsAreAuditedStep DEF IInv

\* The inductive invariant holds in every state of the workflow.
THEOREM Invariance == Spec => []IInv
  BY InitIInv, IInvStep, PTL DEF Spec

\* Every variable stays within its type.
THEOREM TypeCorrect == Spec => []TypeOK
<1>1. IInv => TypeOK
  BY DEF IInv
<1> QED  BY <1>1, Invariance, PTL

\* Whatever crashes, errors, resets and other runs do, a completed run's cases
\* are in the queue.
THEOREM CompletedRunsAreWhole == Spec => []CompletedRunIsWhole
<1>1. IInv => CompletedRunIsWhole
  BY DEF IInv
<1> QED  BY <1>1, Invariance, PTL

\* No case row is an orphan, and its amount is the one its run computed.
THEOREM RowsHaveTheirRun == Spec => []RowsComeFromTheirRun
<1>1. IInv => RowsComeFromTheirRun
  BY DEF IInv
<1> QED  BY <1>1, Invariance, PTL

\* A verdict on a case row has its audit event.
THEOREM VerdictsAreAudited == Spec => []ResolvedRowsAreAudited
<1>1. IInv => ResolvedRowsAreAudited
  BY DEF IInv
<1> QED  BY <1>1, Invariance, PTL

\* What is served of a run on record is what the run committed.
THEOREM ServesWhatItCommitted == Spec => []ServedIsCommitted
<1>1. IInv => ServedIsCommitted
  BY DEF IInv
<1> QED  BY <1>1, Invariance, PTL

\* A run that a reset deleted never comes back.
THEOREM DeletedRunsStayDeleted == Spec => DeletedRunStaysDeleted
<1> DEFINE Kept == \A r \in Minted : runs[r] = "absent" => runs'[r] = "absent"
<1>1. ASSUME IInv, [Next]_vars
      PROVE  [Kept]_vars
  <2>0. runs \in [RunIds -> Statuses] /\ Minted \subseteq RunIds
    BY <1>1, MintedFacts DEF IInv, TypeOK, StoreTypeOK
  <2> SUFFICES ASSUME NEW r \in Minted, runs[r] = "absent"
               PROVE  runs'[r] = "absent"
    OBVIOUS
  <2>1. ASSUME NEW q \in Starters, Start(q)
        PROVE  runs'[r] = "absent"
    BY <2>0, <2>1 DEF Start, StartRead, StartCheck, StartCreate, CreateRun, StartAccept,
                      StartRaises, storeVars, durableVars
  <2>2. ASSUME NEW s \in RunIds, Execute(s)
        PROVE  runs'[r] = "absent"
    BY <2>0, <2>2 DEF Execute, TaskFetch, TaskSetRunning, TaskCompute, TaskCommit, TaskCache,
       TaskComplete, TaskAudit, TaskRaises, TaskFail, TaskDies, SaveRun, storeVars, durableVars
  <2>3. ASSUME NEW u \in Users, Decide(u)
        PROVE  runs'[r] = "absent"
    BY <2>3 DEF Decide, DecideCheck, DecideCommit, DecideCache, DecideAudit, DecideRaises,
                storeVars, durableVars
  <2>4. CASE ResetTruncate
    BY <2>0, <2>4 DEF ResetTruncate, Truncate
  <2>5. CASE runs' = runs
    BY <2>5
  <2> QED
    BY <1>1, <2>1, <2>2, <2>3, <2>4, <2>5
    DEF Next, Import, ImportCompletes, StartStep, TaskStep, DecideStep, ResetClear, Crash, vars,
        storeVars, durableVars
<1> QED  BY <1>1, Invariance, PTL DEF Spec, DeletedRunStaysDeleted

\* A verdict that no overlapping request can still overwrite is final as long
\* as the process lives.
THEOREM SettledVerdictsStand == Spec => SettledVerdictStands
<1> DEFINE Stands == \A c \in Cases : Settled(c) =>
                        \/ crashes' # crashes
                        \/ decisions'[c] = decisions[c] /\ Settled(c)'
<1>1. ASSUME IInv, [Next]_vars
      PROVE  [Stands]_vars
  <2>0. /\ decisions \in [Cases -> Decision]
        /\ deciders \in [Users -> DeciderRec]
        /\ crashes \in Nat
        /\ \A u \in Users : deciders[u].pc = "idle" => deciders[u].case = None
    BY <1>1, WorkflowAssumption
       DEF IInv, TypeOK, StoreTypeOK, DecisionsTypeOK, RequestsOK
  <2> SUFFICES ASSUME NEW c \in Cases, Settled(c)
               PROVE  \/ crashes' # crashes
                      \/ decisions'[c] = decisions[c] /\ Settled(c)'
    OBVIOUS
  <2> USE DEF Settled, InFlight
  <2>1. ASSUME NEW u \in Users, DecideCheck(u)
        PROVE  decisions'[c] = decisions[c] /\ Settled(c)'
    BY <2>0, <2>1 DEF DecideCheck, MayRecord, storeVars, volatileVars, DeciderRec
  <2>2. ASSUME NEW u \in Users, DecideCommit(u)
        PROVE  decisions'[c] = decisions[c] /\ Settled(c)'
    BY <2>0, <2>2 DEF DecideCommit, DeciderRec
  <2>3. ASSUME NEW u \in Users, DecideCache(u)
        PROVE  decisions'[c] = decisions[c] /\ Settled(c)'
    <3>1. deciders[u].case # c
      BY <2>3 DEF DecideCache
    <3> QED  BY <2>0, <2>3, <3>1 DEF DecideCache, CacheDecision, DeciderRec
  <2>4. ASSUME NEW u \in Users, DecideAudit(u) \/ DecideRaises(u)
        PROVE  decisions'[c] = decisions[c] /\ Settled(c)'
    <3>1. None \notin Cases
      BY StoreAssumption
    <3> QED  BY <2>0, <2>4, <3>1
                DEF DecideAudit, DecideRaises, volatileVars, IdleDecider, DeciderRec
  <2>5. CASE Crash
    BY <2>0, <2>5 DEF Crash
  <2>6. CASE UNCHANGED <<decisions, deciders>>
    BY <2>6
  <2>7. ASSUME NEW q \in Starters, Start(q)
        PROVE  decisions' = decisions
    BY <2>7 DEF Start, StartRead, StartCheck, StartCreate, StartAccept, StartRaises,
                storeVars, volatileVars
  <2>8. ASSUME NEW r \in RunIds, Execute(r)
        PROVE  decisions' = decisions
    BY <2>8 DEF Execute, TaskFetch, TaskSetRunning, TaskCompute, TaskCommit, TaskCache,
       TaskComplete, TaskAudit, TaskRaises, TaskFail, TaskDies, storeVars, volatileVars
  <2> QED
    BY <1>1, <2>1, <2>2, <2>3, <2>4, <2>5, <2>6, <2>7, <2>8
    DEF Next, Import, ImportCompletes, StartStep, TaskStep, DecideStep, Decide, ResetTruncate,
        ResetClear, vars, storeVars, volatileVars
<1> QED  BY <1>1, Invariance, PTL DEF Spec, SettledVerdictStands
=============================================================================
