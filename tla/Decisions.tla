----------------------------- MODULE Decisions -----------------------------
(***************************************************************************)
(* The verdict on a case (routers/exceptions.py, decide).  get_case and    *)
(* get_decision read the process's own dictionaries and never suspend, so  *)
(* every check up to the write is one step; the write, the line that keeps *)
(* the decision in the process and the second audit event are three more.  *)
(***************************************************************************)
EXTENDS Store

CONSTANT
    Requested    \* the resolutions that requests ask for

ASSUME DecisionsAssumption == Requested \subseteq Verdicts

VARIABLE
    deciders     \* deciders[u]: how far the request of user u has got

IdleDecider == [pc |-> "idle", case |-> None, verdict |-> "open"]
DeciderRec  == [pc: {"idle", "checked", "committed", "cached"},
                case: Cases \cup {None}, verdict: Verdicts \cup {"open"}]

DecisionsTypeOK == deciders \in [Users -> DeciderRec]

DecisionsInit == deciders = [u \in Users |-> IdleDecider]

MayDecide         == {"reviewer", "controller", "admin"}
MayDecideMaterial == {"controller", "admin"}

\* Variant: a second decision replaces the first.
MayRecordAgain(u, c, verdict, reason) ==
    /\ Role[u] \in MayDecide
    /\ CaseServed(c)
    /\ AmountServed(c) = "material" => Role[u] \in MayDecideMaterial
    /\ verdict # "auto_resolved"
    /\ verdict = "overridden" => reason = "given"

\* Role, existence, first verdict, amount, resolution and reason code.
MayRecord(u, c, verdict, reason) ==
    /\ Role[u] \in MayDecide
    /\ CaseServed(c)
    /\ decisions[c] = NoDecision
    /\ AmountServed(c) = "material" => Role[u] \in MayDecideMaterial
    /\ verdict # "auto_resolved"
    /\ verdict = "overridden" => reason = "given"

DecideCheck(u) ==
    /\ deciders[u].pc = "idle"
    /\ \E c \in Cases, verdict \in Requested, reason \in {"given", "missing"} :
          /\ MayRecord(u, c, verdict, reason)
          /\ deciders' = [deciders EXCEPT
                 ![u] = [pc |-> "checked", case |-> c, verdict |-> verdict]]
    /\ UNCHANGED storeVars

\* record_decision, up to its commit.
DecideCommit(u) ==
    /\ deciders[u].pc = "checked"
    /\ CommitDecision(deciders[u].case, deciders[u].verdict, u)
    /\ deciders' = [deciders EXCEPT ![u].pc = "committed"]
    /\ UNCHANGED <<data, runs, minted, metrics, results, decisions, faults>>

\* The last line of record_decision.
DecideCache(u) ==
    /\ deciders[u].pc = "committed"
    /\ CacheDecision(deciders[u].case, deciders[u].verdict, u)
    /\ deciders' = [deciders EXCEPT ![u].pc = "cached"]
    /\ UNCHANGED <<durableVars, results, faults>>

\* The router's own audit event, and the answer.
DecideAudit(u) ==
    /\ deciders[u].pc = "cached"
    /\ AddAudit(deciders[u].case, deciders[u].verdict, u)
    /\ deciders' = [deciders EXCEPT ![u] = IdleDecider]
    /\ UNCHANGED <<data, runs, minted, rows, metrics, results, decisions, faults>>

\* A 500: before the commit nothing is recorded, after it the decision stands.
DecideRaises(u) ==
    /\ \/ deciders[u].pc = "checked" /\ Raise("decision")
       \/ deciders[u].pc = "cached"  /\ Raise("audit_decision")
    /\ deciders' = [deciders EXCEPT ![u] = IdleDecider]
    /\ UNCHANGED <<durableVars, volatileVars>>

Decide(u) ==
    \/ DecideCheck(u) \/ DecideCommit(u) \/ DecideCache(u)
    \/ DecideAudit(u) \/ DecideRaises(u)

\* The process ends: the requests in flight are gone.
DropDecisionWork == deciders' = [u \in Users |-> IdleDecider]
=============================================================================
