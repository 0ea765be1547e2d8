--------------------------- MODULE Investigation ---------------------------
(***************************************************************************)
(* Requesting an AI investigation of one case (request_investigation in    *)
(* routers/exceptions.py, investigate in ledgergraph_ai/client.py), while  *)
(* re-runs, the demo reset and the end of the process fall between its     *)
(* steps.  The model is asked in a synchronous call: nothing else of the   *)
(* process moves until the bounded retry loop has its outcome.             *)
(***************************************************************************)
EXTENDS Evidence

CONSTANTS
    Requests,    \* the requests for an investigation of the case
    CaseOf,      \* CaseOf[r]: the case as the r-th run computes it; after the last, no run finds it
    Answers,     \* what a provider may answer
    MaxRetries,  \* settings.ai_max_retries
    MaxResets,   \* bound: demo resets
    MaxCrashes   \* bound: ends of the process

ASSUME InvestigationAssumption ==
    /\ MaxRetries \in Nat /\ MaxResets \in Nat /\ MaxCrashes \in Nat
    /\ Len(CaseOf) \in Nat /\ DOMAIN CaseOf = 1..Len(CaseOf)

Runs == DOMAIN CaseOf

\* Amounts are whole minor units, and figures are written with digits.
ASSUME FiguresAssumption ==
    /\ \A r \in Runs :
           /\ CaseOf[r].atRisk \in Int /\ CaseOf[r].bridge \subseteq Int
           /\ CaseOf[r].gate \subseteq Figure
           /\ Len(CaseOf[r].records) \in Nat
           /\ DOMAIN CaseOf[r].records = 1..Len(CaseOf[r].records)
           /\ \A i \in DOMAIN CaseOf[r].records :
                  /\ CaseOf[r].records[i].amounts \subseteq Int
                  /\ CaseOf[r].records[i].digits \subseteq Figure
           /\ \A i \in DOMAIN CaseOf[r].evidence :
                  CaseOf[r].evidence[i].computed \cup CaseOf[r].evidence[i].digits \subseteq Figure
    /\ \A answer \in Answers : answer.numbers \subseteq Figure

VARIABLES
    run,         \* runs completed so far
    row,         \* durable: the run whose row of the case is in exception_cases, or 0
    stored,      \* durable: the requests with a row in ai_investigations
    audited,     \* durable: the requests with an audit event
    served,      \* volatile: the run whose result get_case answers from, or 0
    shown,       \* volatile: the requests whose outcome the case page shows
    calls,       \* how far each request has got
    clearing,    \* a reset is between its TRUNCATE and its cache clearing
    resets, crashes,
    superseded   \* history: the requests whose row a re-run or a reset deleted

admin == <<clearing, resets, crashes>>
vars  == <<run, row, stored, audited, served, shown, calls, admin, superseded>>

NoAnswer == [json |-> FALSE, hypotheses |-> 0, cites |-> {}, numbers |-> {}, uncertainties |-> 0]
NoCall   == [pc |-> "idle", case |-> 0, packet |-> [evidence |-> {}], attempts |-> 0,
             status |-> "unavailable", answer |-> NoAnswer]

\* The packets that requests are answered from, and none.
Packets == {BuildPacket(CaseOf[r], seed) : r \in Runs, seed \in Runs} \cup {NoCall.packet}

Failures == {"schema_invalid", "citation_violation", "numeric_violation"}

CallRec == [pc : {"idle", "run", "ask", "store", "show", "audit", "done", "error"},
            case : 0..Len(CaseOf), packet : Packets, attempts : 0..(MaxRetries + 1),
            status : Failures \cup {"valid", "unavailable"}, answer : Answers \cup {NoAnswer}]

Init ==
    /\ run = 0 /\ row = 0 /\ served = 0
    /\ stored = {} /\ audited = {} /\ shown = {}
    /\ calls = [q \in Requests |-> NoCall]
    /\ clearing = FALSE /\ resets = 0 /\ crashes = 0
    /\ superseded = {}

\* The event loop is inside investigate().
Blocked == \E q \in Requests : calls[q].pc = "ask"

Goto(q, pc) == calls' = [calls EXCEPT ![q].pc = pc]

----------------------------------------------------------------------------
(* The request *)

\* get_case: the first result that has the case, however old.
GetCase(q) ==
    /\ ~Blocked /\ calls[q].pc = "idle" /\ served # 0
    /\ calls' = [calls EXCEPT ![q].pc = "run", ![q].case = served]
    /\ UNCHANGED <<run, row, stored, audited, served, shown, admin, superseded>>

\* latest_run seeds the redactor; packet and provider are built without a pause.
BuildAndAsk(q) ==
    /\ ~Blocked /\ calls[q].pc = "run"
    /\ calls' = [calls EXCEPT ![q].pc = "ask",
                              ![q].packet = BuildPacket(CaseOf[calls[q].case], run)]
    /\ UNCHANGED <<run, row, stored, audited, served, shown, admin, superseded>>

\* Variant: one retry more than the setting says.
TriesLeftGenerous(n) == n <= MaxRetries + 1

\* Variant: one retry less.
TriesLeftShort(n) == n < MaxRetries

\* range(max_retries + 1)
TriesLeft(n) == n <= MaxRetries

\* Variant: the counter starts again with every complaint.
FirstAttempt(q) == 1

NextAttempt(q) == calls[q].attempts + 1

\* One turn of the loop: only an answer that passes is kept.
OutcomeOf(answer, packet) ==
    IF Parses(answer) /\ Verify(answer, packet) = "valid"
    THEN [status |-> "valid", answer |-> answer]
    ELSE [status |-> IF Parses(answer) THEN Verify(answer, packet) ELSE "schema_invalid",
          answer |-> NoAnswer]

\* The loop is left with an outcome; nothing reads the packet after it.
Leaving(call, n, status, answer) ==
    [pc |-> "store", case |-> call.case, packet |-> NoCall.packet,
     attempts |-> n, status |-> status, answer |-> answer]

\* The complaint goes with the next try.
Retrying(call, n, status) == [call EXCEPT !.attempts = n, !.status = status]

\* The provider answers.
Ask(q) ==
    /\ calls[q].pc = "ask"
    /\ \E answer \in Answers :
          LET outcome == OutcomeOf(answer, calls[q].packet)
              n == NextAttempt(q)
          IN  calls' = [calls EXCEPT ![q] =
                  IF outcome.status # "valid" /\ TriesLeft(n)
                  THEN Retrying(@, n, outcome.status)
                  ELSE Leaving(@, n, outcome.status, outcome.answer)]
    /\ UNCHANGED <<run, row, stored, audited, served, shown, admin, superseded>>

\* The provider raises: an outcome too, and no retry.
AskInVain(q) ==
    /\ calls[q].pc = "ask"
    /\ calls' = [calls EXCEPT ![q] = Leaving(@, NextAttempt(q), "unavailable", NoAnswer)]
    /\ UNCHANGED <<run, row, stored, audited, served, shown, admin, superseded>>

\* Variant: an insert that fails is swallowed and the outcome shown.
StoreAnyway(q) ==
    /\ ~Blocked /\ calls[q].pc = "store"
    /\ stored' = IF row # 0 THEN stored \cup {q} ELSE stored
    /\ Goto(q, "show")
    /\ UNCHANGED <<run, row, audited, served, shown, admin, superseded>>

\* add_investigation: a row that references the case's row, or an error.
Store(q) ==
    /\ ~Blocked /\ calls[q].pc = "store"
    /\ IF row # 0 THEN stored' = stored \cup {q} /\ Goto(q, "show")
       ELSE Goto(q, "error") /\ UNCHANGED stored
    /\ UNCHANGED <<run, row, audited, served, shown, admin, superseded>>

\* The line after the commit.
Show(q) ==
    /\ ~Blocked /\ calls[q].pc = "show"
    /\ shown' = shown \cup {q}
    /\ Goto(q, "audit")
    /\ UNCHANGED <<run, row, stored, audited, served, admin, superseded>>

Audit(q) ==
    /\ ~Blocked /\ calls[q].pc = "audit"
    /\ audited' = audited \cup {q}
    /\ Goto(q, "done")
    /\ UNCHANGED <<run, row, stored, served, shown, admin, superseded>>

\* A repository call raises.
Raise(q) ==
    /\ ~Blocked /\ calls[q].pc \in {"run", "store", "audit"}
    /\ Goto(q, "error")
    /\ UNCHANGED <<run, row, stored, audited, served, shown, admin, superseded>>

----------------------------------------------------------------------------
(* The surroundings *)

\* A run completes: its copy of the case replaces the row, whose investigations
\* go with it by cascade; get_case goes on answering from the first result.
Rerun ==
    /\ ~Blocked /\ ~clearing /\ run + 1 \in Runs
    /\ run' = run + 1
    /\ row' = run'
    /\ stored' = {}
    /\ superseded' = superseded \cup stored
    /\ served' = IF served = 0 THEN run' ELSE served
    /\ UNCHANGED <<audited, shown, calls, admin>>

\* reset_reconciliation_data: the TRUNCATE, then the caches.
ResetTruncate ==
    /\ ~Blocked /\ ~clearing /\ resets < MaxResets
    /\ clearing' = TRUE /\ resets' = resets + 1
    /\ row' = 0 /\ stored' = {} /\ audited' = {}
    /\ superseded' = superseded \cup stored
    /\ UNCHANGED <<run, served, shown, calls, crashes>>

ResetClear ==
    /\ ~Blocked /\ clearing
    /\ clearing' = FALSE
    /\ served' = 0 /\ shown' = {}
    /\ UNCHANGED <<run, row, stored, audited, calls, resets, crashes, superseded>>

Crash ==
    /\ crashes < MaxCrashes
    /\ crashes' = crashes + 1
    /\ served' = 0 /\ shown' = {} /\ clearing' = FALSE
    /\ calls' = [q \in Requests |->
           IF calls[q].pc \in {"idle", "done"} THEN calls[q] ELSE [calls[q] EXCEPT !.pc = "error"]]
    /\ UNCHANGED <<run, row, stored, audited, resets, superseded>>

Serve(q) == GetCase(q) \/ BuildAndAsk(q) \/ Ask(q) \/ AskInVain(q)
            \/ Store(q) \/ Show(q) \/ Audit(q) \/ Raise(q)

Next == (\E q \in Requests : Serve(q)) \/ Rerun \/ ResetTruncate \/ ResetClear \/ Crash

Spec == Init /\ [][Next]_vars

\* A provider answers or times out, and the loop goes on with either.
FairSpec == Spec /\ WF_vars(\E q \in Requests : Ask(q) \/ AskInVain(q))

----------------------------------------------------------------------------
(* Properties *)

TypeOK ==
    /\ run \in 0..Len(CaseOf) /\ row \in 0..run /\ served \in 0..run
    /\ stored \subseteq Requests /\ audited \subseteq Requests
    /\ shown \subseteq Requests /\ superseded \subseteq Requests
    /\ calls \in [Requests -> CallRec]
    /\ \A q \in Requests : calls[q].case <= run
    /\ clearing \in BOOLEAN /\ resets \in 0..MaxResets /\ crashes \in 0..MaxCrashes

CitesEvidence(call) ==
    call.answer.cites # {} /\ call.answer.cites \subseteq DOMAIN CaseOf[call.case].evidence

\* What a recorded answer says is grounded in the packet that it answered, at
\* whatever try it came: each citation is evidence of the case and each figure
\* above the ceiling has the digits of one the engine computed or the packet
\* shows; a refused answer is never kept (client.py:161, verify.py:60).
KeptAnswerIsGrounded ==
    \A q \in Requests :
        /\ calls[q].answer # NoAnswer <=> calls[q].status = "valid"
        /\ calls[q].status = "valid" =>
               /\ CitesEvidence(calls[q])
               /\ \A t \in calls[q].answer.numbers :
                     \/ t.places = 0 /\ t.coef < SmallNumberCeiling
                     \/ \E c \in ComputedValues(CaseOf[calls[q].case])
                                  \cup Mentioned(CaseOf[calls[q].case]) : Trimmed(t.coef) = Trimmed(c.coef)

\* A refusal is recorded only after every try was used, and never more than
\* the setting allows (client.py:161, client.py:172).
GivesUpInTime ==
    \A q \in Requests : calls[q].pc \notin {"idle", "run", "ask", "error"} =>
        /\ calls[q].attempts \in 1..(MaxRetries + 1)
        /\ calls[q].status \in Failures => calls[q].attempts = MaxRetries + 1

\* What the case page shows was recorded, unless a re-run or a reset has
\* deleted the row since (store_postgres.py:676).
ShownWasRecorded == shown \subseteq stored \cup superseded

\* Two customers of a case are never told as one, although their tokens
\* collide, and one is never told as two (redact.py:71).
NamesStayApart ==
    \A q \in Requests : calls[q].pc = "ask" =>
        LET names   == calls[q].packet.names
            records == CaseOf[calls[q].case].records
        IN  \A i, j \in DOMAIN records :
                names[i] = names[j] <=> records[i].customer = records[j].customer

\* The loop that holds the event loop comes to an end.
LoopEnds == Blocked ~> ~Blocked

\* verify.py:20: every number must be one that "the engine put in the packet".
NumbersAreTheEngines ==
    \A q \in Requests : calls[q].status = "valid" =>
        \A t \in calls[q].answer.numbers :
            \/ t.places = 0 /\ t.coef < SmallNumberCeiling
            \/ \E c \in ComputedValues(CaseOf[calls[q].case])
                         \cup Mentioned(CaseOf[calls[q].case]) : SameValue(t, c)

----------------------------------------------------------------------------
(* The invariant that the safety properties follow from.                   *)

\* The figures of the answer were found among those of a packet of the case.
Passed(call) == \E seed \in Runs :
    UngroundedNumbers(call.answer, BuildPacket(CaseOf[call.case], seed)) = {}

\* What the step of a request says of the runs, of its tries and of its row.
CallOK(q) ==
    LET call == calls[q]
    IN  /\ call.pc \in {"idle", "run"} => call.attempts = 0 /\ call.status # "valid"
        /\ call.pc \in {"run", "ask"} => call.case # 0
        /\ call.pc = "ask" =>
               /\ call.attempts <= MaxRetries /\ call.status # "valid"
               /\ \E seed \in Runs : call.packet = BuildPacket(CaseOf[call.case], seed)
        /\ call.pc \in {"show", "audit", "done"} => q \in stored \cup superseded
        /\ call.answer # NoAnswer <=> call.status = "valid"
        /\ call.status = "valid" => call.case # 0 /\ CitesEvidence(call) /\ Passed(call)

IInv ==
    /\ TypeOK
    /\ \A q \in Requests : CallOK(q)
    /\ GivesUpInTime /\ ShownWasRecorded

\* The figures of the case have at most two decimal places and, with 53 bits,
\* less than nine million million units in the last of them: a float holds each
\* and its hundredfold closely enough to round back to the number itself.
FiguresFitFloats ==
    \A r \in Runs : \A t \in ComputedValues(CaseOf[r]) :
        t.places <= 2 /\ 1000 * t.coef <= Two[FloatBits]
=============================================================================
