------------------------- MODULE Investigation_proofs -------------------------
(***************************************************************************)
(* Proofs about Investigation: IInv is inductive, so a refusal has used    *)
(* every try, what is shown was recorded, and a kept answer cites only     *)
(* evidence of its case.                                                   *)
(***************************************************************************)
EXTENDS Investigation, Numbers_proofs, TLAPS

\* A call after its step was changed and nothing else.
LEMMA GotoMoves ==
    ASSUME NEW q \in Requests, NEW pc \in {"ask", "run", "show", "audit", "done", "error"},
           calls \in [Requests -> CallRec], Goto(q, pc)
    PROVE  /\ calls' \in [Requests -> CallRec]
           /\ calls'[q].pc = pc /\ calls'[q].case = calls[q].case
           /\ calls'[q].packet = calls[q].packet /\ calls'[q].attempts = calls[q].attempts
           /\ calls'[q].status = calls[q].status /\ calls'[q].answer = calls[q].answer
           /\ \A p \in Requests \ {q} : calls'[p] = calls[p]
<1> DEFINE now == [calls[q] EXCEPT !.pc = pc]
<1>1. calls' = [calls EXCEPT ![q] = now] /\ calls[q] \in CallRec
  BY DEF Goto
<1>2. /\ now \in CallRec /\ now.pc = pc /\ now.case = calls[q].case
      /\ now.packet = calls[q].packet /\ now.attempts = calls[q].attempts
      /\ now.status = calls[q].status /\ now.answer = calls[q].answer
  BY <1>1 DEF CallRec
<1> HIDE DEF now
<1> QED  BY <1>1, <1>2

\* A turn of the loop that leaves it.
LEMMA LeavingTells ==
    ASSUME NEW call \in CallRec, NEW n \in 0..(MaxRetries + 1),
           NEW status \in Failures \cup {"valid", "unavailable"}, NEW answer \in Answers \cup {NoAnswer}
    PROVE  LET after == Leaving(call, n, status, answer)
           IN  /\ after \in CallRec /\ after.pc = "store" /\ after.case = call.case
               /\ after.attempts = n /\ after.status = status /\ after.answer = answer
<1>1. NoCall.packet \in Packets
  BY DEF Packets
<1> QED  BY <1>1 DEF Leaving, CallRec

\* A failed try is counted and names its failure; the call is otherwise as it was.
LEMMA RetryingTells ==
    ASSUME NEW call \in CallRec, NEW n \in 0..(MaxRetries + 1),
           NEW status \in Failures \cup {"valid", "unavailable"}
    PROVE  LET after == Retrying(call, n, status)
           IN  /\ after \in CallRec /\ after.pc = call.pc /\ after.case = call.case
               /\ after.packet = call.packet /\ after.answer = call.answer
               /\ after.attempts = n /\ after.status = status
<1> DEFINE tried == [call EXCEPT !.attempts = n]
           after == [tried EXCEPT !.status = status]
<1>1. /\ tried \in CallRec /\ tried.pc = call.pc /\ tried.case = call.case
      /\ tried.packet = call.packet /\ tried.answer = call.answer /\ tried.attempts = n
  BY DEF CallRec
<1>2. Retrying(call, n, status) = after
  BY DEF Retrying
<1> HIDE DEF tried
<1>3. /\ after \in CallRec /\ after.pc = tried.pc /\ after.case = tried.case
      /\ after.packet = tried.packet /\ after.answer = tried.answer
      /\ after.attempts = tried.attempts /\ after.status = status
  BY <1>1 DEF CallRec
<1> HIDE DEF after
<1> QED  BY <1>1, <1>2, <1>3

\* GetCase takes the served version of the case and changes no other request.
LEMMA GetCaseTells ==
    ASSUME NEW q \in Requests, GetCase(q), calls \in [Requests -> CallRec],
           served \in 0..Len(CaseOf)
    PROVE  /\ calls' \in [Requests -> CallRec]
           /\ calls'[q].pc = "run" /\ calls'[q].case = served
           /\ calls'[q].packet = calls[q].packet /\ calls'[q].attempts = calls[q].attempts
           /\ calls'[q].status = calls[q].status /\ calls'[q].answer = calls[q].answer
           /\ \A p \in Requests \ {q} : calls'[p] = calls[p]
<1> DEFINE one == [calls[q] EXCEPT !.pc = "run"]
           two == [one EXCEPT !.case = served]
<1>1. /\ one \in CallRec /\ one.pc = "run" /\ one.packet = calls[q].packet
      /\ one.attempts = calls[q].attempts /\ one.status = calls[q].status
      /\ one.answer = calls[q].answer
  BY DEF CallRec
<1>2. calls' = [[calls EXCEPT ![q] = one] EXCEPT ![q].case = served]
  BY DEF GetCase
<1> HIDE DEF one
<1>3. calls' = [calls EXCEPT ![q] = two]
  BY <1>1, <1>2
<1>4. /\ two \in CallRec /\ two.pc = one.pc /\ two.packet = one.packet
      /\ two.attempts = one.attempts /\ two.status = one.status
      /\ two.answer = one.answer /\ two.case = served
  BY <1>1 DEF CallRec
<1> HIDE DEF two
<1> QED  BY <1>1, <1>3, <1>4

\* BuildAndAsk builds the packet of the case that was read, and of no other.
LEMMA BuildTells ==
    ASSUME NEW q \in Requests, BuildAndAsk(q), calls \in [Requests -> CallRec],
           calls[q].case \in Runs, run \in Runs
    PROVE  /\ calls' \in [Requests -> CallRec]
           /\ calls'[q].pc = "ask" /\ calls'[q].case = calls[q].case
           /\ \E seed \in Runs : calls'[q].packet = BuildPacket(CaseOf[calls[q].case], seed)
           /\ calls'[q].attempts = calls[q].attempts
           /\ calls'[q].status = calls[q].status /\ calls'[q].answer = calls[q].answer
           /\ \A p \in Requests \ {q} : calls'[p] = calls[p]
<1> DEFINE packet == BuildPacket(CaseOf[calls[q].case], run)
           one == [calls[q] EXCEPT !.pc = "ask"]
           two == [one EXCEPT !.packet = packet]
<1>1. packet \in Packets /\ \E seed \in Runs : packet = BuildPacket(CaseOf[calls[q].case], seed)
  BY DEF Packets
<1>2. /\ one \in CallRec /\ one.pc = "ask" /\ one.case = calls[q].case
      /\ one.attempts = calls[q].attempts /\ one.status = calls[q].status
      /\ one.answer = calls[q].answer
  BY DEF CallRec
<1>3. calls' = [[calls EXCEPT ![q] = one] EXCEPT ![q].packet = packet]
  BY DEF BuildAndAsk
<1> HIDE DEF one, packet
<1>4. calls' = [calls EXCEPT ![q] = two]
  BY <1>2, <1>3
<1>5. /\ two \in CallRec /\ two.pc = one.pc /\ two.packet = packet
      /\ two.attempts = one.attempts /\ two.status = one.status
      /\ two.answer = one.answer /\ two.case = one.case
  BY <1>1, <1>2 DEF CallRec
<1> HIDE DEF two
<1> QED  BY <1>1, <1>2, <1>4, <1>5
----------------------------------------------------------------------------
(* What the answer of a provider leads to.                                 *)

\* An outcome is valid exactly when an answer is kept, and it was verified then.
LEMMA OutcomeTells ==
    ASSUME NEW answer \in Answers, NEW packet
    PROVE  LET outcome == OutcomeOf(answer, packet)
           IN  /\ outcome.status \in Failures \cup {"valid"}
               /\ outcome.answer \in Answers \cup {NoAnswer}
               /\ outcome.answer # NoAnswer <=> outcome.status = "valid"
               /\ outcome.status = "valid" =>
                      /\ outcome.answer.cites # {}
                      /\ outcome.answer.cites \subseteq packet.evidence
                      /\ UngroundedNumbers(outcome.answer, packet) = {}
<1>1. /\ Verify(answer, packet) \in Failures \cup {"valid"}
      /\ Verify(answer, packet) = "valid" => /\ answer.cites \subseteq packet.evidence
                                            /\ UngroundedNumbers(answer, packet) = {}
  <2>1. CASE UnknownCitations(answer, packet) # {}
    BY <2>1 DEF Verify, Failures
  <2>2. CASE UnknownCitations(answer, packet) = {} /\ UngroundedNumbers(answer, packet) # {}
    BY <2>2 DEF Verify, Failures
  <2>3. CASE UnknownCitations(answer, packet) = {} /\ UngroundedNumbers(answer, packet) = {}
    BY <2>3 DEF Verify, UnknownCitations
  <2> QED  BY <2>1, <2>2, <2>3
<1>2. CASE Parses(answer) /\ Verify(answer, packet) = "valid"
  <2>1. answer.cites # {}
    BY <1>2 DEF Parses
  <2>2. answer # NoAnswer
    <3>1. NoAnswer.cites = {}
      BY DEF NoAnswer
    <3> QED  BY <2>1, <3>1
  <2> QED  BY <1>1, <1>2, <2>1, <2>2 DEF OutcomeOf
<1>3. CASE ~(Parses(answer) /\ Verify(answer, packet) = "valid")
  BY <1>1, <1>3 DEF OutcomeOf, Failures
<1> QED  BY <1>2, <1>3

\* A try is counted, and either fails, or leaves the loop with a verified answer
\* or with none.
LEMMA AskTells ==
    ASSUME TypeOK, NEW q \in Requests, CallOK(q), Ask(q) \/ AskInVain(q)
    PROVE  /\ calls' \in [Requests -> CallRec]
           /\ \A p \in Requests \ {q} : calls'[p] = calls[p]
           /\ calls'[q].case = calls[q].case /\ calls[q].case # 0
           /\ calls'[q].attempts = calls[q].attempts + 1
           /\ calls'[q].answer # NoAnswer <=> calls'[q].status = "valid"
           /\ calls'[q].status = "valid" => CitesEvidence(calls'[q]) /\ Passed(calls'[q])
           /\ \/ /\ calls'[q].pc = "ask" /\ calls'[q].status # "valid"
                 /\ calls'[q].packet = calls[q].packet /\ calls'[q].attempts <= MaxRetries
              \/ /\ calls'[q].pc = "store"
                 /\ calls'[q].status \in Failures => calls'[q].attempts > MaxRetries
<1> DEFINE n == NextAttempt(q)  packet == calls[q].packet
<1>0. /\ calls \in [Requests -> CallRec] /\ calls[q] \in CallRec
      /\ calls[q].pc = "ask" /\ calls[q].case # 0
      /\ calls[q].answer = NoAnswer
      /\ \E seed \in Runs : packet = BuildPacket(CaseOf[calls[q].case], seed)
      /\ packet.evidence = DOMAIN CaseOf[calls[q].case].evidence
      /\ calls[q].attempts \in 0..MaxRetries
  <2>1. calls \in [Requests -> CallRec] /\ calls[q] \in CallRec /\ calls[q].pc = "ask"
    BY DEF TypeOK, Ask, AskInVain
  <2>2. calls[q].attempts \in 0..(MaxRetries + 1)
    BY <2>1 DEF CallRec
  <2>3. \A case, seed : BuildPacket(case, seed).evidence = DOMAIN case.evidence
    BY DEF BuildPacket
  <2> QED  BY <2>1, <2>2, <2>3, InvestigationAssumption DEF CallOK
<1>1. n = calls[q].attempts + 1 /\ n \in 0..(MaxRetries + 1)
  BY <1>0, InvestigationAssumption DEF NextAttempt
<1>2. CASE AskInVain(q)
  <2> DEFINE after == Leaving(calls[q], n, "unavailable", NoAnswer)
  <2>1. /\ after \in CallRec /\ after.pc = "store" /\ after.case = calls[q].case
        /\ after.attempts = n /\ after.status = "unavailable" /\ after.answer = NoAnswer
    BY <1>0, <1>1, LeavingTells
  <2>2. calls' = [calls EXCEPT ![q] = after]
    BY <1>2 DEF AskInVain
  <2> HIDE DEF after
  <2>3. calls' \in [Requests -> CallRec] /\ calls'[q] = after
        /\ \A p \in Requests \ {q} : calls'[p] = calls[p]
    BY <1>0, <2>1, <2>2
  <2>4. calls'[q].status \notin Failures \cup {"valid"}
    BY <2>1, <2>3 DEF Failures
  <2> QED  BY <1>0, <1>1, <2>1, <2>3, <2>4
<1>3. CASE Ask(q)
  <2>1. PICK answer \in Answers :
            calls' = [calls EXCEPT ![q] =
                IF OutcomeOf(answer, packet).status # "valid" /\ TriesLeft(n)
                THEN Retrying(calls[q], n, OutcomeOf(answer, packet).status)
                ELSE Leaving(calls[q], n, OutcomeOf(answer, packet).status,
                             OutcomeOf(answer, packet).answer)]
    BY <1>3 DEF Ask
  <2> DEFINE status == OutcomeOf(answer, packet).status  kept == OutcomeOf(answer, packet).answer
  <2>2. /\ status \in Failures \cup {"valid"} /\ kept \in Answers \cup {NoAnswer}
        /\ kept # NoAnswer <=> status = "valid"
        /\ status = "valid" => /\ kept.cites # {} /\ kept.cites \subseteq packet.evidence
                               /\ UngroundedNumbers(kept, packet) = {}
    BY OutcomeTells
  <2> HIDE DEF status, kept
  <2>3. CASE status # "valid" /\ TriesLeft(n)
    <3> DEFINE after == Retrying(calls[q], n, status)
    <3>1. /\ after \in CallRec /\ after.pc = "ask" /\ after.case = calls[q].case
          /\ after.packet = packet /\ after.attempts = n /\ after.status = status
          /\ after.answer = NoAnswer
      BY <1>0, <1>1, <2>2, RetryingTells
    <3>2. calls' = [calls EXCEPT ![q] = after]
      BY <2>1, <2>3 DEF status, kept
    <3> HIDE DEF after
    <3>3. calls' \in [Requests -> CallRec] /\ calls'[q] = after
          /\ \A p \in Requests \ {q} : calls'[p] = calls[p]
      BY <1>0, <3>1, <3>2
    <3>4. n <= MaxRetries
      BY <2>3 DEF TriesLeft
    <3> QED  BY <1>0, <1>1, <2>3, <3>1, <3>3, <3>4
  <2>4. CASE ~(status # "valid" /\ TriesLeft(n))
    <3> DEFINE after == Leaving(calls[q], n, status, kept)
    <3>1. /\ after \in CallRec /\ after.pc = "store" /\ after.case = calls[q].case
          /\ after.attempts = n /\ after.status = status /\ after.answer = kept
      <4>1. status \in Failures \cup {"valid", "unavailable"} /\ kept \in Answers \cup {NoAnswer}
        BY <2>2
      <4> HIDE <2>2
      <4> QED  BY <1>0, <1>1, <4>1, LeavingTells
    <3>2. calls' = [calls EXCEPT ![q] = after]
      BY <2>1, <2>4 DEF status, kept
    <3> HIDE DEF after
    <3>3. calls' \in [Requests -> CallRec] /\ calls'[q] = after
          /\ \A p \in Requests \ {q} : calls'[p] = calls[p]
      BY <1>0, <3>1, <3>2
    <3>4. status \in Failures => n > MaxRetries
      BY <1>1, <2>4, InvestigationAssumption DEF TriesLeft, Failures
    <3>5. status = "valid" => CitesEvidence(after) /\ Passed(after)
      BY <1>0, <2>2, <3>1 DEF CitesEvidence, Passed
    <3> QED  BY <1>0, <1>1, <2>2, <3>1, <3>3, <3>4, <3>5
  <2> QED  BY <2>3, <2>4
<1> QED  BY <1>2, <1>3

\* A crash ends the requests under way and changes nothing that they had found.
LEMMA CrashTells ==
    ASSUME calls \in [Requests -> CallRec], Crash
    PROVE  /\ calls' \in [Requests -> CallRec]
           /\ \A q \in Requests :
                  /\ calls'[q].case = calls[q].case /\ calls'[q].packet = calls[q].packet
                  /\ calls'[q].attempts = calls[q].attempts
                  /\ calls'[q].status = calls[q].status /\ calls'[q].answer = calls[q].answer
                  /\ \/ calls'[q].pc = "error"
                     \/ calls'[q].pc = calls[q].pc /\ calls[q].pc \in {"idle", "done"}
<1> DEFINE After(q) == IF calls[q].pc \in {"idle", "done"} THEN calls[q]
                       ELSE [calls[q] EXCEPT !.pc = "error"]
<1>1. calls' = [q \in Requests |-> After(q)]
  BY DEF Crash
<1>2. \A q \in Requests :
          /\ After(q) \in CallRec
          /\ After(q).case = calls[q].case /\ After(q).packet = calls[q].packet
          /\ After(q).attempts = calls[q].attempts
          /\ After(q).status = calls[q].status /\ After(q).answer = calls[q].answer
          /\ \/ After(q).pc = "error"
             \/ After(q).pc = calls[q].pc /\ calls[q].pc \in {"idle", "done"}
  BY DEF CallRec
<1> HIDE DEF After
<1> QED  BY <1>1, <1>2

----------------------------------------------------------------------------
(* The parts of the invariant.                                             *)

\* A request moves by its step alone, and only from the steps that are listed.
Moves(q, from, to) ==
    /\ calls[q].pc \in from /\ calls'[q].pc = to
    /\ calls'[q].case = calls[q].case /\ calls'[q].packet = calls[q].packet
    /\ calls'[q].attempts = calls[q].attempts
    /\ calls'[q].status = calls[q].status /\ calls'[q].answer = calls[q].answer

\* What can become of a request in one step.
Advances(q) ==
    \/ calls'[q] = calls[q]
    \/ /\ calls[q].pc = "idle" /\ calls'[q].pc = "run" /\ calls'[q].case # 0
       /\ calls'[q].attempts = calls[q].attempts /\ calls'[q].status = calls[q].status
       /\ calls'[q].answer = calls[q].answer
    \/ /\ calls[q].pc = "run" /\ calls'[q].pc = "ask" /\ calls'[q].case = calls[q].case
       /\ \E seed \in Runs : calls'[q].packet = BuildPacket(CaseOf[calls'[q].case], seed)
       /\ calls'[q].attempts = calls[q].attempts /\ calls'[q].status = calls[q].status
       /\ calls'[q].answer = calls[q].answer
    \/ /\ Ask(q) \/ AskInVain(q)
    \/ Moves(q, {"store"}, "show") /\ stored' = stored \cup {q}
    \/ Moves(q, {"show"}, "audit") \/ Moves(q, {"audit"}, "done")
    \/ Moves(q, {"run", "ask", "store", "show", "audit"}, "error")

\* A request moves along its path only, whoever takes the step.
LEMMA RequestsAdvance ==
    ASSUME TypeOK, \A p \in Requests : CallOK(p), [Next]_vars
    PROVE  /\ calls' \in [Requests -> CallRec]
           /\ \A q \in Requests : calls'[q].case <= run'
           /\ \A q \in Requests : Advances(q)
<1>0. /\ calls \in [Requests -> CallRec]
      /\ \A q \in Requests : calls[q].case \in 0..run
      /\ run \in 0..Len(CaseOf) /\ served \in 0..run
  <2>1. calls \in [Requests -> CallRec] /\ run \in 0..Len(CaseOf) /\ served \in 0..run
    BY DEF TypeOK
  <2>2. \A q \in Requests : calls[q].case \in 0..Len(CaseOf) /\ calls[q].case <= run
    BY <2>1 DEF TypeOK, CallRec
  <2> QED  BY <2>1, <2>2, InvestigationAssumption
<1>1. ASSUME NEW q \in Requests, Serve(q)
      PROVE  /\ calls' \in [Requests -> CallRec]
             /\ calls'[q].case \in 0..run
             /\ \A p \in Requests \ {q} : calls'[p] = calls[p]
             /\ Advances(q) /\ run' = run
  <2>1. CASE GetCase(q)
    <3>1. served \in 0..Len(CaseOf) /\ served # 0 /\ calls[q].pc = "idle" /\ run' = run
      BY <1>0, <2>1, InvestigationAssumption DEF GetCase
    <3> QED  BY <1>0, <2>1, <3>1, GetCaseTells DEF Advances
  <2>2. CASE BuildAndAsk(q)
    <3>1. calls[q].pc = "run" /\ run' = run
      BY <2>2 DEF BuildAndAsk
    <3>2. calls[q].case # 0
      BY <3>1 DEF CallOK
    <3>3. calls[q].case \in Runs /\ run \in Runs
      BY <1>0, <3>2, InvestigationAssumption DEF Runs
    <3> QED  BY <1>0, <2>2, <3>1, <3>3, BuildTells DEF Advances
  <2>3. CASE Ask(q) \/ AskInVain(q)
    <3>1. run' = run
      BY <2>3 DEF Ask, AskInVain
    <3> QED  BY <1>0, <2>3, <3>1, AskTells DEF Advances
  <2>4. CASE Store(q)
    <3>1. /\ calls[q].pc = "store" /\ run' = run
          /\ \/ stored' = stored \cup {q} /\ Goto(q, "show")
             \/ Goto(q, "error")
      BY <2>4 DEF Store
    <3> QED  BY <1>0, <3>1, GotoMoves DEF Advances, Moves
  <2>5. CASE Show(q) \/ Audit(q) \/ Raise(q)
    <3>1. /\ run' = run
          /\ \/ calls[q].pc = "show" /\ Goto(q, "audit")
             \/ calls[q].pc = "audit" /\ Goto(q, "done")
             \/ calls[q].pc \in {"run", "store", "audit"} /\ Goto(q, "error")
      BY <2>5 DEF Show, Audit, Raise
    <3> QED  BY <1>0, <3>1, GotoMoves DEF Advances, Moves
  <2> QED  BY <1>1, <2>1, <2>2, <2>3, <2>4, <2>5 DEF Serve
<1>2. CASE Crash
  <2>1. run' = run
    BY <1>2 DEF Crash
  <2>2. ASSUME NEW q \in Requests
        PROVE  Advances(q) /\ calls'[q].case = calls[q].case
    <3>1. calls[q].pc \in {"idle", "done"} => calls'[q] = calls[q]
      BY <1>2 DEF Crash
    <3>2. calls[q].pc \notin {"idle", "done"} => calls'[q].pc = "error"
      BY <1>0, <1>2, CrashTells
    <3>3. calls[q].pc = "error" => calls'[q] = calls[q]
      <4>1. calls[q].pc = "error" => [calls[q] EXCEPT !.pc = "error"] = calls[q]
        BY <1>0 DEF CallRec
      <4>2. calls[q].pc = "error" => calls'[q] = [calls[q] EXCEPT !.pc = "error"]
        BY <1>2 DEF Crash
      <4> QED  BY <4>1, <4>2
    <3>4. calls[q].pc \in {"idle", "run", "ask", "store", "show", "audit", "done", "error"}
      BY <1>0 DEF CallRec
    <3> QED  BY <1>0, <1>2, <3>1, <3>2, <3>3, <3>4, CrashTells DEF Advances, Moves
  <2>3. calls' \in [Requests -> CallRec]
    BY <1>0, <1>2, CrashTells
  <2> QED  BY <1>0, <2>1, <2>2, <2>3
<1>3. CASE UNCHANGED calls /\ run' \in {run, run + 1}
  BY <1>0, <1>3, InvestigationAssumption DEF Advances
<1>4. Crash \/ (UNCHANGED calls /\ run' \in {run, run + 1}) \/ \E q \in Requests : Serve(q)
  BY DEF Next, vars, Rerun, ResetTruncate, ResetClear
<1>5. ASSUME NEW q \in Requests, Serve(q)
      PROVE  /\ \A p \in Requests : calls'[p].case <= run'
             /\ \A p \in Requests : Advances(p)
  BY <1>0, <1>1, <1>5 DEF Advances
<1> QED  BY <1>1, <1>2, <1>3, <1>4, <1>5

\* Every step keeps the types.
LEMMA TypeStep ==
    ASSUME TypeOK, \A q \in Requests : CallOK(q), [Next]_vars
    PROVE  TypeOK'
<1>1. calls' \in [Requests -> CallRec] /\ \A q \in Requests : calls'[q].case <= run'
  BY RequestsAdvance
<1>0. /\ run \in 0..Len(CaseOf) /\ row \in 0..run /\ served \in 0..run
      /\ resets \in 0..MaxResets /\ crashes \in 0..MaxCrashes /\ clearing \in BOOLEAN
  BY DEF TypeOK
<1>2. /\ run' \in 0..Len(CaseOf) /\ row' \in 0..run' /\ served' \in 0..run'
      /\ resets' \in 0..MaxResets /\ crashes' \in 0..MaxCrashes
  <2> USE <1>0, InvestigationAssumption
  <2>1. CASE Rerun
    BY <2>1 DEF Rerun, admin, Runs
  <2>2. CASE ResetTruncate
    BY <2>2 DEF ResetTruncate
  <2>3. CASE UNCHANGED <<run, row, resets, crashes>> /\ served' = 0
    BY <2>3
  <2>4. CASE Crash
    BY <2>4 DEF Crash
  <2>5. CASE UNCHANGED <<run, row, served, resets, crashes>>
    BY <2>5
  <2>6. \/ Rerun \/ ResetTruncate \/ Crash
        \/ UNCHANGED <<run, row, resets, crashes>> /\ served' = 0
        \/ UNCHANGED <<run, row, served, resets, crashes>>
    BY DEF Next, Serve, vars, admin, GetCase, BuildAndAsk, Ask, AskInVain, Store, Show, Audit,
           Raise, ResetClear
  <2> QED  BY <2>1, <2>2, <2>3, <2>4, <2>5, <2>6
<1>4. clearing' \in BOOLEAN
  <2>1. clearing' \in {clearing, TRUE, FALSE}
    BY DEF Next, Serve, vars, admin, GetCase, BuildAndAsk, Ask, AskInVain, Store, Show, Audit,
           Raise, Rerun, ResetTruncate, ResetClear, Crash
  <2> QED  BY <1>0, <2>1
<1>3. /\ stored' \subseteq Requests /\ audited' \subseteq Requests
      /\ shown' \subseteq Requests /\ superseded' \subseteq Requests
  <2> USE DEF TypeOK
  <2>1. ASSUME NEW q \in Requests, Serve(q)
        PROVE  /\ stored' \in {stored, stored \cup {q}} /\ audited' \in {audited, audited \cup {q}}
               /\ shown' \in {shown, shown \cup {q}} /\ superseded' = superseded
    BY <2>1 DEF Serve, GetCase, BuildAndAsk, Ask, AskInVain, Store, Show, Audit, Raise
  <2>2. CASE Rerun \/ ResetTruncate \/ ResetClear \/ Crash
    BY <2>2 DEF Rerun, ResetTruncate, ResetClear, Crash
  <2>3. CASE UNCHANGED vars
    BY <2>3 DEF vars
  <2> QED  BY <2>1, <2>2, <2>3 DEF Next
<1> QED  BY <1>1, <1>2, <1>3, <1>4 DEF TypeOK

\* A row that was recorded is there, or a re-run or a reset deleted it.
LEMMA RecordedGrows ==
    ASSUME [Next]_vars
    PROVE  stored \cup superseded \subseteq stored' \cup superseded'
<1>1. ASSUME NEW q \in Requests, Serve(q)
      PROVE  stored \subseteq stored' /\ superseded' = superseded
  BY <1>1 DEF Serve, GetCase, BuildAndAsk, Ask, AskInVain, Store, Show, Audit, Raise
<1>2. CASE Rerun \/ ResetTruncate \/ ResetClear \/ Crash
  BY <1>2 DEF Rerun, ResetTruncate, ResetClear, Crash
<1>3. CASE UNCHANGED vars
  BY <1>3 DEF vars
<1> QED  BY <1>1, <1>2, <1>3 DEF Next

\* Every step keeps what holds of a request, and the count of its tries.
LEMMA RequestStep ==
    ASSUME IInv, [Next]_vars, NEW q \in Requests
    PROVE  /\ CallOK(q)'
           /\ calls'[q].pc \notin {"idle", "run", "ask", "error"} =>
                  /\ calls'[q].attempts \in 1..(MaxRetries + 1)
                  /\ calls'[q].status \in Failures => calls'[q].attempts = MaxRetries + 1
<1>0. /\ CallOK(q) /\ calls[q] \in CallRec
      /\ calls[q].attempts \in 0..(MaxRetries + 1)
      /\ calls[q].pc \notin {"idle", "run", "ask", "error"} =>
             /\ calls[q].attempts \in 1..(MaxRetries + 1)
             /\ calls[q].status \in Failures => calls[q].attempts = MaxRetries + 1
  <2>1. calls[q] \in CallRec
    BY DEF IInv, TypeOK
  <2> QED  BY <2>1 DEF IInv, GivesUpInTime, CallRec
<1>1. Advances(q)
  BY RequestsAdvance DEF IInv
<1>2. q \in stored \cup superseded => q \in stored' \cup superseded'
  BY RecordedGrows
<1>3. CASE calls'[q] = calls[q]
  BY <1>0, <1>2, <1>3 DEF CallOK
<1>4. CASE calls[q].pc = "idle" /\ calls'[q].pc = "run" /\ calls'[q].case # 0
           /\ calls'[q].attempts = calls[q].attempts /\ calls'[q].status = calls[q].status
           /\ calls'[q].answer = calls[q].answer
  BY <1>0, <1>4 DEF CallOK
<1>5. CASE /\ calls[q].pc = "run" /\ calls'[q].pc = "ask" /\ calls'[q].case = calls[q].case
           /\ \E seed \in Runs : calls'[q].packet = BuildPacket(CaseOf[calls'[q].case], seed)
           /\ calls'[q].attempts = calls[q].attempts /\ calls'[q].status = calls[q].status
           /\ calls'[q].answer = calls[q].answer
  BY <1>0, <1>5, InvestigationAssumption DEF CallOK
<1>6. CASE Ask(q) \/ AskInVain(q)
  <2>1. /\ calls'[q].case = calls[q].case /\ calls[q].case # 0
        /\ calls'[q].attempts = calls[q].attempts + 1
        /\ calls'[q].answer # NoAnswer <=> calls'[q].status = "valid"
        /\ calls'[q].status = "valid" => CitesEvidence(calls'[q]) /\ Passed(calls'[q])
        /\ \/ /\ calls'[q].pc = "ask" /\ calls'[q].status # "valid"
              /\ calls'[q].packet = calls[q].packet /\ calls'[q].attempts <= MaxRetries
           \/ /\ calls'[q].pc = "store"
              /\ calls'[q].status \in Failures => calls'[q].attempts > MaxRetries
    BY <1>0, <1>6, AskTells DEF IInv
  <2>2. calls'[q].attempts \in 0..(MaxRetries + 1)
    <3>1. calls' \in [Requests -> CallRec]
      BY RequestsAdvance DEF IInv
    <3> QED  BY <3>1 DEF CallRec
  <2>3. calls[q].pc = "ask"
    BY <1>6 DEF Ask, AskInVain
  <2>4. CASE calls'[q].pc = "ask"
    <3>1. \E seed \in Runs : calls'[q].packet = BuildPacket(CaseOf[calls'[q].case], seed)
      BY <1>0, <2>1, <2>3, <2>4 DEF CallOK
    <3> QED  BY <2>1, <2>4, <3>1 DEF CallOK
  <2>5. CASE calls'[q].pc = "store"
    <3>1. calls'[q].attempts >= 1
      BY <1>0, <2>1
    <3> QED  BY <2>1, <2>2, <2>5, <3>1, InvestigationAssumption DEF CallOK
  <2> QED  BY <2>1, <2>4, <2>5
<1>7. ASSUME NEW from, NEW to \in {"show", "audit", "done", "error"}, Moves(q, from, to),
             to # "error" => q \in stored' \cup superseded',
             to # "error" => calls[q].pc \notin {"idle", "run", "ask", "error"}
      PROVE  /\ CallOK(q)'
             /\ calls'[q].pc \notin {"idle", "run", "ask", "error"} =>
                  /\ calls'[q].attempts \in 1..(MaxRetries + 1)
                  /\ calls'[q].status \in Failures => calls'[q].attempts = MaxRetries + 1
  BY <1>0, <1>7 DEF CallOK, CitesEvidence, Passed, Moves
<1>8. CASE Moves(q, {"store"}, "show") /\ stored' = stored \cup {q}
  BY <1>7, <1>8 DEF Moves
<1>9. CASE Moves(q, {"show"}, "audit") \/ Moves(q, {"audit"}, "done")
  BY <1>0, <1>2, <1>7, <1>9 DEF Moves, CallOK
<1>10. CASE Moves(q, {"run", "ask", "store", "show", "audit"}, "error")
  BY <1>7, <1>10
<1> QED  BY <1>1, <1>3, <1>4, <1>5, <1>6, <1>8, <1>9, <1>10 DEF Advances

\* What is shown stays recorded or superseded.
LEMMA ShownStep ==
    ASSUME IInv, [Next]_vars
    PROVE  ShownWasRecorded'
<1>1. shown \subseteq stored' \cup superseded'
  BY RecordedGrows DEF IInv, ShownWasRecorded
<1>2. ASSUME NEW q \in Requests, Show(q)
      PROVE  shown' \subseteq stored' \cup superseded'
  <2>1. q \in stored \cup superseded
    BY <1>2 DEF IInv, CallOK, Show
  <2> QED  BY <1>1, <1>2, <2>1 DEF Show
<1>3. (\E q \in Requests : Show(q)) \/ shown' \in {shown, {}}
  BY DEF Next, Serve, vars, GetCase, BuildAndAsk, Ask, AskInVain, Store, Audit, Raise, Rerun,
         ResetTruncate, ResetClear, Crash
<1> QED  BY <1>1, <1>2, <1>3 DEF ShownWasRecorded

----------------------------------------------------------------------------
(* Pseudonyms.                                                             *)

\* There are more suffixes to try than names: the first free one exists.
LEMMA FreeSuffixIsFree ==
    ASSUME NEW names, NEW token, Len(names) \in Nat, DOMAIN names = 1..Len(names)
    PROVE  /\ FreeSuffix(names, token) \in 0..Len(names)
           /\ ~IsTaken(names, token, FreeSuffix(names, token))
<1> DEFINE n == Len(names)
           Free == {s \in 0..n : ~IsTaken(names, token, s)}
<1>1. Free # {}
  <2> SUFFICES ASSUME \A s \in 0..n : IsTaken(names, token, s)
               PROVE  FALSE
    OBVIOUS
  <2> DEFINE holder == [s \in 0..n |-> CHOOSE i \in 1..n : names[i] = [token |-> token, suffix |-> s]]
  <2>1. \A s \in 0..n : /\ holder[s] \in 1..n
                        /\ names[holder[s]] = [token |-> token, suffix |-> s]
    <3>1. ASSUME NEW s \in 0..n
          PROVE  \E i \in 1..n : names[i] = [token |-> token, suffix |-> s]
      BY DEF IsTaken
    <3> QED  BY <3>1
  <2>2. holder \in [0..n -> 1..n]
    BY <2>1
  <2> HIDE DEF holder
  <2>3. /\ IsFiniteSet(0..n) /\ IsFiniteSet(1..n)
        /\ Cardinality(1..n) < Cardinality(0..n)
    <3>1. n \in Int /\ 0 \in Int /\ 1 \in Int
      OBVIOUS
    <3>2. /\ IsFiniteSet(0..n) /\ Cardinality(0..n) = IF 0 > n THEN 0 ELSE n - 0 + 1
          /\ IsFiniteSet(1..n) /\ Cardinality(1..n) = IF 1 > n THEN 0 ELSE n - 1 + 1
      BY <3>1, FS_Interval
    <3> QED  BY <3>2
  <2>4. PICK x \in 0..n, y \in 0..n : x # y /\ holder[x] = holder[y]
    <3> HIDE DEF n
    <3> QED  BY <2>2, <2>3, FS_PigeonHole
  <2>5. [token |-> token, suffix |-> x] = [token |-> token, suffix |-> y]
    BY <2>1, <2>4
  <2> QED  BY <2>4, <2>5
<1>2. PICK s \in Free : \A m \in Free : s <= m
  <2>1. Free \in SUBSET Nat
    OBVIOUS
  <2> HIDE DEF Free
  <2> QED  BY <1>1, <2>1, SmallestOf
<1>3. s \in 0..n /\ ~IsTaken(names, token, s)
  OBVIOUS
<1>4. \A lower \in 0..(s - 1) : IsTaken(names, token, lower)
  BY <1>2, <1>3
<1>5. \E m \in 0..Len(names) : /\ ~IsTaken(names, token, m)
                               /\ \A lower \in 0..(m - 1) : IsTaken(names, token, lower)
  BY <1>3, <1>4
<1> QED  BY <1>5 DEF FreeSuffix

\* The pseudonyms of the first customers tell them apart.
TellApart(customers, names) ==
    \A i, j \in 1..Len(names) : names[i] = names[j] <=> customers[i] = customers[j]

\* The next customer gets the pseudonym it has, or one that nobody has.
LEMMA NextTellsApart ==
    ASSUME NEW seed, NEW customers, NEW N, NEW names \in Seq(N), TellApart(customers, names),
           \A i \in 1..Len(names) : names[i].token = Digest[seed][customers[i]]
    PROVE  LET next == NextPseudonym(seed, customers, names)
           IN  /\ next.token = Digest[seed][customers[Len(names) + 1]]
               /\ \A i \in 1..Len(names) :
                      names[i] = next <=> customers[i] = customers[Len(names) + 1]
<1> DEFINE n       == Len(names)
           who     == customers[n + 1]
           token   == Digest[seed][who]
           earlier == {j \in 1..n : customers[j] = who}
           next    == NextPseudonym(seed, customers, names)
<1>1. CASE earlier # {}
  <2>1. PICK j \in 1..n : customers[j] = who /\ next = names[j]
    <3>1. next = names[CHOOSE j \in earlier : TRUE]
      BY <1>1 DEF NextPseudonym
    <3>2. (CHOOSE j \in earlier : TRUE) \in earlier
      BY <1>1
    <3> QED  BY <3>1, <3>2
  <2> QED  BY <2>1 DEF TellApart
<1>2. CASE earlier = {}
  <2> DEFINE s == FreeSuffix(names, token)
  <2>1. next = [token |-> token, suffix |-> s]
    BY <1>2 DEF NextPseudonym
  <2>2. ~IsTaken(names, token, s)
    <3>1. Len(names) \in Nat /\ DOMAIN names = 1..Len(names)
      OBVIOUS
    <3> QED  BY <3>1, FreeSuffixIsFree
  <2>3. \A i \in 1..n : names[i] # next
    <3> HIDE DEF s, token, next
    <3>1. DOMAIN names = 1..n
      OBVIOUS
    <3> QED  BY <2>1, <2>2, <3>1 DEF IsTaken
  <2>4. \A i \in 1..n : customers[i] # who
    BY <1>2
  <2> QED  BY <2>1, <2>3, <2>4
<1> QED  BY <1>1, <1>2

\* The pseudonyms of a case tell its customers apart, whatever the digests.
LEMMA PseudonymsTellApart ==
    ASSUME NEW seed, NEW customers, Len(customers) \in Nat, DOMAIN customers = 1..Len(customers)
    PROVE  \A i, j \in 1..Len(customers) :
               Pseudonyms(seed, customers)[i] = Pseudonyms(seed, customers)[j]
                   <=> customers[i] = customers[j]
<1> DEFINE len == Len(customers)
           Token(i) == Digest[seed][customers[i]]
           N == [token : {Token(i) : i \in 1..len}, suffix : Nat]
           Next1(names) == NextPseudonym(seed, customers, names)
           Good(names) == /\ names \in Seq(N) /\ TellApart(customers, names)
                          /\ \A i \in 1..Len(names) : names[i].token = Token(i)
           Is(f) == f = [n \in 0..len |-> IF n = 0 THEN <<>>
                                         ELSE LET names == f[n - 1] IN Append(names, Next1(names))]
<1>1. ASSUME NEW names \in Seq(N), Len(names) < len
      PROVE  Next1(names) \in N
  <2> DEFINE earlier == {j \in 1..Len(names) : customers[j] = customers[Len(names) + 1]}
             token   == Token(Len(names) + 1)
  <2>0. Len(names) \in Nat /\ Len(names) + 1 \in 1..len /\ DOMAIN names = 1..Len(names)
    BY <1>1
  <2>1. CASE earlier # {}
    <3>1. (CHOOSE j \in earlier : TRUE) \in 1..Len(names)
      BY <2>1
    <3>2. Next1(names) = names[CHOOSE j \in earlier : TRUE]
      BY <2>1 DEF NextPseudonym
    <3> HIDE DEF N, earlier, Next1
    <3> QED  BY <3>1, <3>2
  <2>2. CASE earlier = {}
    <3>1. Next1(names) = [token |-> token, suffix |-> FreeSuffix(names, token)]
      BY <2>2 DEF NextPseudonym
    <3>2. FreeSuffix(names, token) \in Nat
      <4> HIDE DEF token
      <4>1. FreeSuffix(names, token) \in 0..Len(names)
        BY <2>0, FreeSuffixIsFree
      <4> QED  BY <2>0, <4>1
    <3>3. token \in {Token(i) : i \in 1..len}
      BY <2>0
    <3> HIDE DEF token, Next1
    <3> QED  BY <3>1, <3>2, <3>3
  <2> QED  BY <2>1, <2>2
<1> HIDE DEF N
<1>2. ASSUME NEW names, Good(names), Len(names) < len
      PROVE  Good(Append(names, Next1(names))) /\ Len(Append(names, Next1(names))) = Len(names) + 1
  <2> DEFINE next == Next1(names)  more == Append(names, next)
  <2>1. next \in N /\ names \in Seq(N)
    BY <1>1, <1>2
  <2>2. /\ next.token = Token(Len(names) + 1)
        /\ \A i \in 1..Len(names) : names[i] = next <=> customers[i] = customers[Len(names) + 1]
    BY <1>2, NextTellsApart
  <2> HIDE DEF next
  <2>3. more \in Seq(N) /\ Len(more) = Len(names) + 1 /\ more[Len(names) + 1] = next
        /\ \A i \in 1..Len(names) : more[i] = names[i]
    BY <2>1
  <2>4. \A i \in 1..Len(more) : i \in 1..Len(names) \/ i = Len(names) + 1
    BY <2>1, <2>3
  <2> HIDE DEF more
  <2>5. TellApart(customers, more)
    BY <1>2, <2>2, <2>3, <2>4 DEF TellApart
  <2>6. \A i \in 1..Len(more) : more[i].token = Token(i)
    BY <1>2, <2>2, <2>3, <2>4
  <2> QED  BY <2>3, <2>5, <2>6 DEF more, next
<1>3. PICK h : Pseudonyms(seed, customers) = h[len] /\ Is(h)
  <2> DEFINE S == Seq(N)
             step == [p \in Nat \X S |-> IF Len(p[2]) < len THEN Append(p[2], Next1(p[2])) ELSE <<>>]
  <2>1. CanIterate(S, <<>>, step)
    <3>1. ASSUME NEW p \in Nat \X S
          PROVE  (IF Len(p[2]) < len THEN Append(p[2], Next1(p[2])) ELSE <<>>) \in S
      <4>1. p[2] \in Seq(N) /\ <<>> \in Seq(N)
        OBVIOUS
      <4>2. CASE Len(p[2]) < len
        <5>1. Next1(p[2]) \in N
          BY <1>1, <4>1, <4>2
        <5> QED  BY <4>1, <4>2, <5>1
      <4> QED  BY <4>1, <4>2
    <3>2. <<>> \in S
      OBVIOUS
    <3> HIDE DEF S, Next1
    <3> QED  BY <3>1, <3>2 DEF CanIterate
  <2>2. PICK g : Iterates(g, S, <<>>, step)
    <3> HIDE DEF S, step
    <3> QED  BY <2>1, Recursion
  <2>3. /\ g \in [Nat -> S] /\ g[0] = <<>>
        /\ \A n \in Nat : g[n + 1] = IF Len(g[n]) < len THEN Append(g[n], Next1(g[n])) ELSE <<>>
    <3>1. g \in [Nat -> S] /\ g[0] = <<>> /\ \A n \in Nat : g[n + 1] = step[<<n, g[n]>>]
      <4> HIDE DEF S, step
      <4> QED  BY <2>2 DEF Iterates
    <3>2. \A n \in Nat : <<n, g[n]>> \in Nat \X S
      BY <3>1
    <3> HIDE DEF S, Next1
    <3> QED  BY <3>1, <3>2
  <2> HIDE DEF S, step
  <2> DEFINE T == {n \in Nat : n <= len => Len(g[n]) = n}
  <2>4. T = Nat
    <3>1. 0 \in T
      BY <2>3
    <3>2. ASSUME NEW n \in T
          PROVE  n + 1 \in T
      <4>1. SUFFICES ASSUME n + 1 <= len
                     PROVE  Len(g[n + 1]) = n + 1
        OBVIOUS
      <4>2. Len(g[n]) = n /\ n < len /\ g[n] \in Seq(N)
        <5>1. n \in Nat /\ n <= len /\ n < len
          BY <4>1
        <5>2. g[n] \in S
          BY <2>3, <5>1
        <5> QED  BY <5>1, <5>2 DEF S
      <4>3. g[n + 1] = Append(g[n], Next1(g[n]))
        BY <2>3, <4>2
      <4> HIDE DEF Next1
      <4> QED  BY <4>2, <4>3
    <3>3. T \in SUBSET Nat
      OBVIOUS
    <3> HIDE DEF T
    <3> QED  BY <3>1, <3>2, <3>3, Induction
  <2> DEFINE f == [n \in 0..len |-> g[n]]
  <2>5. Is(f)
    <3>1. ASSUME NEW n \in 0..len, n # 0
          PROVE  g[n] = Append(g[n - 1], Next1(g[n - 1])) /\ n - 1 \in 0..len
      <4>1. n - 1 \in Nat /\ n - 1 < len /\ (n - 1) + 1 = n /\ n - 1 \in 0..len
        BY <3>1
      <4>2. Len(g[n - 1]) = n - 1
        BY <2>4, <4>1
      <4> HIDE DEF Next1
      <4>3. PICK k \in Nat : k = n - 1 /\ k + 1 = n
        BY <4>1
      <4>4. g[k + 1] = IF Len(g[k]) < len THEN Append(g[k], Next1(g[k])) ELSE <<>>
        BY <2>3
      <4> QED  BY <4>1, <4>2, <4>3, <4>4
    <3> HIDE DEF Next1
    <3> QED  BY <2>3, <3>1
  <2>6. Pseudonyms(seed, customers) = (CHOOSE u : Is(u))[len]
    BY DEF Pseudonyms
  <2> HIDE DEF Is, f
  <2>7. Is(CHOOSE u : Is(u))
    BY <2>5
  <2> QED  BY <2>6, <2>7
<1>4. /\ h[0] = <<>>
      /\ \A n \in 1..len : h[n] = Append(h[n - 1], Next1(h[n - 1]))
  <2> HIDE DEF Next1
  <2>1. h = [n \in 0..len |-> IF n = 0 THEN <<>> ELSE Append(h[n - 1], Next1(h[n - 1]))]
    BY <1>3
  <2>2. 0 \in 0..len /\ \A n \in 1..len : n \in 0..len /\ n # 0
    OBVIOUS
  <2> QED  BY <2>1, <2>2
<1> HIDE DEF Is
<1> DEFINE T == {n \in Nat : n <= len => Good(h[n]) /\ Len(h[n]) = n}
<1>5. T = Nat
  <2>1. 0 \in T
    <3>1. Good(<<>>) /\ Len(<<>>) = 0
      BY DEF TellApart
    <3> HIDE DEF Good
    <3> QED  BY <1>4, <3>1
  <2>2. ASSUME NEW n \in T
        PROVE  n + 1 \in T
    <3> HIDE DEF Good, Next1
    <3>1. SUFFICES ASSUME n + 1 <= len
                   PROVE  Good(h[n + 1]) /\ Len(h[n + 1]) = n + 1
      OBVIOUS
    <3>2. n + 1 \in 1..len /\ (n + 1) - 1 = n /\ n < len /\ Good(h[n]) /\ Len(h[n]) = n
      BY <3>1
    <3>3. h[n + 1] = Append(h[n], Next1(h[n]))
      BY <1>4, <3>2
    <3> QED  BY <1>2, <3>2, <3>3
  <2>3. T \in SUBSET Nat
    OBVIOUS
  <2> HIDE DEF T
  <2> QED  BY <2>1, <2>2, <2>3, Induction
<1>6. Good(h[len]) /\ Len(h[len]) = len
  <2> HIDE DEF Good
  <2>1. len \in T
    BY <1>5
  <2> QED  BY <2>1
<1> QED  BY <1>3, <1>6 DEF TellApart

----------------------------------------------------------------------------
(* Figures.                                                                *)

\* Zeros cut off leave the digits.
LEMMA WithoutZeros ==
    ASSUME NEW n \in Nat, NEW k \in Nat, n % Ten[k] = 0 \/ k <= Zeros[n]
    PROVE  n \div Ten[k] \in Nat /\ Trimmed(n \div Ten[k]) = Trimmed(n)
<1>1. PICK q \in Nat : n = q * Ten[k]
  <2>1. CASE n % Ten[k] = 0
    <3>1. PICK d \in Nat \ {0} : d = Ten[k]
      BY TenFacts
    <3>2. n % d = 0
      BY <2>1, <3>1
    <3>3. n = (n \div d) * d /\ n \div d \in Nat
      BY <3>2
    <3> QED  BY <3>1, <3>3
  <2>2. CASE k <= Zeros[n]
    <3>1. Trimmed(n) \in Nat /\ Zeros[n] \in Nat /\ n = Trimmed(n) * Ten[Zeros[n]]
      BY TrimmedTells
    <3>2. PICK j \in Nat : Zeros[n] = j + k
      <4>1. Zeros[n] - k \in Nat /\ Zeros[n] = (Zeros[n] - k) + k
        BY <2>2, <3>1
      <4> QED  BY <4>1
    <3>3. Ten[Zeros[n]] = Ten[j] * Ten[k]
      BY <3>2, SumOfExponents
    <3>4. PICK m \in Nat, x \in Nat, y \in Nat : m = Trimmed(n) /\ x = Ten[j] /\ y = Ten[k]
      BY <3>1, TenFacts
    <3>5. m * (x * y) = (m * x) * y /\ m * x \in Nat
      OBVIOUS
    <3> QED  BY <3>1, <3>3, <3>4, <3>5
  <2> QED  BY <2>1, <2>2
<1>2. n \div Ten[k] = q
  BY <1>1, TimesTen
<1> QED  BY <1>1, <1>2, TrimmedTimesTen

\* So does rstrip.
LEMMA StripKeepsDigits ==
    ASSUME NEW t \in Figure
    PROVE  Strip(t).coef \in Nat /\ Trimmed(Strip(t).coef) = Trimmed(t.coef)
<1>0. t.coef \in Nat /\ t.places \in Nat /\ Zeros[t.coef] \in Nat
  BY ZerosFacts DEF Figure
<1>1. CASE t.coef = 0
  <2>1. Strip(t) = [t EXCEPT !.places = 0]
    BY <1>1 DEF Strip
  <2>2. Strip(t).coef = t.coef
    BY <2>1 DEF Figure
  <2> QED  BY <1>0, <2>2
<1>2. CASE t.coef # 0
  <2> DEFINE cut  == IF t.places \in 1..Zeros[t.coef] THEN t.places ELSE Zeros[t.coef]
             one  == [t EXCEPT !.coef = t.coef \div Ten[cut]]
  <2>1. cut \in Nat /\ cut <= Zeros[t.coef]
    BY <1>0
  <2>2. Strip(t) = [one EXCEPT !.places = IF @ = 0 THEN 0 ELSE @ - cut]
    BY <1>2 DEF Strip
  <2> HIDE DEF cut
  <2>3. Strip(t).coef = t.coef \div Ten[cut]
    BY <2>2 DEF Figure
  <2> QED  BY <1>0, <2>1, <2>3, WithoutZeros
<1> QED  BY <1>1, <1>2

\* A number cut to the bits of a float is off by no more than they leave out.
LEMMA RoundedIsClose ==
    ASSUME NEW n \in Nat, NEW d \in Nat \ {0},
           d = 1 \/ n = 0 \/ Two[FloatBits - 1] * d <= n
    PROVE  /\ Rounded(n, d) \in Nat
           /\ (Rounded(n, d) * d - n) * Two[FloatBits] <= n
           /\ (n - Rounded(n, d) * d) * Two[FloatBits] <= n
<1>1. PICK m \in Nat : FloatBits = m + 1 /\ FloatBits - 1 = m
  BY EvidenceAssumption
<1>2. PICK H \in Nat \ {0}, P \in Nat \ {0} : H = Two[m] /\ P = Two[m + 1] /\ P = 2 * H
  BY TwoFacts
<1>3. PICK q \in Nat : q = n \div d /\ q * d <= n
  OBVIOUS
<1>4. PICK bits \in Nat : bits = BitCount[q]
  BY BitCountFacts
<1>5. PICK lost \in Nat : lost = IF bits > FloatBits THEN bits - FloatBits ELSE 0
  <2>1. (IF bits > FloatBits THEN bits - FloatBits ELSE 0) \in Nat
    BY <1>1
  <2> QED  BY <2>1
<1>6. PICK s \in Nat \ {0} : s = Two[lost]
  BY TwoFacts
<1>7. PICK D \in Nat \ {0} : D = d * s
  OBVIOUS
<1>8. Rounded(n, d) = HalfEven(n, D) * s
  BY <1>3, <1>4, <1>5, <1>6, <1>7 DEF Rounded
<1>9. PICK h \in Nat : /\ h = HalfEven(n, D)
                       /\ 2 * (h * D - n) <= D /\ 2 * (n - h * D) <= D
                       /\ \A x \in Nat : 2 * (x * D - n) < D /\ 2 * (n - x * D) < D => h = x
  BY HalfEvenIsNearest
<1>10. PICK e \in Int : e = h * D - n
  OBVIOUS
<1>11. (h * s) * d = h * D /\ h * s \in Nat
  BY <1>7
<1>12. e * P <= n /\ -(e * P) <= n
  <2>1. CASE lost = 0
    <3>1. D = d
      BY <1>6, <1>7, <2>1, TwoFacts
    <3>2. CASE d = 1 \/ n = 0
      <4>1. PICK x \in Nat : x * D = n
        BY <3>1, <3>2
      <4>2. h = x
        BY <1>9, <4>1
      <4>3. e = 0
        BY <1>10, <4>1, <4>2
      <4> QED  BY <4>3
    <3>3. CASE H * d <= n
      <4>1. 2 * e <= d /\ -(2 * e) <= d
        BY <1>9, <1>10, <3>1
      <4>2. e * P = H * (2 * e)
        BY <1>2
      <4>3. H * (2 * e) <= H * d /\ -(H * (2 * e)) <= H * d
        BY <4>1
      <4> QED  BY <3>3, <4>2, <4>3
    <3> QED  BY <1>1, <1>2, <3>2, <3>3
  <2>2. CASE lost # 0
    <3>1. PICK j \in Nat : lost = j + 1 /\ bits = ((m + 1) + j) + 1
      <4>1. lost - 1 \in Nat /\ lost = (lost - 1) + 1 /\ bits = ((m + 1) + (lost - 1)) + 1
        BY <1>1, <1>5, <2>2
      <4> QED  BY <4>1
    <3>2. PICK t \in Nat : t = Two[j]
      BY TwoFacts
    <3>3. P * t <= q
      <4>1. (m + 1) + j \in Nat
        OBVIOUS
      <4>2. Two[(m + 1) + j] <= q
        BY <1>4, <3>1, <4>1, BitsTell
      <4>3. Two[(m + 1) + j] = Two[m + 1] * Two[j]
        BY SumOfBinaryExponents
      <4> QED  BY <1>2, <3>2, <4>2, <4>3
    <3>4. s = 2 * t
      BY <1>6, <3>1, <3>2, TwoFacts
    <3>5. D = 2 * (d * t) /\ d * t \in Nat
      BY <1>7, <3>4
    <3>6. e <= d * t /\ -e <= d * t
      BY <1>9, <1>10, <3>5
    <3>7. e * P <= (d * t) * P /\ -(e * P) <= (d * t) * P
      BY <3>5, <3>6
    <3>8. (d * t) * P = d * (P * t) /\ d * (P * t) <= d * q /\ d * q = q * d
      BY <3>3
    <3> QED  BY <1>3, <3>7, <3>8
  <2> QED  BY <2>1, <2>2
<1>13. (h * D - n) * P <= n /\ (n - h * D) * P <= n
  <2>1. (n - h * D) * P = -(e * P)
    BY <1>10
  <2> QED  BY <1>10, <1>12, <2>1
<1> QED  BY <1>1, <1>2, <1>8, <1>9, <1>11, <1>13

\* So is the float of a figure.
LEMMA AsFloatIsClose ==
    ASSUME NEW t \in Figure
    PROVE  /\ AsFloat(t).scaled \in Nat /\ AsFloat(t).scale \in Nat
           /\ LET off == AsFloat(t).scaled * Ten[t.places] - t.coef * Two[AsFloat(t).scale]
              IN  /\ off * Two[FloatBits] <= t.coef * Two[AsFloat(t).scale]
                  /\ -off * Two[FloatBits] <= t.coef * Two[AsFloat(t).scale]
<1>1. PICK c \in Nat, d \in Nat \ {0} : c = t.coef /\ d = Ten[t.places]
  BY TenFacts DEF Figure
<1>2. PICK H \in Nat \ {0} : H = Two[FloatBits - 1]
  BY EvidenceAssumption, TwoFacts
<1>3. PICK q \in Nat : c # 0 => q = (H * d) \div c /\ H * d < (q + 1) * c
  <2>1. CASE c = 0
    BY <2>1
  <2>2. CASE c # 0
    <3>1. PICK g \in Nat : g = H * d
      OBVIOUS
    <3>2. g \div c \in Nat /\ g < ((g \div c) + 1) * c
      BY <2>2
    <3> QED  BY <3>1, <3>2
  <2> QED  BY <2>1, <2>2
<1>4. PICK scale \in Nat : scale = IF c = 0 THEN 0 ELSE BitCount[q]
  BY BitCountFacts
<1>5. PICK W \in Nat \ {0} : W = Two[scale]
  BY TwoFacts
<1>6. c = 0 \/ H * d <= c * W
  <2>1. CASE c # 0
    <3>1. q + 1 <= W
      BY <1>4, <1>5, <2>1, BitsTell
    <3>2. (q + 1) * c <= W * c /\ W * c = c * W
      BY <3>1
    <3> QED  BY <1>3, <2>1, <3>2
  <2> QED  BY <2>1
<1>7. PICK n \in Nat : n = c * W
  OBVIOUS
<1>8. AsFloat(t) = [scaled |-> Rounded(n, d), scale |-> scale]
  BY <1>1, <1>2, <1>3, <1>4, <1>5, <1>7 DEF AsFloat
<1>9. d = 1 \/ n = 0 \/ Two[FloatBits - 1] * d <= n
  BY <1>2, <1>6, <1>7
<1>10. PICK x \in Nat, P \in Nat : /\ x = Rounded(n, d) /\ P = Two[FloatBits]
                                   /\ (x * d - n) * P <= n /\ (n - x * d) * P <= n
  BY <1>9, RoundedIsClose, EvidenceAssumption, TwoFacts
<1>11. -(x * d - n) = n - x * d
  OBVIOUS
<1> QED  BY <1>1, <1>5, <1>7, <1>8, <1>10, <1>11

\* Figures whose hundredfold a float rounds back to the number itself.
FitsFloat(t) == t.places <= 2 /\ 1000 * t.coef <= Two[FloatBits]

\* So does the hundredfold of such a figure.
LEMMA HundredfoldKeepsDigits ==
    ASSUME NEW t \in Figure, FitsFloat(t)
    PROVE  Hundredfold(t).coef \in Nat /\ Trimmed(Hundredfold(t).coef) = Trimmed(t.coef)
<1>1. PICK c \in Nat, p \in Nat : c = t.coef /\ p = t.places /\ p <= 2
  BY DEF Figure, FitsFloat
<1>2. PICK d \in Nat \ {0} : d = Ten[p]
  BY TenFacts
<1>3. PICK P \in Nat \ {0} : P = Two[FloatBits] /\ 1000 * c <= P
  BY <1>1, EvidenceAssumption, TwoFacts DEF FitsFloat
<1>4. PICK x \in Nat : x * d = 100 * c /\ Trimmed(x) = Trimmed(c)
  <2>1. PICK k \in Nat : k + p = 2
    <3>1. 2 - p \in Nat /\ (2 - p) + p = 2
      BY <1>1
    <3> QED  BY <3>1
  <2>2. Ten[2] = 100
    <3>1. Ten[0] = 1 /\ Ten[0 + 1] = 10 * Ten[0] /\ Ten[1 + 1] = 10 * Ten[1]
      BY TenFacts
    <3> QED  BY <3>1
  <2>3. PICK y \in Nat : y = Ten[k] /\ y * d = 100
    <3>1. Ten[2] = Ten[k] * Ten[p]
      BY <2>1, SumOfExponents
    <3>2. Ten[k] \in Nat
      BY TenFacts
    <3> QED  BY <1>2, <2>2, <3>1, <3>2
  <2>4. (c * y) * d = c * (y * d) /\ c * y \in Nat
    OBVIOUS
  <2>5. Trimmed(c * Ten[k]) = Trimmed(c)
    BY TrimmedTimesTen
  <2> QED  BY <2>3, <2>4, <2>5
<1>5. PICK u \in Nat, k \in Nat : u = AsFloat(t).scaled /\ k = AsFloat(t).scale
  BY AsFloatIsClose
<1>6. PICK W \in Nat \ {0} : W = Two[k]
  BY TwoFacts
<1>7. PICK n \in Nat : n = c * W
  OBVIOUS
<1>8. PICK a \in Int : a = u * d - n /\ a * P <= n /\ -a * P <= n
  BY <1>1, <1>2, <1>3, <1>5, <1>6, <1>7, AsFloatIsClose
<1>9. PICK v \in Nat, b \in Int : /\ v = Rounded(100 * u, 1) /\ b = v - 100 * u
                                  /\ b * P <= 100 * u /\ -b * P <= 100 * u
  <2>1. 100 * u \in Nat /\ 1 \in Nat \ {0}
    OBVIOUS
  <2>2. /\ Rounded(100 * u, 1) \in Nat
        /\ (Rounded(100 * u, 1) * 1 - 100 * u) * P <= 100 * u
        /\ (100 * u - Rounded(100 * u, 1) * 1) * P <= 100 * u
    BY <1>3, <2>1, RoundedIsClose
  <2>3. PICK v \in Nat : v = Rounded(100 * u, 1)
    BY <2>2
  <2>4. v * 1 - 100 * u = v - 100 * u /\ 100 * u - v * 1 = -(v - 100 * u)
    OBVIOUS
  <2>5. (v - 100 * u) * P <= 100 * u /\ -(v - 100 * u) * P <= 100 * u
    BY <2>2, <2>3, <2>4
  <2> QED  BY <2>3, <2>5
<1>10. Hundredfold(t).coef = HalfEven(v, W)
  BY <1>5, <1>6, <1>9 DEF Hundredfold, Figure
<1>11. PICK e \in Int : e = v - x * W
  OBVIOUS
<1>12. 2 * e < W /\ -(2 * e) < W
  <2>1. d * e = d * b + 100 * a
    <3>1. d * (x * W) = (x * d) * W /\ (x * d) * W = 100 * n
      BY <1>4, <1>7
    <3>2. d * e = d * v - d * (x * W)
      BY <1>11
    <3>3. d * b = d * v - 100 * (u * d)
      BY <1>9
    <3> QED  BY <1>8, <3>1, <3>2, <3>3
  <2>2. u * d <= 2 * n
    <3>1. a <= n
      <4>1. a >= 0 => a <= a * P
        OBVIOUS
      <4> QED  BY <1>8, <4>1
    <3>2. PICK w \in Nat : w = u * d
      OBVIOUS
    <3> QED  BY <1>8, <3>1, <3>2
  <2>3. d * (b * P) <= 200 * n /\ -(d * (b * P)) <= 200 * n
    <3>1. PICK g \in Int : g = b * P /\ g <= 100 * u /\ -g <= 100 * u
      BY <1>9
    <3>2. d * g <= d * (100 * u) /\ -(d * g) <= d * (100 * u)
      BY <3>1
    <3>3. d * (100 * u) = 100 * (u * d)
      OBVIOUS
    <3> QED  BY <2>2, <3>1, <3>2, <3>3
  <2>4. PICK z \in Nat \ {0} : z = d * P
    OBVIOUS
  <2>5. e * z = d * (b * P) + 100 * (a * P)
    <3>1. e * z = (d * e) * P
      BY <2>4
    <3>2. (d * b + 100 * a) * P = d * (b * P) + 100 * (a * P)
      OBVIOUS
    <3> QED  BY <2>1, <3>1, <3>2
  <2>6. e * z <= 300 * n /\ -(e * z) <= 300 * n
    <3>1. PICK g \in Int, f \in Int : g = d * (b * P) /\ f = a * P
      OBVIOUS
    <3>2. -a * P = -f
      BY <3>1
    <3> QED  BY <1>8, <2>3, <2>5, <3>1, <3>2
  <2>7. 600 * n < z * W
    <3>1. 600 * c < P
      BY <1>3
    <3>2. P <= z
      BY <2>4
    <3>3. 600 * c < z
      BY <3>1, <3>2
    <3>4. (600 * c) * W < z * W
      BY <3>3
    <3> QED  BY <1>7, <3>4
  <2>8. (2 * e) * z < W * z /\ (-(2 * e)) * z < W * z
    <3>1. (2 * e) * z = 2 * (e * z) /\ (-(2 * e)) * z = -(2 * (e * z)) /\ W * z = z * W
      OBVIOUS
    <3> QED  BY <2>6, <2>7, <3>1
  <2>9. \A y \in Int : y * z < W * z => y < W
    <3> SUFFICES ASSUME NEW y \in Int, y >= W
                 PROVE  y * z >= W * z
      OBVIOUS
    <3> QED  OBVIOUS
  <2> QED  BY <2>8, <2>9
<1>13. HalfEven(v, W) = x
  <2>1. x * W - v = -e /\ v - x * W = e
    BY <1>11
  <2>2. 2 * (x * W - v) < W /\ 2 * (v - x * W) < W
    BY <1>12, <2>1
  <2> QED  BY <2>2, HalfEvenIsNearest
<1> QED  BY <1>1, <1>4, <1>10, <1>13

\* So does its whole form.
LEMMA WholeFormsKeepDigits ==
    ASSUME NEW t \in Figure, FitsFloat(t), NEW w \in WholeForms(t)
    PROVE  Trimmed(w.coef) = Trimmed(t.coef)
<1>1. PICK c \in Nat, p \in Nat : c = t.coef /\ p = t.places
  BY DEF Figure
<1>2. PICK d \in Nat \ {0} : d = Ten[p]
  BY TenFacts
<1>3. PICK P \in Nat \ {0} : P = Two[FloatBits] /\ 1000 * c <= P
  BY <1>1, EvidenceAssumption, TwoFacts DEF FitsFloat
<1>4. PICK u \in Nat, k \in Nat : u = AsFloat(t).scaled /\ k = AsFloat(t).scale
  BY AsFloatIsClose
<1>5. PICK W \in Nat \ {0} : W = Two[k]
  BY TwoFacts
<1>6. PICK n \in Nat : n = c * W
  OBVIOUS
<1>7. PICK a \in Int : a = u * d - n /\ a * P <= n /\ -a * P <= n
  BY <1>1, <1>2, <1>3, <1>4, <1>5, <1>6, AsFloatIsClose
<1>8. u % W = 0 /\ w = [t EXCEPT !.places = 0, !.coef = u \div W]
  BY <1>4, <1>5 DEF WholeForms
<1>9. PICK f \in Nat : f = u \div W /\ u = f * W
  BY <1>8
<1>10. w.coef = f
  BY <1>8, <1>9 DEF Figure
<1>11. PICK e \in Int : e = f * d - c
  OBVIOUS
<1>12. a = e * W
  <2>1. u * d = (f * d) * W
    BY <1>9
  <2> QED  BY <1>6, <1>7, <1>11, <2>1
<1>13. e * P <= c /\ -(e * P) <= c
  <2>1. a * P = (e * P) * W /\ -a * P = (-(e * P)) * W
    BY <1>12
  <2>2. \A y \in Int : y * W <= c * W => y <= c
    <3> SUFFICES ASSUME NEW y \in Int, y >= c + 1
                 PROVE  y * W > c * W
      OBVIOUS
    <3>1. y * W >= (c + 1) * W /\ (c + 1) * W = c * W + W
      OBVIOUS
    <3> QED  BY <3>1
  <2>3. e * P \in Int /\ -(e * P) \in Int
    OBVIOUS
  <2>4. (e * P) * W <= c * W /\ (-(e * P)) * W <= c * W
    BY <1>6, <1>7, <2>1
  <2> QED  BY <2>2, <2>3, <2>4
<1>14. e = 0
  <2>1. e >= 1 => e * P >= P
    OBVIOUS
  <2>2. e <= -1 => -(e * P) >= P
    OBVIOUS
  <2>3. c < P
    BY <1>3
  <2> QED  BY <1>13, <2>1, <2>2, <2>3
<1>15. c = f * Ten[p]
  BY <1>2, <1>11, <1>14
<1> QED  BY <1>1, <1>10, <1>15, TrimmedTimesTen

\* Every form of such a computed value has its digits.
LEMMA FormsKeepDigits ==
    ASSUME NEW t \in Figure, FitsFloat(t), NEW u \in Forms(t)
    PROVE  Trimmed(u.coef) = Trimmed(t.coef)
<1>1. u = t \/ u = Hundredfold(t) \/ u = Strip(t) \/ u \in WholeForms(t)
  BY DEF Forms
<1> QED  BY <1>1, HundredfoldKeepsDigits, WholeFormsKeepDigits, StripKeepsDigits

\* What the engine computed and the packet mentions are figures.
LEMMA ComputedAreFigures ==
    ASSUME NEW r \in Runs
    PROVE  ComputedValues(CaseOf[r]) \subseteq Figure /\ Mentioned(CaseOf[r]) \subseteq Figure
<1> DEFINE case == CaseOf[r]
<1>0. /\ case.atRisk \in Int /\ case.bridge \subseteq Int /\ case.gate \subseteq Figure
      /\ \A i \in DOMAIN case.records :
             case.records[i].amounts \subseteq Int /\ case.records[i].digits \subseteq Figure
      /\ \A i \in DOMAIN case.evidence :
             case.evidence[i].computed \cup case.evidence[i].digits \subseteq Figure
  BY FiguresAssumption
<1>1. ASSUME NEW n \in Int, NEW c \in Amount(n)
      PROVE  c \in Figure
  <2>1. (IF n < 0 THEN -n ELSE n) \in Nat /\ (n < 0) \in BOOLEAN /\ 0 \in Nat /\ Exponent \in Nat
    BY EvidenceAssumption
  <2>2. Whole(n) \in Figure
    BY <2>1 DEF Whole, Figure
  <2>3. [Whole(n) EXCEPT !.places = Exponent] \in Figure
    BY <2>1, <2>2 DEF Figure
  <2> QED  BY <2>2, <2>3 DEF Amount
<1>2. ASSUME NEW c \in ComputedValues(case)
      PROVE  c \in Figure
  <2>1. CASE \E n \in {case.atRisk} \cup case.bridge : c \in Amount(n)
    BY <1>0, <1>1, <2>1
  <2>2. CASE \E i \in DOMAIN case.records : \E n \in case.records[i].amounts : c \in Amount(n)
    <3>1. PICK i \in DOMAIN case.records : \E n \in case.records[i].amounts : c \in Amount(n)
      BY <2>2
    <3>2. PICK n \in case.records[i].amounts : c \in Amount(n)
      BY <3>1
    <3>3. n \in Int
      BY <1>0
    <3> QED  BY <1>1, <3>2, <3>3
  <2>3. CASE c \in case.gate \/ \E i \in DOMAIN case.evidence : c \in case.evidence[i].computed
    BY <1>0, <2>3
  <2>4. \/ \E n \in {case.atRisk} \cup case.bridge : c \in Amount(n)
        \/ \E i \in DOMAIN case.records : \E n \in case.records[i].amounts : c \in Amount(n)
        \/ c \in case.gate \/ \E i \in DOMAIN case.evidence : c \in case.evidence[i].computed
    <3> HIDE DEF case
    <3> QED  BY DEF ComputedValues
  <2> QED  BY <2>1, <2>2, <2>3, <2>4
<1>3. Mentioned(case) \subseteq Figure
  <2> HIDE DEF case
  <2> QED  BY <1>0 DEF Mentioned
<1> QED  BY <1>2, <1>3

\* A token that is allowed has the digits of a figure of the case.
LEMMA AllowedHasDigits ==
    ASSUME FiguresFitFloats, NEW r \in Runs, NEW u \in AllowedTokens(CaseOf[r])
    PROVE  \E c \in ComputedValues(CaseOf[r]) \cup Mentioned(CaseOf[r]) :
               Trimmed(u.coef) = Trimmed(c.coef)
<1> DEFINE case == CaseOf[r]
<1>1. (\E c \in ComputedValues(case) : u \in Forms(c)) \/ u \in Mentioned(case)
  <2>1. u \in AllowedTokens(case)
    OBVIOUS
  <2> HIDE DEF case
  <2> QED  BY <2>1 DEF AllowedTokens
<1>2. CASE \E c \in ComputedValues(case) : u \in Forms(c)
  <2>1. PICK c \in ComputedValues(case) : u \in Forms(c)
    BY <1>2
  <2>2. c \in Figure /\ FitsFloat(c)
    BY ComputedAreFigures DEF FiguresFitFloats, FitsFloat
  <2>3. Trimmed(u.coef) = Trimmed(c.coef)
    BY <2>1, <2>2, FormsKeepDigits
  <2> QED  BY <2>3
<1>3. CASE u \in Mentioned(case)
  BY <1>3
<1> QED  BY <1>1, <1>2, <1>3

\* An answer that passed says nothing but the figures of the case.
LEMMA PassedIsGrounded ==
    ASSUME FiguresFitFloats, NEW call, call.answer \in Answers, call.case \in Runs, Passed(call)
    PROVE  \A t \in call.answer.numbers :
               \/ t.places = 0 /\ t.coef < SmallNumberCeiling
               \/ \E c \in ComputedValues(CaseOf[call.case]) \cup Mentioned(CaseOf[call.case]) :
                      Trimmed(t.coef) = Trimmed(c.coef)
<1> DEFINE case == CaseOf[call.case]
<1>1. PICK seed \in Runs : UngroundedNumbers(call.answer, BuildPacket(case, seed)) = {}
  BY DEF Passed
<1> DEFINE allowed == AllowedTokens(case)
<1>2. ASSUME NEW t \in call.answer.numbers, ~(t.places = 0 /\ t.coef < SmallNumberCeiling)
      PROVE  \E c \in ComputedValues(case) \cup Mentioned(case) : Trimmed(t.coef) = Trimmed(c.coef)
  <2>1. t \in allowed \/ Strip(t) \in allowed
    BY <1>1, <1>2 DEF UngroundedNumbers, BuildPacket
  <2>2. t \in Figure
    BY FiguresAssumption
  <2>3. PICK u \in {t, Strip(t)} : u \in allowed
    BY <2>1
  <2>4. Trimmed(u.coef) = Trimmed(t.coef)
    BY <2>2, StripKeepsDigits
  <2>5. \E c \in ComputedValues(case) \cup Mentioned(case) : Trimmed(u.coef) = Trimmed(c.coef)
    <3> HIDE <2>4
    <3> QED  BY <2>3, AllowedHasDigits
  <2> QED  BY <2>4, <2>5
<1> QED  BY <1>2

----------------------------------------------------------------------------
(* The theorems.                                                           *)

\* The invariant holds before the first request.
LEMMA InitIInv == Init => IInv
<1> SUFFICES ASSUME Init
             PROVE  IInv
  OBVIOUS
<1>1. /\ NoCall.pc = "idle" /\ NoCall.case = 0 /\ NoCall.attempts = 0
      /\ NoCall.status = "unavailable" /\ NoCall.answer = NoAnswer
  BY DEF NoCall
<1>2. NoCall \in CallRec
  <2>1. NoCall = [pc |-> "idle", case |-> 0, packet |-> NoCall.packet, attempts |-> 0,
                  status |-> "unavailable", answer |-> NoAnswer]
    BY DEF NoCall
  <2>2. NoCall.packet \in Packets
    BY DEF Packets
  <2> QED  BY <2>1, <2>2, InvestigationAssumption DEF CallRec
<1>3. calls \in [Requests -> CallRec] /\ \A q \in Requests : calls[q] = NoCall
  BY <1>2 DEF Init
<1>4. TypeOK
  <2>1. /\ run = 0 /\ row = 0 /\ served = 0 /\ resets = 0 /\ crashes = 0
        /\ stored = {} /\ audited = {} /\ shown = {} /\ superseded = {}
    BY DEF Init
  <2>2. /\ run \in 0..Len(CaseOf) /\ row \in 0..run /\ served \in 0..run
        /\ resets \in 0..MaxResets /\ crashes \in 0..MaxCrashes
    BY <2>1, InvestigationAssumption
  <2>3. clearing \in BOOLEAN
    BY DEF Init
  <2>4. \A q \in Requests : calls[q].case <= run
    BY <1>1, <1>3, <2>1
  <2> QED  BY <1>3, <2>1, <2>2, <2>3, <2>4 DEF TypeOK
<1>5. \A q \in Requests : CallOK(q)
  BY <1>1, <1>3 DEF CallOK
<1> QED  BY <1>1, <1>3, <1>4, <1>5 DEF Init, IInv, GivesUpInTime, ShownWasRecorded

\* The inductive invariant of the investigations of a case.
THEOREM Invariance == Spec => []IInv
<1>1. IInv /\ [Next]_vars => IInv'
  <2> SUFFICES ASSUME IInv, [Next]_vars
               PROVE  IInv'
    OBVIOUS
  <2>1. TypeOK'
    BY TypeStep DEF IInv
  <2>2. \A q \in Requests : CallOK(q)'
    BY RequestStep
  <2>3. GivesUpInTime'
    BY RequestStep DEF GivesUpInTime
  <2>4. ShownWasRecorded'
    BY ShownStep
  <2> QED  BY <2>1, <2>2, <2>3, <2>4 DEF IInv
<1> QED  BY InitIInv, <1>1, PTL DEF Spec

\* The tables, the caches and the requests keep their type.
THEOREM TypeCorrect == Spec => []TypeOK
<1>1. IInv => TypeOK
  BY DEF IInv
<1> QED  BY <1>1, Invariance, PTL

\* The loop never asks more often than the setting allows, and gives up only
\* when it has asked as often (client.py:161).
THEOREM RefusalsUsedEveryTry == Spec => []GivesUpInTime
<1>1. IInv => GivesUpInTime
  BY DEF IInv
<1> QED  BY <1>1, Invariance, PTL

\* What the case page shows is on record, or was until a re-run or a reset
\* (add_investigation, store_postgres.py:676).
THEOREM TheShownIsRecorded == Spec => []ShownWasRecorded
<1>1. IInv => ShownWasRecorded
  BY DEF IInv
<1> QED  BY <1>1, Invariance, PTL

\* Whatever a provider answers, an answer that is kept as valid cites evidence,
\* and only evidence of the case as the request read it (verify, verify.py:67).
THEOREM KeptCitationsExist ==
    Spec => [](\A q \in Requests : calls[q].status = "valid" => CitesEvidence(calls[q]))
<1>1. IInv => \A q \in Requests : calls[q].status = "valid" => CitesEvidence(calls[q])
  BY DEF IInv, CallOK
<1> QED  BY <1>1, Invariance, PTL

\* Whatever tokens the digests give, the packet that a provider is asked with
\* names two customers of the case apart and one customer once
\* (Redactor.pseudonym, redact.py:71).
THEOREM CustomersStayApart == Spec => []NamesStayApart
<1>1. IInv => NamesStayApart
  <2> SUFFICES ASSUME IInv, NEW q \in Requests, calls[q].pc = "ask"
               PROVE  \A i, j \in DOMAIN CaseOf[calls[q].case].records :
                          calls[q].packet.names[i] = calls[q].packet.names[j]
                              <=> CaseOf[calls[q].case].records[i].customer
                                      = CaseOf[calls[q].case].records[j].customer
    BY DEF NamesStayApart
  <2> DEFINE records   == CaseOf[calls[q].case].records
             customers == [i \in DOMAIN records |-> records[i].customer]
  <2>1. PICK seed \in Runs : calls[q].packet = BuildPacket(CaseOf[calls[q].case], seed)
    BY DEF IInv, CallOK
  <2>2. calls[q].packet.names = Pseudonyms(seed, customers)
    BY <2>1 DEF BuildPacket
  <2>3. Len(records) \in Nat /\ DOMAIN records = 1..Len(records)
    <3>1. calls[q] \in CallRec /\ calls[q].case # 0
      BY DEF IInv, TypeOK, CallOK
    <3>2. calls[q].case \in Runs
      BY <3>1, InvestigationAssumption DEF CallRec, Runs
    <3> QED  BY <3>2, FiguresAssumption
  <2>4. DOMAIN customers = 1..Len(records) /\ Len(customers) = Len(records)
    <3> HIDE DEF records
    <3> QED  BY <2>3
  <2> HIDE DEF customers
  <2>5. \A i, j \in 1..Len(customers) :
            Pseudonyms(seed, customers)[i] = Pseudonyms(seed, customers)[j]
                <=> customers[i] = customers[j]
    BY <2>3, <2>4, PseudonymsTellApart
  <2>6. \A i \in DOMAIN records : customers[i] = records[i].customer
    BY DEF customers
  <2> QED  BY <2>2, <2>3, <2>4, <2>5, <2>6
<1> QED  BY <1>1, Invariance, PTL

\* As long as the figures of the cases are small enough for the floats that they go
\* through (verify.py:142), 9,007,199,254,740 in the last of at most two decimals,
\* a recorded answer cites evidence of its case and names only figures of its case,
\* and a refused one is not kept.
THEOREM KeptAnswersAreGrounded ==
    ASSUME FiguresFitFloats
    PROVE  Spec => []KeptAnswerIsGrounded
<1>1. IInv => KeptAnswerIsGrounded
  <2> SUFFICES ASSUME IInv, NEW q \in Requests, calls[q].status = "valid"
               PROVE  /\ CitesEvidence(calls[q])
                      /\ \A t \in calls[q].answer.numbers :
                            \/ t.places = 0 /\ t.coef < SmallNumberCeiling
                            \/ \E c \in ComputedValues(CaseOf[calls[q].case])
                                         \cup Mentioned(CaseOf[calls[q].case]) :
                                   Trimmed(t.coef) = Trimmed(c.coef)
    BY DEF KeptAnswerIsGrounded, IInv, CallOK
  <2>1. /\ calls[q].case # 0 /\ CitesEvidence(calls[q]) /\ Passed(calls[q])
        /\ calls[q].answer # NoAnswer
    BY DEF IInv, CallOK
  <2>2. calls[q].answer \in Answers /\ calls[q].case \in Runs
    <3>1. calls[q] \in CallRec
      BY DEF IInv, TypeOK
    <3> QED  BY <2>1, <3>1, InvestigationAssumption DEF CallRec, Runs
  <2> QED  BY <2>1, <2>2, PassedIsGrounded
<1> QED  BY <1>1, Invariance, PTL
=============================================================================
