--------------------------- MODULE Sessions_proofs ---------------------------
(***************************************************************************)
(* Proofs about Sessions: IInv is inductive, so a token is exchanged once, *)
(* an ended family is dead, and a session that nothing disturbs survives.  *)
(***************************************************************************)
EXTENDS Sessions, SequenceTheorems, TLAPS

\* Appending adds one element, behind the others.
LEMMA AppendAdds ==
    ASSUME NEW S, NEW s \in Seq(S), NEW e \in S
    PROVE  /\ Append(s, e) \in Seq(S)
           /\ Len(Append(s, e)) = Len(s) + 1
           /\ Len(s) \in Nat
           /\ \A i \in 1..Len(s) : Append(s, e)[i] = s[i]
           /\ Append(s, e)[Len(s) + 1] = e
  BY AppendProperties, LenProperties

\* Setting one element leaves the others.
LEMMA ExceptSets ==
    ASSUME NEW S, NEW s \in Seq(S), NEW i \in 1..Len(s), NEW e \in S
    PROVE  /\ [s EXCEPT ![i] = e] \in Seq(S)
           /\ Len([s EXCEPT ![i] = e]) = Len(s)
           /\ [s EXCEPT ![i] = e][i] = e
           /\ \A j \in 1..Len(s) \ {i} : [s EXCEPT ![i] = e][j] = s[j]
  BY ExceptSeq

----------------------------------------------------------------------------
(* What the steps do to the tokens and to the calls.                       *)

\* A token keeps its family and its parent.
Kept(t) == tokens'[t].family = tokens[t].family /\ tokens'[t].parent = tokens[t].parent

\* What holds against a token goes on to hold.
Worn(t) ==
    /\ tokens[t].consumed => tokens'[t].consumed
    /\ tokens[t].revoked  => tokens'[t].revoked
    /\ tokens[t].expired  => tokens'[t].expired

\* Only one call moves, and only its step changes.
Moved(c, pc) ==
    /\ calls'[c].pc = pc
    /\ calls'[c].kind = calls[c].kind
    /\ calls'[c].token = calls[c].token
    /\ calls'[c].listening = calls[c].listening
    /\ \A d \in Calls \ {c} : calls'[d] = calls[d]

\* A call that goes on changes its own place only.
LEMMA GotoMoves ==
    ASSUME NEW c \in Calls, NEW pc, calls \in [Calls -> CallRec], Goto(c, pc)
    PROVE  /\ Moved(c, pc)
           /\ pc \in {"idle"} \cup Serving \cup Answered => calls' \in [Calls -> CallRec]
<1>1. calls[c] \in CallRec
  OBVIOUS
<1>2. calls'[c] = [calls[c] EXCEPT !.pc = pc] /\ \A d \in Calls \ {c} : calls'[d] = calls[d]
  BY DEF Goto
<1>3. Moved(c, pc)
  BY <1>1, <1>2 DEF Moved, CallRec
<1>4. ASSUME pc \in {"idle"} \cup Serving \cup Answered
      PROVE  [calls[c] EXCEPT !.pc = pc] \in CallRec
  BY <1>1, <1>4 DEF CallRec
<1>5. calls' = [calls EXCEPT ![c] = [calls[c] EXCEPT !.pc = pc]]
  BY DEF Goto
<1> QED  BY <1>3, <1>4, <1>5

\* The stored tokens have the columns of the table.
LEMMA TokenFields ==
    ASSUME tokens \in Seq(TokenRec)
    PROVE  /\ Len(tokens) \in Nat
           /\ \A t \in Ids : /\ tokens[t] \in TokenRec
                             /\ tokens[t].family \in Nat \ {0}
                             /\ tokens[t].parent \in Nat
<1>1. Len(tokens) \in Nat /\ \A t \in Ids : tokens[t] \in TokenRec
  BY LenProperties, ElementOfSeq DEF Ids
<1> QED  BY <1>1 DEF TokenRec

\* A flag that is set leaves a row a row.
LEMMA FlagChange ==
    ASSUME NEW r \in TokenRec
    PROVE  /\ [r EXCEPT !.consumed = TRUE] \in TokenRec
           /\ [r EXCEPT !.revoked = TRUE] \in TokenRec
           /\ [r EXCEPT !.expired = TRUE] \in TokenRec
  BY DEF TokenRec

\* Spending a token sets its consumed_at and touches no other.
LEMMA SpendTells ==
    ASSUME tokens \in Seq(TokenRec), NEW s \in Ids, Spend(s)
    PROVE  /\ tokens' \in Seq(TokenRec) /\ Len(tokens') = Len(tokens)
           /\ \A t \in Ids : Kept(t) /\ Worn(t)
           /\ \A t \in Ids : Undimmed(t) => Undimmed(t)'
           /\ \A t \in Ids \ {s} : tokens'[t] = tokens[t]
           /\ tokens'[s].consumed
<1>1. Len(tokens) \in Nat /\ tokens[s] \in TokenRec
  BY TokenFields
<1> DEFINE spent == [tokens[s] EXCEPT !.consumed = TRUE]
<1>2. tokens' = [tokens EXCEPT ![s] = spent] /\ spent \in TokenRec /\ s \in 1..Len(tokens)
  BY <1>1, FlagChange DEF Spend, Ids
<1>3. /\ spent.family = tokens[s].family /\ spent.parent = tokens[s].parent
      /\ spent.revoked = tokens[s].revoked /\ spent.expired = tokens[s].expired
      /\ spent.consumed
  BY <1>1 DEF TokenRec
<1> HIDE DEF spent
<1>4. /\ tokens' \in Seq(TokenRec) /\ Len(tokens') = Len(tokens)
      /\ tokens'[s] = spent
      /\ \A t \in Ids \ {s} : tokens'[t] = tokens[t]
  BY <1>2, ExceptSets DEF Ids
<1> QED  BY <1>3, <1>4 DEF Kept, Worn, Undimmed

\* A token that expires keeps its family and its parent.
LEMMA ExpiryTells ==
    ASSUME tokens \in Seq(TokenRec), NEW s \in Ids, tokens' = [tokens EXCEPT ![s].expired = TRUE]
    PROVE  /\ tokens' \in Seq(TokenRec) /\ Len(tokens') = Len(tokens)
           /\ \A t \in Ids : Kept(t) /\ Worn(t)
<1>1. Len(tokens) \in Nat /\ tokens[s] \in TokenRec
  BY TokenFields
<1> DEFINE old == [tokens[s] EXCEPT !.expired = TRUE]
<1>2. tokens' = [tokens EXCEPT ![s] = old] /\ old \in TokenRec /\ s \in 1..Len(tokens)
  BY <1>1, FlagChange DEF Ids
<1>3. /\ old.family = tokens[s].family /\ old.parent = tokens[s].parent
      /\ old.revoked = tokens[s].revoked /\ old.consumed = tokens[s].consumed
      /\ old.expired
  BY <1>1 DEF TokenRec
<1> HIDE DEF old
<1>4. /\ tokens' \in Seq(TokenRec) /\ Len(tokens') = Len(tokens)
      /\ tokens'[s] = old
      /\ \A t \in Ids \ {s} : tokens'[t] = tokens[t]
  BY ONLY tokens \in Seq(TokenRec), <1>2, ExceptSets DEF Ids
<1> QED  BY <1>3, <1>4 DEF Kept, Worn

\* Revoking a family revokes each of its tokens and none of another's.
LEMMA RevocationTells ==
    ASSUME tokens \in Seq(TokenRec), NEW f, RevokeFamily(f)
    PROVE  /\ tokens' \in Seq(TokenRec) /\ Len(tokens') = Len(tokens)
           /\ \A t \in Ids : Kept(t) /\ Worn(t)
           /\ \A t \in Ids : FamilyOf(t) # f => tokens'[t] = tokens[t]
           /\ \A t \in Ids : FamilyOf(t) = f => tokens'[t].revoked
<1>1. Len(tokens) \in Nat /\ \A t \in Ids : tokens[t] \in TokenRec
  BY TokenFields
<1> DEFINE After(t) == IF FamilyOf(t) = f THEN [tokens[t] EXCEPT !.revoked = TRUE] ELSE tokens[t]
<1>2. \A t \in Ids : After(t) \in TokenRec
  BY <1>1, FlagChange
<1>3. \A t \in Ids :
          /\ After(t).family = tokens[t].family /\ After(t).parent = tokens[t].parent
          /\ After(t).consumed = tokens[t].consumed /\ After(t).expired = tokens[t].expired
          /\ tokens[t].revoked => After(t).revoked
          /\ FamilyOf(t) # f => After(t) = tokens[t]
          /\ FamilyOf(t) = f => After(t).revoked
  BY <1>1 DEF TokenRec
<1>4. tokens' = [t \in Ids |-> After(t)]
  BY DEF RevokeFamily
<1> HIDE DEF After
<1>5. /\ tokens' \in Seq(TokenRec) /\ Len(tokens') = Len(tokens)
      /\ \A t \in Ids : tokens'[t] = After(t)
  BY <1>1, <1>2, <1>4, IsASeq, LenProperties DEF Ids
<1> QED  BY <1>3, <1>5 DEF Kept, Worn

\* A stored token is new, and in the family of the one it replaces.
LEMMA StoringTells ==
    ASSUME tokens \in Seq(TokenRec), NEW c \in Calls, Store(c), calls \in [Calls -> CallRec],
           calls[c].token \in 0..Len(tokens)
    PROVE  LET t  == calls[c].token
               id == Len(tokens) + 1
           IN  /\ tokens' \in Seq(TokenRec) /\ Len(tokens') = id
               /\ Ids' = Ids \cup {id} /\ id \notin Ids
               /\ \A u \in Ids : tokens'[u] = tokens[u]
               /\ tokens'[id].family = FamilyAfter(t) /\ tokens'[id].parent = t
               /\ ~tokens'[id].consumed /\ ~tokens'[id].revoked /\ ~tokens'[id].expired
               /\ calls' \in [Calls -> CallRec]
               /\ calls'[c].pc = "ok" /\ calls'[c].token = id
               /\ calls'[c].kind = calls[c].kind
               /\ calls'[c].listening = calls[c].listening
               /\ \A d \in Calls \ {c} : calls'[d] = calls[d]
<1> DEFINE t   == calls[c].token
           id  == Len(tokens) + 1
           new == [family |-> FamilyAfter(t), parent |-> t,
                   consumed |-> FALSE, revoked |-> FALSE, expired |-> FALSE]
           now == [kind |-> calls[c].kind, pc |-> "ok", token |-> id,
                   listening |-> calls[c].listening]
<1>1. Len(tokens) \in Nat /\ \A u \in Ids : tokens[u].family \in Nat \ {0}
  BY TokenFields
<1>2. FamilyAfter(t) \in Nat \ {0}
  BY <1>1 DEF FamilyAfter, FamilyOf, NoToken, Ids
<1>3. new \in TokenRec
  BY <1>1, <1>2 DEF TokenRec
<1>4. /\ new.family = FamilyAfter(t) /\ new.parent = t
      /\ ~new.consumed /\ ~new.revoked /\ ~new.expired
  OBVIOUS
<1>5. now \in CallRec /\ now.pc = "ok" /\ now.token = id
      /\ now.kind = calls[c].kind /\ now.listening = calls[c].listening
  BY <1>1 DEF CallRec, Answered
<1>6. tokens' = Append(tokens, new) /\ calls' = [calls EXCEPT ![c] = now]
  BY DEF Store
<1>7. Ids' = 1..Len(tokens')
  BY DEF Ids
<1> HIDE DEF new, now
<1>8. /\ tokens' \in Seq(TokenRec) /\ Len(tokens') = id
      /\ \A u \in Ids : tokens'[u] = tokens[u]
      /\ tokens'[id] = new
  BY <1>3, <1>6, AppendAdds DEF Ids
<1>9. Ids' = Ids \cup {id} /\ id \notin Ids
  BY <1>1, <1>7, <1>8 DEF Ids
<1>10. calls' \in [Calls -> CallRec] /\ calls'[c] = now
       /\ \A d \in Calls \ {c} : calls'[d] = calls[d]
  BY <1>5, <1>6
<1> QED  BY <1>4, <1>5, <1>8, <1>9, <1>10

\* A call that is sent was idle, and carries what the jar gave it.
LEMMA SendTells ==
    ASSUME NEW c \in Calls, NEW kind, NEW pc, NEW t, Send(c, kind, pc, t),
           calls \in [Calls -> CallRec]
    PROVE  /\ calls[c] = Idle
           /\ calls'[c].kind = kind /\ calls'[c].pc = pc
           /\ calls'[c].token = t /\ calls'[c].listening
           /\ \A d \in Calls \ {c} : calls'[d] = calls[d]
           /\ kind \in {"refresh", "login", "logout"} /\ pc \in {"find", "login"} /\ t \in Nat
                  => calls' \in [Calls -> CallRec]
<1> DEFINE sent == [kind |-> kind, pc |-> pc, token |-> t, listening |-> TRUE]
<1>1. calls[c] = Idle /\ calls' = [calls EXCEPT ![c] = sent]
  BY DEF Send
<1>2. sent.kind = kind /\ sent.pc = pc /\ sent.token = t /\ sent.listening
  OBVIOUS
<1>3. kind \in {"refresh", "login", "logout"} /\ pc \in {"find", "login"} /\ t \in Nat
          => sent \in CallRec
  BY DEF CallRec, Serving
<1> HIDE DEF sent
<1> QED  BY <1>1, <1>2, <1>3

\* A client that goes away leaves its call to go on.
LEMMA CutOffTells ==
    ASSUME NEW c \in Calls, calls \in [Calls -> CallRec], Lose(c)
    PROVE  /\ calls' \in [Calls -> CallRec]
           /\ calls'[c].kind = calls[c].kind /\ calls'[c].pc = calls[c].pc
           /\ calls'[c].token = calls[c].token
           /\ \A d \in Calls \ {c} : calls'[d] = calls[d]
<1> DEFINE deaf == [calls[c] EXCEPT !.listening = FALSE]
<1>1. calls' = [calls EXCEPT ![c] = deaf] /\ calls[c] \in CallRec
  BY DEF Lose
<1>2. /\ deaf \in CallRec /\ deaf.kind = calls[c].kind /\ deaf.pc = calls[c].pc
      /\ deaf.token = calls[c].token
  BY <1>1 DEF CallRec
<1> HIDE DEF deaf
<1> QED  BY <1>1, <1>2

\* An answer is the end of its call, unless the page that waited for it goes on
\* and is refused.
LEMMA DeliverTells ==
    ASSUME NEW c \in Calls, calls \in [Calls -> CallRec], Deliver(c)
    PROVE  /\ calls' \in [Calls -> CallRec]
           /\ calls'[c] \in {Idle, RefusedPage}
           /\ calls[c].listening /\ calls[c].pc # "lost" => calls'[c] = Idle
           /\ \A d \in Calls \ {c} : calls'[d] = calls[d]
<1>1. Idle \in CallRec /\ RefusedPage \in CallRec
  BY DEF Idle, RefusedPage, CallRec, NoToken, Answered
<1>2. PICK next \in Onward(calls[c]) : calls' = [calls EXCEPT ![c] = next]
  BY DEF Deliver
<1>3. /\ next \in {Idle, RefusedPage}
      /\ calls[c].listening /\ calls[c].pc # "lost" => next = Idle
  BY <1>2 DEF Onward
<1> QED  BY <1>1, <1>2, <1>3

\* A page that is refused takes a call that was idle.
LEMMA RefusalTells ==
    ASSUME NEW c \in Calls, calls \in [Calls -> CallRec], OpenRefusedPage(c)
    PROVE  /\ calls' \in [Calls -> CallRec]
           /\ calls'[c] = RefusedPage
           /\ \A d \in Calls \ {c} : calls'[d] = calls[d]
<1>1. RefusedPage \in CallRec /\ calls' = [calls EXCEPT ![c] = RefusedPage]
  BY DEF OpenRefusedPage, RefusedPage, CallRec, NoToken, Answered
<1> QED  BY <1>1

\* A crash ends the calls that are being served, and no other.
LEMMA CrashTells ==
    ASSUME calls \in [Calls -> CallRec], Crash
    PROVE  /\ calls' \in [Calls -> CallRec]
           /\ \A c \in Calls :
                  /\ calls'[c].kind = calls[c].kind
                  /\ calls'[c].token = calls[c].token
                  /\ calls'[c].pc = IF calls[c].pc \in Serving THEN "lost" ELSE calls[c].pc
                  /\ calls[c].pc \notin Serving => calls'[c] = calls[c]
<1> DEFINE After(c) == IF calls[c].pc \in Serving THEN [calls[c] EXCEPT !.pc = "lost"] ELSE calls[c]
<1>1. calls' = [c \in Calls |-> After(c)]
  BY DEF Crash
<1>2. \A c \in Calls :
          /\ After(c) \in CallRec
          /\ After(c).kind = calls[c].kind /\ After(c).token = calls[c].token
          /\ After(c).pc = IF calls[c].pc \in Serving THEN "lost" ELSE calls[c].pc
          /\ calls[c].pc \notin Serving => After(c) = calls[c]
  BY DEF CallRec, Answered
<1> HIDE DEF After
<1> QED  BY <1>1, <1>2

\* However a step changes the tokens, they keep what they are.
LEMMA TokensStep ==
    ASSUME TypeOK, \A c \in Calls : CallOK(c), [Next]_vars
    PROVE  /\ tokens' \in Seq(TokenRec) /\ Len(tokens) \in Nat
           /\ Len(tokens') \in {Len(tokens), Len(tokens) + 1}
           /\ Ids \subseteq Ids'
           /\ \A t \in Ids : Kept(t) /\ Worn(t)
           /\ (\E c \in Calls : Store(c)) \/ Ids' = Ids
<1>0. /\ tokens \in Seq(TokenRec) /\ Len(tokens) \in Nat
      /\ calls \in [Calls -> CallRec]
      /\ \A c \in Calls : calls[c].token \in 0..Len(tokens)
  <2>1. tokens \in Seq(TokenRec) /\ calls \in [Calls -> CallRec] /\ Len(tokens) \in Nat
    BY TokenFields DEF TypeOK
  <2>2. \A c \in Calls : calls[c].token \in Nat /\ calls[c].token <= Len(tokens)
    BY <2>1 DEF TypeOK, CallRec
  <2> QED  BY <2>1, <2>2
<1>1. CASE UNCHANGED tokens
  BY <1>0, <1>1 DEF Kept, Worn, Ids
<1>2. ASSUME NEW c \in Calls, Consume(c)
      PROVE  /\ tokens' \in Seq(TokenRec) /\ Len(tokens') = Len(tokens)
             /\ \A t \in Ids : Kept(t) /\ Worn(t)
  <2>1. calls[c].token \in Ids
    BY <1>0, <1>2 DEF Consume, CallOK, NoToken, Ids
  <2> QED  BY <1>0, <1>2, <2>1, SpendTells DEF Consume
<1>3. ASSUME NEW c \in Calls, Store(c)
      PROVE  /\ tokens' \in Seq(TokenRec) /\ Len(tokens') = Len(tokens) + 1
             /\ Ids \subseteq Ids'
             /\ \A t \in Ids : Kept(t) /\ Worn(t)
  <2>1. /\ tokens' \in Seq(TokenRec) /\ Len(tokens') = Len(tokens) + 1
        /\ Ids \subseteq Ids'
        /\ \A t \in Ids : tokens'[t] = tokens[t]
    BY <1>0, <1>3, StoringTells
  <2> QED  BY <2>1 DEF Kept, Worn
<1>4. ASSUME NEW c \in Calls, Revoke(c)
      PROVE  /\ tokens' \in Seq(TokenRec) /\ Len(tokens') = Len(tokens)
             /\ \A t \in Ids : Kept(t) /\ Worn(t)
  BY <1>0, <1>4, RevocationTells DEF Revoke
<1>5. ASSUME TokenExpires
      PROVE  /\ tokens' \in Seq(TokenRec) /\ Len(tokens') = Len(tokens)
             /\ \A t \in Ids : Kept(t) /\ Worn(t)
  BY <1>0, <1>5, ExpiryTells DEF TokenExpires
<1>6. \/ UNCHANGED tokens \/ TokenExpires
      \/ \E c \in Calls : Consume(c) \/ Store(c) \/ Revoke(c)
  BY DEF Next, Serve, vars, Navigate, SignIn, SignOut, Send, Find, FindUser, Report, Deliver,
         Raise, Lose, OpenRefusedPage, Crash, AccessTokenExpires, AccessExpires, Deactivate
<1>7. CASE Len(tokens') = Len(tokens)
  BY <1>1, <1>2, <1>3, <1>4, <1>5, <1>6, <1>7, <1>0 DEF Ids
<1>8. CASE \E c \in Calls : Store(c)
  BY <1>0, <1>3, <1>8
<1> QED  BY <1>1, <1>2, <1>4, <1>5, <1>6, <1>7, <1>8

\* TypeOK, in the form the steps use it.
LEMMA Typed ==
    ASSUME TypeOK
    PROVE  /\ tokens \in Seq(TokenRec) /\ Len(tokens) \in Nat
           /\ calls \in [Calls -> CallRec]
           /\ \A c \in Calls : calls[c].token \in 0..Len(tokens)
           /\ \A c \in Calls : calls[c].token # NoToken => calls[c].token \in Ids
<1>1. tokens \in Seq(TokenRec) /\ calls \in [Calls -> CallRec] /\ Len(tokens) \in Nat
  BY TokenFields DEF TypeOK
<1>2. \A c \in Calls : calls[c].token \in Nat /\ calls[c].token <= Len(tokens)
  BY <1>1 DEF TypeOK, CallRec
<1> QED  BY <1>1, <1>2 DEF NoToken, Ids

\* The browser holds no token that was not stored.
LEMMA JarTyped ==
    ASSUME TypeOK
    PROVE  /\ jar \in [access : AccessStates, refresh : Nat]
           /\ jar.refresh \in 0..Len(tokens)
           /\ jar.refresh # NoToken => jar.refresh \in Ids
<1>1. Len(tokens) \in Nat
  BY Typed
<1>2. jar \in [access : AccessStates, refresh : Nat] /\ jar.refresh \in Nat
      /\ jar.refresh <= Len(tokens)
  BY DEF TypeOK
<1> QED  BY <1>1, <1>2 DEF NoToken, Ids

\* What a call of each kind sends.
LEMMA Sendings ==
    ASSUME TypeOK, NEW c \in Calls, Navigate(c) \/ SignIn(c) \/ SignOut(c)
    PROVE  \/ Send(c, "refresh", "find", jar.refresh) /\ jar.refresh \in Ids
           \/ Send(c, "logout", "find", jar.refresh) /\ jar.refresh \in Ids
           \/ Send(c, "login", "login", NoToken)
  BY JarTyped DEF Navigate, SignIn, SignOut

\* The jar after an answer holds nothing, what it held, or what the answer brings.
LEMMA JarTells ==
    ASSUME jar \in [access : AccessStates, refresh : Nat], NEW call \in CallRec
    PROVE  /\ JarAfter(call) \in [access : AccessStates, refresh : Nat]
           /\ JarAfter(call).refresh \in {NoToken, jar.refresh, call.token}
           /\ call.kind = "logout" => JarAfter(call).refresh = NoToken
           /\ call.kind # "logout" /\ call.pc = "ok" => JarAfter(call).refresh = call.token
<1>1. CASE call.kind = "logout"
  BY <1>1 DEF JarAfter, SignedOut, NoToken, AccessStates
<1>2. CASE call.kind # "logout" /\ call.pc = "ok"
  BY <1>2 DEF JarAfter, CallRec, AccessStates
<1>3. CASE call.kind # "logout" /\ call.pc # "ok"
  BY <1>3 DEF JarAfter, SignedOut, NoToken, AccessStates
<1> QED  BY <1>1, <1>2, <1>3

\* Every step keeps the types.
LEMMA TypeStep ==
    ASSUME TypeOK, \A c \in Calls : CallOK(c), \A t \in Ids : TokenOK(t), [Next]_vars
    PROVE  TypeOK'
<1>0. /\ tokens' \in Seq(TokenRec) /\ Len(tokens) \in Nat
      /\ Len(tokens') \in {Len(tokens), Len(tokens) + 1}
      /\ Ids \subseteq Ids'
  BY TokensStep
<1>t. /\ calls \in [Calls -> CallRec]
      /\ \A d \in Calls : calls[d].token \in 0..Len(tokens)
      /\ tokens \in Seq(TokenRec)
  BY Typed
<1>1. calls' \in [Calls -> CallRec] /\ \A c \in Calls : calls'[c].token <= Len(tokens')
  <2>1. ASSUME NEW c \in Calls, Navigate(c) \/ SignIn(c) \/ SignOut(c)
        PROVE  calls' \in [Calls -> CallRec] /\ \A d \in Calls : calls'[d].token \in 0..Len(tokens)
    <3>1. NoToken \in 0..Len(tokens) /\ Ids \subseteq 0..Len(tokens)
      BY <1>0 DEF NoToken, Ids
    <3>2. PICK kind \in {"refresh", "login", "logout"}, pc \in {"find", "login"}, t \in 0..Len(tokens) :
              Send(c, kind, pc, t)
      BY <2>1, <3>1, Sendings
    <3> QED  BY <3>2, <1>t, SendTells
  <2>2. ASSUME NEW c \in Calls, Find(c)
        PROVE  \E pc \in Serving \cup Answered : Goto(c, pc)
    BY <2>2 DEF Find, Found, Serving, Answered
  <2>3. ASSUME NEW c \in Calls, FindUser(c)
        PROVE  \E pc \in Serving \cup Answered : Goto(c, pc)
    <3>1. /\ ~active => Goto(c, "refused")
          /\ active /\ calls[c].pc = "user" => Goto(c, "consume")
          /\ active /\ calls[c].pc = "login" => Goto(c, "store")
          /\ calls[c].pc \in {"user", "login"}
      BY <2>3 DEF FindUser
    <3> QED  BY <3>1 DEF Serving, Answered
  <2>4. ASSUME NEW c \in Calls, Consume(c) \/ Revoke(c) \/ Report(c) \/ Raise(c)
        PROVE  \E pc \in Serving \cup Answered : Goto(c, pc)
    BY <2>4 DEF Consume, Revoke, Report, Raise, Serving, Answered
  <2>5. ASSUME NEW c \in Calls, \E pc \in Serving \cup Answered : Goto(c, pc)
        PROVE  calls' \in [Calls -> CallRec] /\ \A d \in Calls : calls'[d].token \in 0..Len(tokens)
    BY <2>5, <1>t, GotoMoves DEF Moved
  <2>6. ASSUME NEW c \in Calls, Store(c)
        PROVE  calls' \in [Calls -> CallRec] /\ \A d \in Calls : calls'[d].token <= Len(tokens')
    <3>1. /\ calls' \in [Calls -> CallRec] /\ Len(tokens') = Len(tokens) + 1
          /\ calls'[c].token = Len(tokens) + 1
          /\ \A d \in Calls \ {c} : calls'[d] = calls[d]
      BY <2>6, <1>t, StoringTells
    <3>2. \A d \in Calls \ {c} : calls'[d].token \in 0..Len(tokens)
      BY <3>1, <1>t
    <3> QED  BY <1>0, <3>1, <3>2
  <2>7. ASSUME NEW c \in Calls, Deliver(c)
        PROVE  calls' \in [Calls -> CallRec] /\ \A d \in Calls : calls'[d].token \in 0..Len(tokens)
    <3>1. Idle.token = 0 /\ RefusedPage.token = 0 /\ 0 \in 0..Len(tokens)
      BY <1>0 DEF Idle, RefusedPage, NoToken
    <3>2. /\ calls' \in [Calls -> CallRec] /\ calls'[c] \in {Idle, RefusedPage}
          /\ \A d \in Calls \ {c} : calls'[d] = calls[d]
      BY <2>7, <1>t, DeliverTells
    <3>3. calls'[c].token = 0
      BY <3>1, <3>2
    <3> QED  BY <3>1, <3>2, <3>3, <1>t
  <2>8. ASSUME NEW c \in Calls, Lose(c)
        PROVE  calls' \in [Calls -> CallRec] /\ \A d \in Calls : calls'[d].token \in 0..Len(tokens)
    BY <2>8, <1>t, CutOffTells
  <2>9. CASE Crash
    <3>1. \A d \in Calls : calls'[d].token \in 0..Len(tokens)
      BY <2>9, <1>t, CrashTells
    <3> QED  BY <1>0, <2>9, <3>1, <1>t, CrashTells
  <2>13. ASSUME NEW c \in Calls, OpenRefusedPage(c)
         PROVE  calls' \in [Calls -> CallRec] /\ \A d \in Calls : calls'[d].token \in 0..Len(tokens)
    <3>1. /\ calls' \in [Calls -> CallRec] /\ calls'[c] = RefusedPage
          /\ \A d \in Calls \ {c} : calls'[d] = calls[d]
      BY <2>13, <1>t, RefusalTells
    <3>2. calls'[c].token = 0 /\ 0 \in 0..Len(tokens)
      BY <1>0, <3>1 DEF RefusedPage, NoToken
    <3> QED  BY <3>1, <3>2, <1>t
  <2>10. CASE UNCHANGED calls
    BY <1>0, <2>10, <1>t
  <2>11. ASSUME \A d \in Calls : calls'[d].token \in 0..Len(tokens)
         PROVE  \A d \in Calls : calls'[d].token <= Len(tokens')
    BY <1>0, <2>11
  <2>12. \/ UNCHANGED calls \/ Crash
         \/ \E c \in Calls : Navigate(c) \/ SignIn(c) \/ SignOut(c) \/ Find(c) \/ FindUser(c)
                \/ Consume(c) \/ Store(c) \/ Revoke(c) \/ Report(c) \/ Deliver(c) \/ Raise(c)
                \/ Lose(c) \/ OpenRefusedPage(c)
    BY DEF Next, Serve, vars, AccessTokenExpires, AccessExpires, TokenExpires, Deactivate
  <2> QED  BY <2>1, <2>2, <2>3, <2>4, <2>5, <2>6, <2>7, <2>8, <2>9, <2>10, <2>11, <2>12, <2>13
<1>j. /\ jar \in [access : AccessStates, refresh : Nat] /\ jar.refresh \in 0..Len(tokens)
  BY JarTyped
<1>2. jar' \in [access : AccessStates, refresh : Nat] /\ jar'.refresh <= Len(tokens')
  <2>1. ASSUME NEW c \in Calls, Deliver(c)
        PROVE  jar' \in [access : AccessStates, refresh : Nat] /\ jar'.refresh \in 0..Len(tokens)
    <3>1. jar' = JarAfter(calls[c]) \/ jar' = jar
      BY <2>1 DEF Deliver
    <3> QED  BY <1>0, <3>1, <1>t, <1>j, JarTells DEF NoToken
  <2>2. ASSUME NEW c \in Calls, Lose(c)
        PROVE  jar' \in [access : AccessStates, refresh : Nat] /\ jar'.refresh \in 0..Len(tokens)
    <3> DEFINE lost == [calls[c] EXCEPT !.pc = "lost"]
    <3>1. lost \in CallRec /\ lost.token = calls[c].token
      BY <1>t, <1>j DEF CallRec, Answered
    <3>2. jar' = JarAfter(lost)
      BY <2>2 DEF Lose
    <3> HIDE DEF lost
    <3> QED  BY <1>0, <3>1, <3>2, <1>t, <1>j, JarTells DEF NoToken
  <2>4. CASE AccessTokenExpires \/ AccessExpires
    <3>1. jar' \in [access : AccessStates, refresh : Nat] /\ jar'.refresh = jar.refresh
      BY <2>4, <1>t, <1>j DEF AccessTokenExpires, AccessExpires, AccessStates
    <3> QED  BY <1>0, <3>1, <1>t, <1>j
  <2>5. CASE UNCHANGED jar
    BY <1>0, <2>5, <1>t, <1>j
  <2>6. \/ UNCHANGED jar \/ AccessTokenExpires \/ AccessExpires
        \/ \E c \in Calls : Deliver(c) \/ Lose(c)
    BY DEF Next, Serve, vars, Navigate, SignIn, SignOut, Send, Find, FindUser, Consume, Store,
           Revoke, Report, Raise, OpenRefusedPage, Crash, TokenExpires, Deactivate
  <2>7. ASSUME jar'.refresh \in 0..Len(tokens)
        PROVE  jar'.refresh <= Len(tokens')
    BY <1>0, <2>7
  <2> QED  BY <1>0, <2>1, <2>2, <2>4, <2>5, <2>6, <2>7, <1>t, <1>j
<1>3. ended' \subseteq Ids' /\ overtaken' \subseteq ended'
  <2>1. ASSUME NEW c \in Calls, Revoke(c)
        PROVE  ended' \subseteq Ids' /\ overtaken' \subseteq ended'
    <3>1. calls[c].token \in Ids
      BY <2>1, Typed DEF Revoke, CallOK
    <3>2. FamilyOf(calls[c].token) \in Ids
      BY <1>0, <3>1 DEF TokenOK, FamilyOf, Ids
    <3> QED  BY <1>0, <2>1, <3>2 DEF Revoke, TypeOK
  <2>2. (\E c \in Calls : Revoke(c)) \/ UNCHANGED <<ended, overtaken>>
    BY DEF Next, Serve, vars, history, Navigate, SignIn, SignOut, Send, Find, FindUser, Consume,
           Store, Report, Deliver, Raise, Lose, OpenRefusedPage, Crash, AccessTokenExpires,
           AccessExpires, TokenExpires, Deactivate, Fault
  <2> QED  BY <1>0, <2>1, <2>2 DEF TypeOK
<1>4. shared' \subseteq Ids'
  <2>1. ASSUME NEW c \in Calls, Find(c)
        PROVE  shared' \subseteq Ids
    <3>1. \A d \in Calls : Rotating(d) => calls[d].token \in Ids
      BY Typed DEF Rotating, CallOK
    <3> QED  BY <2>1, <3>1 DEF Find, TypeOK
  <2>2. (\E c \in Calls : Find(c)) \/ UNCHANGED shared
    BY DEF Next, Serve, vars, history, Navigate, SignIn, SignOut, Send, FindUser, Consume,
           Store, Revoke, Report, Deliver, Raise, Lose, OpenRefusedPage, Crash, AccessTokenExpires,
           AccessExpires, TokenExpires, Deactivate, Fault
  <2> QED  BY <1>0, <2>1, <2>2 DEF TypeOK
<1>5. active' \in BOOLEAN /\ faults' \in 0..MaxFaults /\ disturbed' \in BOOLEAN
  <2>1. faults \in 0..MaxFaults /\ disturbed \in BOOLEAN /\ active \in BOOLEAN
    BY DEF TypeOK
  <2>2. /\ active' \in {active, FALSE}
        /\ UNCHANGED faults \/ (faults < MaxFaults /\ faults' = faults + 1)
        /\ \/ disturbed' \in {disturbed, TRUE}
           \/ \E c \in Calls : Navigate(c) \/ SignIn(c) \/ SignOut(c) \/ Deliver(c)
    BY DEF Next, Serve, vars, history, Navigate, SignIn, SignOut, Send, Find, FindUser, Consume,
           Store, Revoke, Report, Deliver, Raise, Lose, OpenRefusedPage, Crash, AccessTokenExpires,
           AccessExpires, TokenExpires, Deactivate, Fault
  <2>3. (\E c \in Calls : Navigate(c) \/ SignIn(c) \/ SignOut(c) \/ Deliver(c))
            => disturbed' \in BOOLEAN
    BY DEF Navigate, SignIn, SignOut, Send, Deliver
  <2>4. faults' \in 0..MaxFaults
    BY <2>1, <2>2, SessionsAssumption
  <2> QED  BY <2>1, <2>2, <2>3, <2>4
<1> QED  BY <1>0, <1>1, <1>2, <1>3, <1>4, <1>5 DEF TypeOK

\* What can become of a call in one step: nothing, another pc, its end, its
\* beginning, a refusal, or the token it stores.
Stays(d) == calls'[d] = calls[d] \/ (calls'[d].pc = calls[d].pc /\ calls[d].pc # "idle")
Turns(d) ==
    \/ Stays(d)
    \/ calls[d].pc \in Serving /\ calls'[d].pc \in {"refused", "lost"}
    \/ Find(d) /\ calls'[d].pc = Found(d)
    \/ calls[d].pc = "user" /\ calls'[d].pc = "consume"
    \/ calls[d].pc = "login" /\ calls'[d].pc = "store"
    \/ Consume(d) /\ calls'[d].pc = "store"
    \/ Revoke(d) /\ calls'[d].pc = IF calls[d].kind = "logout" THEN "ended" ELSE "report"
Advances(d) ==
    \/ Turns(d) /\ calls'[d].kind = calls[d].kind /\ calls'[d].token = calls[d].token
    \/ calls'[d] \in {Idle, RefusedPage}
    \/ /\ calls'[d].token \in Ids
       /\ calls'[d].pc = "find" /\ calls'[d].kind \in {"refresh", "logout"}
    \/ calls'[d].token = NoToken /\ calls'[d].pc = "login" /\ calls'[d].kind = "login"
    \/ /\ Store(d) /\ calls'[d].pc = "ok" /\ calls'[d].kind = calls[d].kind
       /\ calls'[d].token = Len(tokens) + 1

\* A call moves along its path only, whoever takes the step.
LEMMA CallsAdvance ==
    ASSUME TypeOK, [Next]_vars, NEW d \in Calls
    PROVE  Advances(d)
<1>t. /\ calls \in [Calls -> CallRec]
      /\ \A c \in Calls : calls[c].token \in 0..Len(tokens)
      /\ tokens \in Seq(TokenRec)
  BY Typed
<1>1. ASSUME NEW c \in Calls, Navigate(c) \/ SignIn(c) \/ SignOut(c)
      PROVE  Advances(d)
  <2>1. PICK kind \in {"refresh", "login", "logout"}, pc \in {"find", "login"},
                 t \in Ids \cup {NoToken} :
            /\ Send(c, kind, pc, t)
            /\ \/ t \in Ids /\ pc = "find" /\ kind \in {"refresh", "logout"}
               \/ t = NoToken /\ pc = "login" /\ kind = "login"
    BY <1>1, Sendings
  <2>2. /\ calls'[c].kind = kind /\ calls'[c].pc = pc /\ calls'[c].token = t
        /\ \A e \in Calls \ {c} : calls'[e] = calls[e]
    BY <1>t, <2>1, SendTells
  <2> QED  BY <2>1, <2>2 DEF Advances, Turns, Stays
<1>2. ASSUME NEW c \in Calls, NEW pc, Moved(c, pc), d = c => Turns(d)
      PROVE  Advances(d)
  BY <1>2 DEF Moved, Advances, Turns, Stays
<1>3. ASSUME NEW c \in Calls, Find(c)
      PROVE  Advances(d)
  <2>1. Moved(c, Found(c))
    BY <1>t, <1>3, GotoMoves DEF Find
  <2>2. calls'[c].pc = Found(c)
    BY <2>1 DEF Moved
  <2>3. Turns(c)
    BY <1>3, <2>2 DEF Turns
  <2> QED  BY <1>2, <2>1, <2>3
<1>4. ASSUME NEW c \in Calls, FindUser(c)
      PROVE  Advances(d)
  <2>1. PICK pc : /\ Goto(c, pc)
                  /\ \/ calls[c].pc = "user" /\ pc = "consume"
                     \/ calls[c].pc = "login" /\ pc = "store"
                     \/ calls[c].pc \in {"user", "login"} /\ pc = "refused"
    <3>1. /\ ~active => Goto(c, "refused")
          /\ active /\ calls[c].pc = "user" => Goto(c, "consume")
          /\ active /\ calls[c].pc = "login" => Goto(c, "store")
          /\ calls[c].pc \in {"user", "login"}
      BY <1>4 DEF FindUser
    <3> QED  BY <3>1
  <2>2. Moved(c, pc)
    BY <1>t, <2>1, GotoMoves
  <2>3. calls'[c].pc = pc
    BY <2>2 DEF Moved
  <2>4. Turns(c)
    BY <2>1, <2>3 DEF Turns, Serving
  <2> QED  BY <1>2, <2>2, <2>4
<1>5. ASSUME NEW c \in Calls, Consume(c)
      PROVE  Advances(d)
  <2>1. Moved(c, "store")
    BY <1>t, <1>5, GotoMoves DEF Consume
  <2>2. Turns(c)
    BY <1>5, <2>1 DEF Turns, Moved
  <2> QED  BY <1>2, <2>1, <2>2
<1>6. ASSUME NEW c \in Calls, Store(c)
      PROVE  Advances(d)
  <2>1. /\ calls'[c].pc = "ok" /\ calls'[c].token = Len(tokens) + 1
        /\ calls'[c].kind = calls[c].kind
        /\ \A e \in Calls \ {c} : calls'[e] = calls[e]
    BY <1>t, <1>6, StoringTells
  <2> QED  BY <1>6, <2>1 DEF Advances, Turns, Stays
<1>7. ASSUME NEW c \in Calls, Revoke(c)
      PROVE  Advances(d)
  <2> DEFINE pc == IF calls[c].kind = "logout" THEN "ended" ELSE "report"
  <2>1. Moved(c, pc)
    BY <1>t, <1>7, GotoMoves DEF Revoke
  <2>2. Turns(c)
    BY <1>7, <2>1 DEF Turns, Moved
  <2> QED  BY <1>2, <2>1, <2>2
<1>8. ASSUME NEW c \in Calls, Report(c) \/ Raise(c)
      PROVE  Advances(d)
  <2>1. Moved(c, "refused")
    BY <1>t, <1>8, GotoMoves DEF Report, Raise
  <2>2. Turns(c)
    BY <1>8, <2>1 DEF Turns, Moved, Report, Raise, Serving
  <2> QED  BY <1>2, <2>1, <2>2
<1>9. ASSUME NEW c \in Calls, Deliver(c)
      PROVE  Advances(d)
  <2>1. calls'[c] \in {Idle, RefusedPage} /\ \A e \in Calls \ {c} : calls'[e] = calls[e]
    BY <1>t, <1>9, DeliverTells
  <2> QED  BY <2>1 DEF Advances, Turns, Stays
<1>14. ASSUME NEW c \in Calls, OpenRefusedPage(c)
       PROVE  Advances(d)
  <2>1. calls'[c] = RefusedPage /\ \A e \in Calls \ {c} : calls'[e] = calls[e]
    BY <1>t, <1>14, RefusalTells
  <2> QED  BY <2>1 DEF Advances, Turns, Stays
<1>10. ASSUME NEW c \in Calls, Lose(c)
       PROVE  Advances(d)
  <2>1. calls[c].pc # "idle"
    BY <1>10 DEF Lose, Serving, Answered
  <2>2. /\ calls'[c].kind = calls[c].kind /\ calls'[c].pc = calls[c].pc
        /\ calls'[c].token = calls[c].token
        /\ \A e \in Calls \ {c} : calls'[e] = calls[e]
    BY <1>t, <1>10, CutOffTells
  <2> QED  BY <2>1, <2>2 DEF Advances, Turns, Stays
<1>11. CASE Crash
  <2>1. /\ calls'[d].kind = calls[d].kind
        /\ calls'[d].token = calls[d].token
        /\ calls'[d].pc = IF calls[d].pc \in Serving THEN "lost" ELSE calls[d].pc
        /\ calls[d].pc \notin Serving => calls'[d] = calls[d]
    BY <1>t, <1>11, CrashTells
  <2> QED  BY <2>1 DEF Advances, Turns, Stays
<1>12. CASE UNCHANGED calls
  BY <1>12 DEF Advances, Turns, Stays
<1>13. \/ UNCHANGED calls \/ Crash
       \/ \E c \in Calls : Navigate(c) \/ SignIn(c) \/ SignOut(c) \/ Find(c) \/ FindUser(c)
              \/ Consume(c) \/ Store(c) \/ Revoke(c) \/ Report(c) \/ Deliver(c) \/ Raise(c)
              \/ Lose(c) \/ OpenRefusedPage(c)
  BY DEF Next, Serve, vars, AccessTokenExpires, AccessExpires, TokenExpires, Deactivate
<1> QED  BY <1>1, <1>3, <1>4, <1>5, <1>6, <1>7, <1>8, <1>9, <1>10, <1>11, <1>12, <1>13, <1>14

----------------------------------------------------------------------------
(* One lemma per part of the invariant.                                    *)

\* The tokens that more than one call held stay known, and so do the ended families.
LEMMA HistoryGrows ==
    ASSUME [Next]_vars
    PROVE  shared \subseteq shared' /\ ended \subseteq ended' /\ overtaken \subseteq overtaken'
<1>1. ASSUME NEW c \in Calls, Find(c) \/ Revoke(c)
      PROVE  shared \subseteq shared' /\ ended \subseteq ended' /\ overtaken \subseteq overtaken'
  BY <1>1 DEF Find, Revoke
<1>2. \/ \E c \in Calls : Find(c) \/ Revoke(c)
      \/ UNCHANGED <<shared, ended, overtaken>>
  BY DEF Next, Serve, vars, history, Navigate, SignIn, SignOut, Send, FindUser, Consume, Store,
         Report, Deliver, Raise, Lose, OpenRefusedPage, Crash, AccessTokenExpires,
         AccessExpires, TokenExpires, Deactivate, Fault
<1> QED  BY <1>1, <1>2

\* Every step keeps what holds of a call.
LEMMA CallOKStep ==
    ASSUME TypeOK, \A c \in Calls : CallOK(c), [Next]_vars, NEW d \in Calls
    PROVE  CallOK(d)'
<1>t. /\ \A c \in Calls : calls[c].token # NoToken => calls[c].token \in Ids
      /\ tokens \in Seq(TokenRec) /\ Len(tokens) \in Nat
  BY Typed
<1>w. (\A t \in Ids : Kept(t) /\ Worn(t)) /\ ended \subseteq ended'
  BY TokensStep, HistoryGrows
<1>c. CallOK(d)
  OBVIOUS
<1>1. CASE Turns(d) /\ calls'[d].kind = calls[d].kind /\ calls'[d].token = calls[d].token
  <2> DEFINE k == calls[d].kind  p == calls[d].pc  t == calls[d].token
             q == calls'[d].pc
  <2>1. k \in {"none", "refresh", "login", "logout", "page"} /\ p \in {"idle"} \cup Serving \cup Answered
    BY DEF TypeOK, CallRec
  <2>2. k = "refresh" /\ q = "store" => tokens'[t].consumed
    <3>1. CASE k = "refresh" /\ q = "store" /\ Consume(d)
      <4>1. t \in Ids
        BY <1>c, <1>t, <3>1 DEF CallOK
      <4> QED  BY <1>t, <3>1, <4>1, SpendTells DEF Consume
    <3>2. CASE k = "refresh" /\ q = "store" /\ p = "store"
      BY <1>c, <1>t, <1>w, <3>2 DEF CallOK, Worn
    <3>3. k = "refresh" /\ q = "store" => Consume(d) \/ p = "store"
      BY <1>1, <1>c DEF Turns, Stays, Find, Found, CallOK
    <3> QED  BY <3>1, <3>2, <3>3
  <2>11. q = "ended" => k = "logout" /\ tokens'[t].family \in ended'
    <3>1. CASE Revoke(d)
      <4>1. t \in Ids /\ FamilyOf(t) \in ended' /\ p = "revoke"
        BY <1>c, <1>t, <3>1 DEF Revoke, CallOK
      <4> QED  BY <1>1, <1>w, <3>1, <4>1 DEF Kept, FamilyOf, Turns, Stays, Find, Consume, Serving
    <3>2. CASE p = "ended"
      <4>1. k = "logout" /\ t \in Ids /\ FamilyOf(t) \in ended
        BY <1>c, <1>t, <3>2 DEF CallOK
      <4> QED  BY <1>w, <4>1 DEF Kept, FamilyOf
    <3>3. q = "ended" => Revoke(d) \/ p = "ended"
      <4>1. Find(d) => Found(d) # "ended"
        BY DEF Found
      <4> QED  BY <1>1, <4>1 DEF Turns, Stays
    <3> QED  BY <3>1, <3>2, <3>3
  <2>3. CASE calls'[d] = calls[d]
    BY <1>1, <1>c, <2>2, <2>3, <2>11 DEF CallOK, FamilyOf
  <2>4. CASE q = p /\ p # "idle"
    BY <1>1, <1>c, <2>1, <2>2, <2>4, <2>11 DEF CallOK, FamilyOf
  <2>5. CASE p \in Serving /\ q \in {"refused", "lost"}
    BY <1>1, <1>c, <2>1, <2>2, <2>5 DEF CallOK, Serving
  <2>6. CASE Find(d) /\ q = Found(d)
    <3>1. p = "find" /\ k \in {"refresh", "logout"}
      BY <1>c, <2>6 DEF Find, CallOK
    <3>2. /\ q \in {"revoke", "user", "refused"}
          /\ q = "user" => k = "refresh"
      BY <2>6, <3>1 DEF Found
    <3> QED  BY <1>1, <1>c, <2>1, <2>2, <3>1, <3>2 DEF CallOK
  <2>7. CASE p = "user" /\ q = "consume"
    BY <1>1, <1>c, <2>1, <2>2, <2>7 DEF CallOK
  <2>8. CASE p = "login" /\ q = "store"
    BY <1>1, <1>c, <2>1, <2>2, <2>8 DEF CallOK
  <2>9. CASE Consume(d) /\ q = "store"
    <3>1. p = "consume"
      BY <2>9 DEF Consume
    <3> QED  BY <1>1, <1>c, <2>1, <2>2, <2>9, <3>1 DEF CallOK
  <2>10. CASE Revoke(d) /\ q = IF k = "logout" THEN "ended" ELSE "report"
    <3>1. p = "revoke"
      BY <2>10 DEF Revoke
    <3> QED  BY <1>1, <1>c, <2>1, <2>2, <2>10, <2>11, <3>1 DEF CallOK, FamilyOf
  <2> QED  BY <1>1, <2>3, <2>4, <2>5, <2>6, <2>7, <2>8, <2>9, <2>10 DEF Turns, Stays
<1>2. CASE calls'[d] \in {Idle, RefusedPage}
  <2>1. calls'[d].kind \in {"none", "page"} /\ calls'[d].token = NoToken
        /\ calls'[d].pc = IF calls'[d].kind = "none" THEN "idle" ELSE "refused"
    BY <1>2 DEF Idle, RefusedPage
  <2>2. CASE calls'[d] = Idle
    BY <2>1, <2>2 DEF CallOK, Idle
  <2>3. CASE calls'[d] = RefusedPage
    <3>1. calls'[d].kind = "page"
      BY <2>3 DEF RefusedPage
    <3> QED  BY <2>1, <3>1 DEF CallOK
  <2> QED  BY <1>2, <2>2, <2>3
<1>3. CASE calls'[d].token \in Ids /\ calls'[d].pc = "find"
           /\ calls'[d].kind \in {"refresh", "logout"}
  <2>1. calls'[d].token # NoToken
    BY <1>3 DEF Ids, NoToken
  <2> QED  BY <1>3, <2>1 DEF CallOK
<1>4. CASE calls'[d].token = NoToken /\ calls'[d].pc = "login" /\ calls'[d].kind = "login"
  BY <1>4 DEF CallOK
<1>5. CASE Store(d) /\ calls'[d].pc = "ok" /\ calls'[d].kind = calls[d].kind
           /\ calls'[d].token = Len(tokens) + 1
  <2>1. calls[d].kind \in {"refresh", "login"}
    BY <1>5, <1>c DEF Store, CallOK
  <2>2. calls'[d].token # NoToken
    BY <1>5, <1>t DEF NoToken
  <2> QED  BY <1>5, <2>1, <2>2 DEF CallOK
<1> QED  BY <1>1, <1>2, <1>3, <1>4, <1>5, CallsAdvance DEF Advances

\* Every step keeps what holds of a token.
LEMMA TokenOKStep ==
    ASSUME TypeOK, \A c \in Calls : CallOK(c), \A t \in Ids : TokenOK(t), [Next]_vars
    PROVE  \A t \in Ids' : TokenOK(t)'
<1>t. /\ calls \in [Calls -> CallRec]
      /\ \A c \in Calls : calls[c].token \in 0..Len(tokens)
      /\ \A c \in Calls : calls[c].token # NoToken => calls[c].token \in Ids
      /\ tokens \in Seq(TokenRec) /\ Len(tokens) \in Nat
  BY Typed
<1>1. \A t \in Ids : TokenOK(t)'
  BY TokensStep DEF TokenOK, Kept
<1>2. ASSUME NEW c \in Calls, Store(c)
      PROVE  \A i \in Ids' : i \in Ids \/ TokenOK(i)'
  <2> DEFINE t == calls[c].token  id == Len(tokens) + 1
  <2>1. Ids' = Ids \cup {id} /\ tokens'[id].family = FamilyAfter(t) /\ tokens'[id].parent = t
    BY <1>2, <1>t, StoringTells
  <2>2. t \in 0..Len(tokens)
    BY <1>t
  <2>3. FamilyAfter(t) \in 1..id
    <3>1. CASE t = NoToken
      BY <1>t, <3>1 DEF FamilyAfter
    <3>2. CASE t # NoToken
      BY <1>t, <3>2 DEF FamilyAfter, FamilyOf, TokenOK, Ids
    <3> QED  BY <3>1, <3>2
  <2>4. ASSUME NEW i, i = id
        PROVE  tokens'[i].family \in 1..i /\ tokens'[i].parent \in 0..(i - 1)
    BY <1>t, <2>1, <2>2, <2>3, <2>4
  <2> HIDE DEF id
  <2> QED  BY <2>1, <2>4 DEF TokenOK
<1>3. (\E c \in Calls : Store(c)) \/ Ids' = Ids
  BY TokensStep
<1> QED  BY <1>1, <1>2, <1>3

\* Every step leaves a token at most one successor, the named window apart.
LEMMA ExchangedOnceStep ==
    ASSUME TypeOK, \A c \in Calls : CallOK(c), \A t \in Ids : TokenOK(t),
           ExchangedOnce, RotationOK, [Next]_vars
    PROVE  ExchangedOnce'
<1>t. /\ calls \in [Calls -> CallRec]
      /\ \A c \in Calls : calls[c].token \in 0..Len(tokens)
      /\ \A c \in Calls : calls[c].token # NoToken => calls[c].token \in Ids
      /\ tokens \in Seq(TokenRec) /\ Len(tokens) \in Nat
  BY Typed
<1>0. /\ Ids \subseteq Ids'
      /\ \A t \in Ids : Kept(t) /\ Worn(t)
      /\ shared \subseteq shared'
      /\ \A t \in Ids : tokens[t].parent # NoToken => tokens[t].parent \in Ids
  <2>1. \A t \in Ids : tokens[t].parent # NoToken => tokens[t].parent \in Ids
    BY <1>t DEF TokenOK, Ids, NoToken
  <2> QED  BY <2>1, TokensStep, HistoryGrows
<1>1. ASSUME NEW t \in Ids, tokens[t].parent # NoToken
      PROVE  /\ tokens'[tokens'[t].parent].consumed
             /\ tokens'[t].family = tokens'[tokens'[t].parent].family
  <2> DEFINE p == tokens[t].parent
  <2>1. p \in Ids /\ tokens[p].consumed /\ tokens[t].family = tokens[p].family
    BY <1>0, <1>1 DEF ExchangedOnce, FamilyOf
  <2>2. tokens'[t].parent = p /\ tokens'[t].family = tokens[t].family
        /\ tokens'[p].family = tokens[p].family
    BY <1>0, <2>1 DEF Kept
  <2>3. tokens'[p].consumed
    BY <1>0, <2>1 DEF Worn
  <2> QED  BY <2>1, <2>2, <2>3
<1>2. ASSUME NEW t \in Ids, NEW u \in Ids, t # u, tokens[t].parent = tokens[u].parent,
             tokens[t].parent # NoToken
      PROVE  tokens'[t].parent \in shared'
  BY <1>0, <1>2 DEF ExchangedOnce, Kept
<1>3. CASE Ids' = Ids
  BY <1>0, <1>1, <1>2, <1>3 DEF ExchangedOnce, FamilyOf, Kept
<1>4. ASSUME NEW c \in Calls, Store(c)
      PROVE  ExchangedOnce'
  <2> DEFINE t == calls[c].token  id == Len(tokens) + 1
  <2>1. /\ Ids' = Ids \cup {id} /\ id \notin Ids
        /\ \A u \in Ids : tokens'[u] = tokens[u]
        /\ tokens'[id].family = FamilyAfter(t) /\ tokens'[id].parent = t
    BY <1>4, <1>t, StoringTells
  <2>2. calls[c].pc = "store" /\ calls[c].kind \in {"refresh", "login"}
    BY <1>4 DEF Store, CallOK
  <2>3. ASSUME t # NoToken
        PROVE  /\ t \in Ids /\ tokens[t].consumed /\ FamilyAfter(t) = tokens[t].family
               /\ \A u \in Ids : tokens[u].parent = t => t \in shared
    <3>1. calls[c].kind = "refresh" /\ t \in Ids
      BY <1>t, <2>2, <2>3 DEF CallOK
    <3>2. Rotating(c)
      BY <2>2, <3>1 DEF Rotating
    <3> QED  BY <2>2, <2>3, <3>1, <3>2 DEF CallOK, RotationOK, FamilyAfter, FamilyOf
  <2>4. ASSUME NEW u \in Ids', tokens'[u].parent # NoToken
        PROVE  /\ tokens'[tokens'[u].parent].consumed
               /\ tokens'[u].family = tokens'[tokens'[u].parent].family
    <3>1. CASE u \in Ids
      BY <1>1, <2>1, <2>4, <3>1
    <3>2. CASE u = id
      <4>1. t # NoToken /\ tokens'[u].parent = t
        BY <2>1, <2>4, <3>2
      <4> QED  BY <2>1, <2>3, <3>2, <4>1
    <3> QED  BY <2>1, <3>1, <3>2
  <2>5. ASSUME NEW u \in Ids', NEW v \in Ids', u # v, tokens'[u].parent = tokens'[v].parent,
               tokens'[u].parent # NoToken
        PROVE  tokens'[u].parent \in shared'
    <3>1. CASE u \in Ids /\ v \in Ids
      BY <1>2, <2>1, <2>5, <3>1
    <3>2. CASE u = id /\ v \in Ids
      BY <1>0, <2>1, <2>3, <2>5, <3>2
    <3>3. CASE v = id /\ u \in Ids
      BY <1>0, <2>1, <2>3, <2>5, <3>3
    <3> QED  BY <2>1, <2>5, <3>1, <3>2, <3>3
  <2> HIDE DEF t, id
  <2> QED  BY <2>4, <2>5 DEF ExchangedOnce, FamilyOf
<1> QED  BY <1>3, <1>4, TokensStep

\* A refresh that is past its check was so before, or has just found its token live.
LEMMA RotatingBefore ==
    ASSUME TypeOK, \A c \in Calls : CallOK(c), [Next]_vars, NEW d \in Calls, Rotating(d)'
    PROVE  /\ calls'[d].token = calls[d].token /\ calls[d].kind = "refresh"
           /\ calls[d].token \in Ids
           /\ Rotating(d) \/ (Find(d) /\ Live(calls[d].token))
<1>c. CallOK(d) /\ (calls[d].token # NoToken => calls[d].token \in Ids)
  BY Typed
<1>0. calls'[d].kind = "refresh" /\ calls'[d].pc \in {"user", "consume", "store"}
  BY DEF Rotating
<1>1. Turns(d) /\ calls'[d].kind = calls[d].kind /\ calls'[d].token = calls[d].token
  BY <1>0, CallsAdvance DEF Advances, Idle, RefusedPage
<1>2. calls[d].token \in Ids
  BY <1>0, <1>1, <1>c DEF CallOK
<1>3. CASE Find(d) /\ calls'[d].pc = Found(d)
  <2>1. Found(d) = "user"
    BY <1>0, <1>1, <1>3 DEF Found
  <2>2. ~tokens[calls[d].token].consumed /\ Live(calls[d].token)
    BY <1>0, <1>1, <2>1 DEF Found
  <2> QED  BY <1>0, <1>1, <1>2, <1>3, <2>2
<1>4. CASE ~(Find(d) /\ calls'[d].pc = Found(d))
  <2>1. calls[d].pc \in {"user", "consume", "store"}
    BY <1>0, <1>1, <1>4, <1>c DEF Turns, Stays, Consume, CallOK
  <2> QED  BY <1>0, <1>1, <1>2, <2>1 DEF Rotating
<1> QED  BY <1>3, <1>4

\* Two calls that rotate one token are in the window, at each step.
LEMMA RotationStep ==
    ASSUME TypeOK, \A c \in Calls : CallOK(c), \A t \in Ids : TokenOK(t),
           ExchangedOnce, RotationOK, [Next]_vars
    PROVE  RotationOK'
<1>t. /\ calls \in [Calls -> CallRec]
      /\ \A c \in Calls : calls[c].token \in 0..Len(tokens)
      /\ tokens \in Seq(TokenRec) /\ Len(tokens) \in Nat
  BY Typed
<1>0. shared \subseteq shared'
  BY HistoryGrows
<1>1. ASSUME NEW c \in Calls, NEW d \in Calls, c # d, Find(c), Live(calls[c].token),
             Rotating(d), calls[d].token = calls[c].token
      PROVE  calls[c].token \in shared'
  <2>1. calls[d].pc # "store"
    BY <1>1 DEF Rotating, CallOK, Live
  <2> QED  BY <1>1, <2>1 DEF Find
<1>2. ASSUME NEW c \in Calls, Rotating(c)',
             NEW d \in Calls \ {c}, Rotating(d)', calls'[d].token = calls'[c].token
      PROVE  calls'[c].token \in shared'
  <2>1. /\ calls'[c].token = calls[c].token /\ calls'[d].token = calls[d].token
        /\ Rotating(c) \/ (Find(c) /\ Live(calls[c].token))
        /\ Rotating(d) \/ (Find(d) /\ Live(calls[d].token))
    BY <1>2, RotatingBefore
  <2>2. ~(Find(c) /\ Find(d))
    <3>1. Find(c) => Moved(c, Found(c))
      BY <1>t, GotoMoves DEF Find
    <3>2. Find(c) => calls'[d] = calls[d]
      BY <3>1 DEF Moved
    <3>3. Find(d) /\ Find(c) => calls'[d].pc = "find"
      BY <3>2 DEF Find
    <3> QED  BY <1>2, <3>3 DEF Rotating
  <2>3. CASE Rotating(c) /\ Rotating(d)
    BY <1>0, <1>2, <2>1, <2>3 DEF RotationOK
  <2>4. CASE Find(c) /\ Live(calls[c].token) /\ Rotating(d)
    BY <1>1, <1>2, <2>1, <2>4
  <2>5. CASE Find(d) /\ Live(calls[d].token) /\ Rotating(c)
    BY <1>1, <1>2, <2>1, <2>5
  <2> QED  BY <2>1, <2>2, <2>3, <2>4, <2>5
<1>3. ASSUME NEW c \in Calls, Rotating(c)', NEW u \in Ids, tokens[u].parent = calls[c].token
      PROVE  calls[c].token \in shared'
  <2>1. calls[c].token \in Ids /\ (Rotating(c) \/ (Find(c) /\ Live(calls[c].token)))
    BY <1>3, RotatingBefore
  <2>2. tokens[u].parent # NoToken
    BY <1>3, <2>1 DEF Ids, NoToken
  <2>3. tokens[calls[c].token].consumed
    BY <1>3, <2>2 DEF ExchangedOnce
  <2>4. Rotating(c)
    BY <2>1, <2>3 DEF Live
  <2> QED  BY <1>0, <1>3, <2>4 DEF RotationOK
<1>4. ASSUME NEW c \in Calls, Rotating(c)', NEW u \in Ids', tokens'[u].parent = calls'[c].token
      PROVE  calls'[c].token \in shared'
  <2>1. calls'[c].token = calls[c].token
    BY <1>4, RotatingBefore
  <2>2. CASE u \in Ids
    <3>1. tokens'[u].parent = tokens[u].parent
      BY <2>2, TokensStep DEF Kept
    <3> QED  BY <1>3, <1>4, <2>1, <2>2, <3>1
  <2>3. CASE u \notin Ids
    <3>1. PICK d \in Calls : Store(d)
      BY <1>4, <2>3, TokensStep
    <3>2. /\ Ids' = Ids \cup {Len(tokens) + 1} /\ tokens'[Len(tokens) + 1].parent = calls[d].token
          /\ calls'[d].pc = "ok" /\ \A e \in Calls \ {d} : calls'[e] = calls[e]
      BY <1>t, <3>1, StoringTells
    <3>3. calls[c].token = calls[d].token
      BY <1>4, <2>1, <2>3, <3>2
    <3>4. c # d /\ calls'[c] = calls[c]
      BY <1>4, <3>2 DEF Rotating
    <3>5. Rotating(c) /\ calls[c].token \in Ids
      BY <1>4, <3>4, RotatingBefore DEF Rotating
    <3>6. Rotating(d)
      <4>1. calls[d].pc = "store" /\ calls[d].token # NoToken
        BY <3>1, <3>3, <3>5 DEF Store, Ids, NoToken
      <4>2. CallOK(d)
        OBVIOUS
      <4> QED  BY <4>1, <4>2 DEF CallOK, Rotating
    <3> QED  BY <1>0, <2>1, <3>3, <3>4, <3>5, <3>6 DEF RotationOK
  <2> QED  BY <2>2, <2>3
<1> QED  BY <1>2, <1>4 DEF RotationOK

\* A family that a revocation ended has no token left that is live.
LEMMA EndedStep ==
    ASSUME TypeOK, \A c \in Calls : CallOK(c), \A t \in Ids : TokenOK(t),
           EndedFamilyIsDead, [Next]_vars
    PROVE  EndedFamilyIsDead'
<1>t. /\ calls \in [Calls -> CallRec]
      /\ \A c \in Calls : calls[c].token \in 0..Len(tokens)
      /\ tokens \in Seq(TokenRec) /\ Len(tokens) \in Nat
  BY Typed
<1>0. /\ \A t \in Ids : Kept(t) /\ Worn(t)
      /\ Ids \subseteq Ids'
  BY TokensStep
<1>1. ASSUME NEW t \in Ids, Live(t)'
      PROVE  Live(t)
  BY <1>0, <1>1 DEF Live, Worn
<1>2. ASSUME NEW f \in ended \ overtaken, NEW t \in Ids', tokens'[t].family = f
      PROVE  ~Live(t)'
  <2>1. CASE t \in Ids
    BY <1>0, <1>1, <1>2, <2>1 DEF EndedFamilyIsDead, FamilyOf, Kept
  <2>2. CASE t \notin Ids
    <3>1. PICK c \in Calls : Store(c)
      BY <1>2, <2>2, TokensStep
    <3>2. /\ Ids' = Ids \cup {Len(tokens) + 1}
          /\ tokens'[Len(tokens) + 1].family = FamilyAfter(calls[c].token)
      BY <1>t, <3>1, StoringTells
    <3>3. f = FamilyAfter(calls[c].token)
      BY <1>2, <2>2, <3>2
    <3>4. f \in Ids
      BY DEF TypeOK
    <3>5. calls[c].token # NoToken
      BY <1>t, <3>3, <3>4 DEF FamilyAfter, Ids
    <3>6. Rotating(c)
      <4>1. CallOK(c) /\ calls[c].pc = "store"
        BY <3>1 DEF Store
      <4> QED  BY <3>5, <4>1 DEF CallOK, Rotating
    <3>7. f = FamilyOf(calls[c].token)
      BY <3>3, <3>5 DEF FamilyAfter
    <3> QED  BY <3>6, <3>7 DEF EndedFamilyIsDead
  <2> QED  BY <2>1, <2>2
<1>3. ASSUME NEW f \in ended \ overtaken, NEW c \in Calls, Rotating(c)'
      PROVE  tokens'[calls'[c].token].family # f
  <2>1. /\ calls'[c].token = calls[c].token /\ calls[c].token \in Ids
        /\ Rotating(c) \/ Live(calls[c].token)
    BY <1>3, RotatingBefore
  <2>2. FamilyOf(calls[c].token) # f
    BY <2>1 DEF EndedFamilyIsDead
  <2> QED  BY <1>0, <2>1, <2>2 DEF FamilyOf, Kept
<1>4. ASSUME NEW c \in Calls, Revoke(c)
      PROVE  EndedFamilyIsDead'
  <2> DEFINE g == FamilyOf(calls[c].token)
  <2>1. /\ Ids' = Ids
        /\ \A t \in Ids : tokens[t].family = g => tokens'[t].revoked
    <3>1. /\ Len(tokens') = Len(tokens)
          /\ \A t \in Ids : FamilyOf(t) = g => tokens'[t].revoked
      BY <1>t, <1>4, RevocationTells DEF Revoke
    <3> QED  BY <3>1 DEF Ids, FamilyOf
  <2>2. /\ ended' = ended \cup {g}
        /\ overtaken \subseteq overtaken'
        /\ (\E d \in Calls : Rotating(d) /\ FamilyOf(calls[d].token) = g) => g \in overtaken'
        /\ calls[c].pc = "revoke"
    BY <1>4 DEF Revoke
  <2>3. ASSUME NEW t \in Ids', tokens'[t].family = g
        PROVE  ~Live(t)'
    BY <1>0, <2>1, <2>3 DEF Live, Kept
  <2>4. ASSUME NEW d \in Calls, Rotating(d)', g \notin overtaken'
        PROVE  tokens'[calls'[d].token].family # g
    <3>1. /\ calls'[d].token = calls[d].token /\ calls[d].token \in Ids
          /\ Rotating(d) \/ Find(d)
      BY <2>4, RotatingBefore
    <3>2. ~Find(d)
      <4>1. /\ calls'[c].pc \in {"ended", "report"}
            /\ \A e \in Calls \ {c} : calls'[e] = calls[e]
        BY <1>4, <1>t, GotoMoves DEF Revoke, Moved
      <4>2. d # c
        BY <2>4, <4>1 DEF Rotating
      <4>3. calls[d].pc # "find"
        BY <2>4, <4>1, <4>2 DEF Rotating
      <4> QED  BY <4>3 DEF Find
    <3>3. FamilyOf(calls[d].token) # g
      BY <2>2, <2>4, <3>1, <3>2
    <3> QED  BY <1>0, <3>1, <3>3 DEF FamilyOf, Kept
  <2>5. ASSUME NEW f \in ended' \ overtaken'
        PROVE  /\ \A t \in Ids' : tokens'[t].family = f => ~Live(t)'
               /\ \A d \in Calls : Rotating(d)' => tokens'[calls'[d].token].family # f
    <3>1. CASE f = g
      BY <2>3, <2>4, <2>5, <3>1
    <3>2. CASE f \in ended \ overtaken
      BY <1>2, <1>3, <3>2
    <3> QED  BY <2>2, <2>5, <3>1, <3>2
  <2> QED  BY <2>5 DEF EndedFamilyIsDead, FamilyOf
<1>5. CASE UNCHANGED <<ended, overtaken>>
  <2>1. ASSUME NEW f \in ended' \ overtaken'
        PROVE  /\ \A t \in Ids' : tokens'[t].family = f => ~Live(t)'
               /\ \A d \in Calls : Rotating(d)' => tokens'[calls'[d].token].family # f
    BY <1>2, <1>3, <1>5, <2>1
  <2> QED  BY <2>1 DEF EndedFamilyIsDead, FamilyOf
<1>6. (\E c \in Calls : Revoke(c)) \/ UNCHANGED <<ended, overtaken>>
  BY DEF Next, Serve, vars, history, Navigate, SignIn, SignOut, Send, Find, FindUser, Consume,
         Store, Report, Deliver, Raise, Lose, OpenRefusedPage, Crash, AccessTokenExpires,
         AccessExpires, TokenExpires, Deactivate, Fault
<1> QED  BY <1>4, <1>5, <1>6

----------------------------------------------------------------------------
(* Sessions that nothing disturbs.                                         *)

\* A step that leaves every call its token, and the jar its own.
LEMMA QuietFrame ==
    ASSUME TypeOK, Apart, Held, \A t \in Ids : Kept(t), jar'.refresh = jar.refresh,
           \A c \in Calls : /\ calls'[c].token = calls[c].token
                            /\ calls'[c].kind = calls[c].kind
                            /\ calls'[c].pc = "ok" <=> calls[c].pc = "ok"
    PROVE  /\ Apart' /\ Held'
           /\ \A c \in Calls : SameFamily(c, jar.refresh) => SameFamily(c, jar.refresh)'
<1>0. /\ \A c \in Calls : calls[c].token # NoToken => calls[c].token \in Ids
      /\ jar.refresh # NoToken => jar.refresh \in Ids
  BY Typed, JarTyped
<1>1. ASSUME NEW c \in Calls, NEW t, t # NoToken => t \in Ids
      PROVE  /\ calls[c].token # NoToken /\ t # NoToken
                    => tokens'[calls[c].token].family = tokens[calls[c].token].family
                       /\ tokens'[t].family = tokens[t].family
  BY <1>0, <1>1 DEF Kept
<1>2. \A c \in Calls : SameFamily(c, jar.refresh)' <=> SameFamily(c, jar.refresh)
  BY <1>0, <1>1 DEF SameFamily, FamilyOf
<1>3. \A c, d \in Calls : SameFamily(c, calls[d].token)' <=> SameFamily(c, calls[d].token)
  BY <1>0, <1>1 DEF SameFamily, FamilyOf
<1>4. \A c \in Calls : HoldsJar(c) => HoldsJar(c)' \/ calls[c].token = NoToken
  BY <1>0 DEF HoldsJar, Kept
<1>5. Held'
  BY <1>2, <1>4 DEF Held, SameFamily
<1> QED  BY <1>2, <1>3, <1>5 DEF Apart

\* A call that no step touches, and whose token keeps its flags, stays quiet.
LEMMA StaysQuiet ==
    ASSUME NEW d \in Calls, QuietCall(d), calls'[d] = calls[d],
           calls[d].token # NoToken => tokens'[calls[d].token] = tokens[calls[d].token],
           calls[d].kind = "logout" => (jar.refresh = NoToken \/ SameFamily(d, jar.refresh))',
           CallOK(d)
    PROVE  QuietCall(d)'
  BY DEF QuietCall, Live, Undimmed, CallOK

\* Sending a call leaves a quiet session quiet.
LEMMA QuietSend ==
    ASSUME TypeOK, \A c \in Calls : CallOK(c), Quiet, NEW c \in Calls, ~disturbed',
           Navigate(c) \/ SignIn(c) \/ SignOut(c)
    PROVE  Quiet'
<1>t. calls \in [Calls -> CallRec]
  BY Typed
<1>j. jar.refresh # NoToken => jar.refresh \in Ids
  BY JarTyped
<1>1. PICK kind, pc, t :
          /\ Send(c, kind, pc, t)
          /\ \/ t \in Ids /\ t = jar.refresh /\ pc = "find" /\ kind \in {"refresh", "logout"}
             \/ t = NoToken /\ pc = "login" /\ kind = "login"
  BY Sendings
<1>2. /\ calls[c] = Idle
      /\ calls'[c].kind = kind /\ calls'[c].pc = pc
      /\ calls'[c].token = t /\ calls'[c].listening
      /\ \A d \in Calls \ {c} : calls'[d] = calls[d]
  BY <1>t, <1>1, SendTells
<1>3. /\ UNCHANGED <<tokens, active, jar>>
      /\ t = NoToken \/ \A d \in Calls : ~Presents(d, t)
  BY <1>1 DEF Send
<1>4. ASSUME NEW d \in Calls, t # NoToken
      PROVE  ~SameFamily(d, t)
  <2>1. t = jar.refresh
    BY <1>1, <1>4
  <2>2. SameFamily(d, t) => HoldsJar(d) /\ calls[d].token # NoToken
    BY <2>1 DEF Quiet, Held, SameFamily
  <2>3. HoldsJar(d) /\ calls[d].token # NoToken => Presents(d, t)
    BY <2>1 DEF HoldsJar, Presents
  <2> QED  BY <1>3, <1>4, <2>2, <2>3
<1>5. \A d \in Calls : QuietCall(d)'
  <2>4. \A d \in Calls \ {c} : calls[d].kind = "logout"
            => (jar.refresh = NoToken \/ SameFamily(d, jar.refresh))'
    BY <1>2, <1>3 DEF Quiet, QuietCall, SameFamily, FamilyOf
  <2>1. \A d \in Calls \ {c} : QuietCall(d)'
    BY <1>2, <1>3, <2>4, StaysQuiet DEF Quiet
  <2>2. t # NoToken => Live(t) /\ Live(t)'
    BY <1>1, <1>3, <1>4 DEF Quiet, Carried, Live
  <2>3. QuietCall(c)'
    <3>1. CASE t = NoToken /\ pc = "login" /\ kind = "login"
      BY <1>2, <3>1 DEF QuietCall
    <3>2. CASE t # NoToken /\ pc = "find" /\ kind \in {"refresh", "logout"}
      <4>1. ~tokens'[calls'[c].token].consumed /\ ~tokens'[calls'[c].token].revoked
            /\ ~tokens'[calls'[c].token].expired
        BY <1>2, <1>3, <2>2, <3>2 DEF Live
      <4>2. SameFamily(c, jar.refresh)'
        BY <1>1, <1>2, <1>3, <3>2 DEF SameFamily, NoToken
      <4> QED  BY <1>2, <3>2, <4>1, <4>2 DEF QuietCall, Live
    <3> QED  BY <1>1, <3>1, <3>2 DEF Ids, NoToken
  <2> QED  BY <2>1, <2>3
<1>6. Apart'
  <2>1. ASSUME NEW d \in Calls, NEW e \in Calls, d # e
        PROVE  ~SameFamily(d, calls[e].token)'
    <3>1. CASE d # c /\ e # c
      BY <1>2, <1>3, <2>1, <3>1 DEF Quiet, Apart, SameFamily, FamilyOf
    <3>2. CASE d = c
      BY <1>2, <1>3, <1>4, <2>1, <3>2 DEF SameFamily, FamilyOf
    <3>3. CASE e = c
      BY <1>2, <1>3, <1>4, <2>1, <3>3 DEF SameFamily, FamilyOf
    <3> QED  BY <3>1, <3>2, <3>3
  <2> QED  BY <2>1 DEF Apart
<1>7. Held'
  <2>1. ASSUME NEW d \in Calls \ {c}, SameFamily(d, jar.refresh)'
        PROVE  HoldsJar(d)'
    BY <1>2, <1>3, <2>1 DEF Quiet, Held, SameFamily, FamilyOf, HoldsJar
  <2>2. SameFamily(c, jar.refresh)' => HoldsJar(c)'
    BY <1>1, <1>2, <1>3 DEF SameFamily, HoldsJar
  <2> QED  BY <2>1, <2>2 DEF Held
<1>8. Carried'
  <2>1. CASE t = NoToken
    <3>1. ~SameFamily(c, jar.refresh)
      BY <1>2 DEF SameFamily, Idle
    <3>2. \A d \in Calls : SameFamily(d, jar.refresh) => SameFamily(d, jar.refresh)'
      BY <1>2, <1>3, <3>1 DEF SameFamily, FamilyOf
    <3> QED  BY <1>3, <3>2 DEF Quiet, Carried, Live
  <2>2. CASE t # NoToken
    <3>1. Live(jar.refresh)
      BY <1>1, <1>4, <2>2 DEF Quiet, Carried
    <3> QED  BY <1>3, <3>1 DEF Carried, Live
  <2> QED  BY <2>1, <2>2
<1> QED  BY <1>3, <1>5, <1>6, <1>7, <1>8 DEF Quiet

\* A step that moves one call, by a pc other than "ok", and leaves the tokens of
\* the other calls and of the jar as they are.
LEMMA QuietMove ==
    ASSUME TypeOK, \A c \in Calls : CallOK(c), Quiet,
           NEW c \in Calls, NEW pc, Moved(c, pc), pc # "ok", calls[c].pc # "ok",
           UNCHANGED <<active, jar>>, \A t \in Ids : Kept(t),
           \A t \in Ids : calls[c].token = NoToken \/ FamilyOf(t) # FamilyOf(calls[c].token)
                          => tokens'[t] = tokens[t],
           (calls[c].kind = "logout" => (jar.refresh = NoToken \/ SameFamily(c, jar.refresh))')
               => QuietCall(c)'
    PROVE  Quiet'
<1>0. /\ \A d \in Calls : calls[d].token # NoToken => calls[d].token \in Ids
      /\ jar.refresh # NoToken => jar.refresh \in Ids
  BY Typed, JarTyped
<1>1. /\ Apart' /\ Held'
      /\ \A d \in Calls : SameFamily(d, jar.refresh) => SameFamily(d, jar.refresh)'
  <2>1. \A d \in Calls : /\ calls'[d].token = calls[d].token
                         /\ calls'[d].kind = calls[d].kind
                         /\ calls'[d].pc = "ok" <=> calls[d].pc = "ok"
    BY DEF Moved
  <2> QED  BY <2>1, QuietFrame DEF Quiet
<1>2. \A d \in Calls : QuietCall(d)'
  <2>1. ASSUME NEW d \in Calls \ {c}
        PROVE  calls[d].token # NoToken => tokens'[calls[d].token] = tokens[calls[d].token]
    BY <1>0 DEF Quiet, Apart, SameFamily
  <2>2. \A d \in Calls \ {c} : calls'[d] = calls[d]
    BY DEF Moved
  <2>4. \A d \in Calls : calls[d].kind = "logout"
            => (jar.refresh = NoToken \/ SameFamily(d, jar.refresh))'
    BY <1>1 DEF Quiet, QuietCall
  <2>3. \A d \in Calls \ {c} : QuietCall(d)'
    BY <2>1, <2>2, <2>4, StaysQuiet DEF Quiet
  <2> QED  BY <2>3, <2>4
<1>3. Carried'
  <2>1. CASE \E d \in Calls : SameFamily(d, jar.refresh)
    BY <1>1, <2>1 DEF Carried
  <2>2. CASE jar.refresh # NoToken /\ ~SameFamily(c, jar.refresh) /\ Live(jar.refresh)
    <3>1. tokens'[jar.refresh] = tokens[jar.refresh]
      BY <1>0, <2>2 DEF SameFamily
    <3> QED  BY <2>2, <3>1 DEF Carried, Live
  <2> QED  BY <2>1, <2>2 DEF Quiet, Carried
<1> QED  BY <1>1, <1>2, <1>3 DEF Quiet

\* Serving a call, up to its answer, leaves a quiet session quiet.
LEMMA QuietServe ==
    ASSUME TypeOK, \A c \in Calls : CallOK(c), Quiet, NEW c \in Calls,
           Find(c) \/ FindUser(c) \/ Consume(c) \/ Revoke(c) \/ Report(c)
    PROVE  Quiet'
<1>t. /\ calls \in [Calls -> CallRec] /\ tokens \in Seq(TokenRec)
      /\ calls[c].token # NoToken => calls[c].token \in Ids
  BY Typed
<1>c. CallOK(c) /\ QuietCall(c) /\ active
  BY DEF Quiet
<1>k. UNCHANGED tokens => \A t \in Ids : Kept(t)
  BY DEF Kept
<1>1. CASE Find(c)
  <2>1. Moved(c, Found(c)) /\ UNCHANGED <<tokens, active, jar>> /\ calls[c].pc = "find"
    BY <1>t, <1>1, GotoMoves DEF Find
  <2>2. calls[c].kind \in {"refresh", "logout"}
    BY <1>c, <2>1 DEF CallOK
  <2>3. /\ calls[c].kind = "refresh" => Found(c) = "user" /\ Live(calls[c].token)
        /\ calls[c].kind = "logout" => Found(c) = "revoke"
    BY <1>c, <2>1 DEF QuietCall, Found, Live
  <2>4. calls'[c].listening
    BY <1>c, <2>1 DEF QuietCall, Idle, Moved
  <2>5. (calls[c].kind = "logout" => (jar.refresh = NoToken \/ SameFamily(c, jar.refresh))')
            => QuietCall(c)'
    BY <2>1, <2>2, <2>3, <2>4 DEF QuietCall, Moved, Live
  <2>6. Found(c) # "ok"
    BY <2>2, <2>3
  <2> QED  BY <1>k, <2>1, <2>5, <2>6, QuietMove
<1>2. CASE FindUser(c)
  <2>1. PICK pc \in {"consume", "store"} :
            /\ Goto(c, pc)
            /\ pc = "consume" => calls[c].pc = "user"
            /\ pc = "store" => calls[c].pc = "login"
    <3>1. /\ active /\ calls[c].pc = "user" => Goto(c, "consume")
          /\ active /\ calls[c].pc = "login" => Goto(c, "store")
          /\ calls[c].pc \in {"user", "login"}
      BY <1>2 DEF FindUser
    <3> QED  BY <1>c, <3>1
  <2>2. Moved(c, pc) /\ UNCHANGED <<tokens, active, jar>>
    BY <1>t, <1>2, <2>1, GotoMoves DEF FindUser, history
  <2>3. QuietCall(c)'
    <3>1. CASE pc = "consume"
      <4>1. calls[c].kind = "refresh" /\ Live(calls[c].token) /\ calls[c].listening
        BY <1>c, <2>1, <3>1 DEF QuietCall, CallOK, Idle
      <4> QED  BY <2>2, <3>1, <4>1 DEF QuietCall, Moved, Live
    <3>2. CASE pc = "store"
      <4>1. calls[c].kind = "login" /\ calls[c].listening
        BY <1>c, <2>1, <3>2 DEF QuietCall, CallOK, Idle
      <4> QED  BY <2>2, <3>2, <4>1 DEF QuietCall, Moved
    <3> QED  BY <3>1, <3>2
  <2> QED  BY <1>k, <2>1, <2>2, <2>3, QuietMove
<1>3. CASE Consume(c)
  <2>1. calls[c].pc = "consume" /\ Moved(c, "store") /\ UNCHANGED <<active, jar>>
    BY <1>t, <1>3, GotoMoves DEF Consume
  <2>2. /\ calls[c].kind = "refresh" /\ Live(calls[c].token) /\ calls[c].listening
        /\ calls[c].token \in Ids
    BY <1>c, <1>t, <2>1 DEF QuietCall, CallOK, Idle
  <2>3. /\ \A t \in Ids : Kept(t)
        /\ \A t \in Ids : Undimmed(t) => Undimmed(t)'
        /\ \A t \in Ids \ {calls[c].token} : tokens'[t] = tokens[t]
    BY <1>t, <1>3, <2>2, SpendTells DEF Consume
  <2>4. Undimmed(calls[c].token)
    BY <2>2 DEF Live, Undimmed
  <2>5. ~tokens'[calls[c].token].revoked /\ ~tokens'[calls[c].token].expired
    BY <2>2, <2>3, <2>4 DEF Undimmed
  <2>6. QuietCall(c)'
    BY <2>1, <2>2, <2>5 DEF QuietCall, Moved, Undimmed
  <2>7. \A t \in Ids : calls[c].token = NoToken \/ FamilyOf(t) # FamilyOf(calls[c].token)
                       => tokens'[t] = tokens[t]
    BY <2>2, <2>3 DEF Ids, NoToken
  <2> QED  BY <2>1, <2>3, <2>6, <2>7, QuietMove
<1>4. CASE Revoke(c)
  <2>1. /\ calls[c].pc = "revoke" /\ UNCHANGED <<active, jar>>
        /\ RevokeFamily(FamilyOf(calls[c].token))
    BY <1>4 DEF Revoke
  <2>2. calls[c].kind = "logout" /\ calls[c].token # NoToken /\ calls[c].listening
    BY <1>c, <2>1 DEF QuietCall, CallOK, Idle
  <2>3. Moved(c, "ended")
    BY <1>4, <1>t, <2>2, GotoMoves DEF Revoke
  <2>4. /\ \A t \in Ids : Kept(t)
        /\ \A t \in Ids : FamilyOf(t) # FamilyOf(calls[c].token) => tokens'[t] = tokens[t]
    BY <1>t, <2>1, RevocationTells
  <2>5. (calls[c].kind = "logout" => (jar.refresh = NoToken \/ SameFamily(c, jar.refresh))')
            => QuietCall(c)'
    BY <2>2, <2>3 DEF QuietCall, Moved
  <2> QED  BY <2>1, <2>2, <2>3, <2>4, <2>5, QuietMove
<1>5. CASE Report(c)
  BY <1>5, <1>c DEF Report, QuietCall
<1> QED  BY <1>1, <1>2, <1>3, <1>4, <1>5

\* Storing the successor leaves a quiet session quiet.
LEMMA QuietStore ==
    ASSUME TypeOK, \A c \in Calls : CallOK(c), \A t \in Ids : TokenOK(t), Quiet,
           NEW c \in Calls, Store(c)
    PROVE  Quiet'
<1> DEFINE t == calls[c].token  id == Len(tokens) + 1
<1>t. /\ calls \in [Calls -> CallRec] /\ tokens \in Seq(TokenRec) /\ Len(tokens) \in Nat
      /\ \A d \in Calls : calls[d].token \in 0..Len(tokens)
      /\ \A d \in Calls : calls[d].token # NoToken => calls[d].token \in Ids
  BY Typed
<1>j. jar.refresh # NoToken => jar.refresh \in Ids
  BY JarTyped
<1>0. /\ Ids' = Ids \cup {id} /\ id \notin Ids
      /\ \A u \in Ids : tokens'[u] = tokens[u]
      /\ tokens'[id].family = FamilyAfter(t) /\ tokens'[id].parent = t
      /\ ~tokens'[id].consumed /\ ~tokens'[id].revoked /\ ~tokens'[id].expired
      /\ calls'[c].pc = "ok" /\ calls'[c].token = id
      /\ calls'[c].kind = calls[c].kind
      /\ calls'[c].listening = calls[c].listening
      /\ \A d \in Calls \ {c} : calls'[d] = calls[d]
  BY <1>t, StoringTells
<1>1. /\ calls[c].pc = "store" /\ UNCHANGED <<active, jar>>
      /\ calls[c].kind \in {"refresh", "login"}
      /\ calls[c].kind = "refresh" => t \in Ids
      /\ calls[c].kind = "login" => t = NoToken
      /\ calls[c].listening /\ id # NoToken
  <2>1. calls[c].pc = "store" /\ UNCHANGED <<active, jar>>
    BY DEF Store
  <2>2. CallOK(c) /\ QuietCall(c)
    BY DEF Quiet
  <2> QED  BY <1>t, <2>1, <2>2 DEF CallOK, QuietCall, Idle, NoToken
<1>3. ASSUME NEW u \in Ids
      PROVE  /\ t # NoToken => (tokens'[id].family = tokens'[u].family <=> FamilyOf(t) = FamilyOf(u))
             /\ t = NoToken => tokens'[id].family # tokens'[u].family
  <2>1. tokens'[u].family = FamilyOf(u) /\ FamilyOf(u) \in 1..Len(tokens)
    <3>1. tokens[u].family \in 1..u /\ u \in 1..Len(tokens)
      BY DEF TokenOK, Ids
    <3> QED  BY <1>0, <1>t, <3>1 DEF FamilyOf
  <2> QED  BY <1>0, <1>t, <2>1 DEF FamilyAfter
<1>4. ASSUME NEW u, u # NoToken => u \in Ids
      PROVE  /\ u # NoToken /\ tokens'[id].family = tokens'[u].family => SameFamily(c, u)
             /\ SameFamily(c, u) => tokens'[id].family = tokens'[u].family
  BY <1>3, <1>4 DEF SameFamily
<1>8. ASSUME NEW d \in Calls, SameFamily(d, jar.refresh)
      PROVE  SameFamily(d, jar.refresh)'
  <2>1. CASE d = c
    BY <1>0, <1>1, <1>4, <1>j, <1>8, <2>1 DEF SameFamily, FamilyOf
  <2>2. CASE d # c
    BY <1>0, <1>1, <1>j, <1>t, <1>8, <2>2 DEF SameFamily, FamilyOf
  <2> QED  BY <2>1, <2>2
<1>2. \A d \in Calls : QuietCall(d)'
  <2>3. \A d \in Calls : calls[d].kind = "logout"
            => (jar.refresh = NoToken \/ SameFamily(d, jar.refresh))'
    BY <1>1, <1>8 DEF Quiet, QuietCall
  <2>1. \A d \in Calls \ {c} : QuietCall(d)'
    BY <1>0, <1>t, <2>3, StaysQuiet DEF Quiet
  <2>2. QuietCall(c)'
    BY <1>0, <1>1 DEF QuietCall, Live
  <2> QED  BY <2>1, <2>2
<1>5. Apart'
  <2>1. ASSUME NEW d \in Calls, NEW e \in Calls, d # e
        PROVE  ~SameFamily(d, calls[e].token)'
    <3>1. CASE d # c /\ e # c
      <4>1. calls'[d] = calls[d] /\ calls'[e] = calls[e] /\ ~SameFamily(d, calls[e].token)
        BY <1>0, <2>1, <3>1 DEF Quiet, Apart
      <4> QED  BY <1>0, <1>t, <4>1 DEF SameFamily, FamilyOf
    <3>2. CASE d = c
      <4>1. ~SameFamily(c, calls[e].token) /\ calls'[e] = calls[e]
        BY <1>0, <2>1, <3>2 DEF Quiet, Apart
      <4> QED  BY <1>0, <1>t, <1>4, <3>2, <4>1 DEF SameFamily, FamilyOf
    <3>3. CASE e = c
      <4>1. ~SameFamily(c, calls[d].token) /\ calls'[d] = calls[d]
        BY <1>0, <2>1, <3>3 DEF Quiet, Apart
      <4> QED  BY <1>0, <1>t, <1>4, <3>3, <4>1 DEF SameFamily, FamilyOf
    <3> QED  BY <3>1, <3>2, <3>3
  <2> QED  BY <2>1 DEF Apart
<1>6. Held'
  <2>1. ASSUME NEW d \in Calls \ {c}, SameFamily(d, jar.refresh)'
        PROVE  HoldsJar(d)'
    <3>1. calls'[d] = calls[d] /\ jar' = jar
      BY <1>0, <1>1
    <3>2. SameFamily(d, jar.refresh)
      BY <1>0, <1>j, <1>t, <2>1, <3>1 DEF SameFamily, FamilyOf
    <3> QED  BY <1>0, <1>t, <3>1, <3>2 DEF Quiet, Held, HoldsJar, SameFamily
  <2>2. ASSUME SameFamily(c, jar.refresh)'
        PROVE  HoldsJar(c)'
    <3>1. jar.refresh # NoToken /\ tokens'[id].family = tokens'[jar.refresh].family
      BY <1>0, <1>1, <2>2 DEF SameFamily, FamilyOf
    <3>2. HoldsJar(c)
      BY <1>4, <1>j, <3>1 DEF Quiet, Held
    <3>3. t = jar.refresh /\ calls[c].kind = "refresh"
      BY <1>1, <3>2 DEF HoldsJar
    <3> QED  BY <1>0, <1>1, <3>3 DEF HoldsJar
  <2> QED  BY <2>1, <2>2 DEF Held
<1>7. Carried'
  <2>2. jar.refresh # NoToken /\ Live(jar.refresh) => Live(jar.refresh)'
    BY <1>0, <1>1, <1>j DEF Live
  <2> QED  BY <1>1, <1>8, <2>2 DEF Quiet, Carried
<1> QED  BY <1>1, <1>2, <1>5, <1>6, <1>7 DEF Quiet

\* An answer that reaches the browser leaves a quiet session quiet.
LEMMA QuietDeliver ==
    ASSUME TypeOK, \A c \in Calls : CallOK(c), Quiet, NEW c \in Calls, Deliver(c), ~disturbed'
    PROVE  Quiet'
<1>t. /\ calls \in [Calls -> CallRec]
      /\ \A d \in Calls : calls[d].token # NoToken => calls[d].token \in Ids
  BY Typed
<1>j. jar \in [access : AccessStates, refresh : Nat]
  BY JarTyped
<1>1. /\ calls[c].pc \in {"ok", "ended"} /\ calls[c].listening
      /\ calls[c].kind \in {"refresh", "login", "logout"}
      /\ calls[c].pc = "ok" => calls[c].kind # "logout" /\ Live(calls[c].token)
      /\ calls[c].pc = "ended" => calls[c].kind = "logout"
  <2>1. CallOK(c) /\ QuietCall(c) /\ calls[c].pc \in Answered
    BY DEF Quiet, Deliver
  <2> QED  BY <2>1 DEF CallOK, QuietCall, Answered, Idle
<1>0. /\ UNCHANGED <<tokens, active>>
      /\ calls'[c] = Idle /\ \A d \in Calls \ {c} : calls'[d] = calls[d]
  <2>1. calls[c].listening /\ calls[c].pc # "lost"
    BY <1>1
  <2> QED  BY <1>t, <2>1, DeliverTells DEF Deliver
<1>2. \/ jar'.refresh = NoToken
      \/ jar'.refresh = calls[c].token /\ Live(calls[c].token) /\ calls[c].token # NoToken
  <2>1. jar' = JarAfter(calls[c])
    BY <1>1 DEF Deliver
  <2>2. calls[c] \in CallRec
    BY <1>t
  <2> QED  BY <1>1, <1>j, <2>1, <2>2, JarTells
<1>3. \A d \in Calls : QuietCall(d)'
  <2>3. ASSUME calls[c].pc = "ended"
        PROVE  jar'.refresh = NoToken
    BY <1>1, <1>j, <1>t, <2>3, JarTells DEF Deliver
  <2>4. ASSUME calls[c].pc = "ok"
        PROVE  \A d \in Calls : calls[d].kind # "logout"
    <3>1. \A d \in Calls : ~(calls[d].kind = "logout" /\ calls[d].listening)
      BY <1>1, <2>4 DEF Deliver, Crosses
    <3> QED  BY <3>1 DEF Quiet, QuietCall, Idle
  <2>1. \A d \in Calls \ {c} : QuietCall(d)'
    BY <1>0, <1>1, <2>3, <2>4, StaysQuiet DEF Quiet
  <2>2. QuietCall(c)'
    BY <1>0 DEF QuietCall, Idle
  <2> QED  BY <2>1, <2>2
<1>4. Apart'
  <2>1. ASSUME NEW d \in Calls, NEW e \in Calls, d # e
        PROVE  ~SameFamily(d, calls[e].token)'
    <3>1. CASE d # c /\ e # c
      BY <1>0, <2>1, <3>1 DEF Quiet, Apart, SameFamily, FamilyOf
    <3>2. CASE d = c \/ e = c
      BY <1>0, <3>2 DEF SameFamily, Idle
    <3> QED  BY <3>1, <3>2
  <2> QED  BY <2>1 DEF Apart
<1>5. Held'
  <2>1. ASSUME NEW d \in Calls
        PROVE  ~SameFamily(d, jar.refresh)'
    <3>1. CASE d = c \/ jar'.refresh = NoToken
      BY <1>0, <3>1 DEF SameFamily, Idle
    <3>2. CASE d # c /\ jar'.refresh = calls[c].token
      BY <1>0, <3>2 DEF Quiet, Apart, SameFamily, FamilyOf
    <3> QED  BY <1>2, <3>1, <3>2
  <2> QED  BY <2>1 DEF Held
<1>6. Carried'
  BY <1>0, <1>2 DEF Carried, Live
<1> QED  BY <1>0, <1>3, <1>4, <1>5, <1>6 DEF Quiet

\* What disturbs a session is not forgotten, and these steps do not disturb it.
LEMMA DisturbedStays ==
    ASSUME [Next]_vars, ~disturbed'
    PROVE  /\ ~disturbed
           /\ \/ \E c \in Calls : Navigate(c) \/ SignIn(c) \/ SignOut(c) \/ Find(c) \/ FindUser(c)
                    \/ Consume(c) \/ Store(c) \/ Revoke(c) \/ Report(c) \/ Deliver(c)
              \/ AccessTokenExpires \/ AccessExpires \/ UNCHANGED vars
<1>1. ASSUME NEW c \in Calls, NEW kind, NEW pc, NEW t, Send(c, kind, pc, t)
      PROVE  ~disturbed
  BY <1>1 DEF Send
<1>2. ASSUME NEW c \in Calls, Navigate(c) \/ SignIn(c) \/ SignOut(c)
      PROVE  ~disturbed
  BY <1>1, <1>2 DEF Navigate, SignIn, SignOut
<1>3. ASSUME NEW c \in Calls, Find(c) \/ FindUser(c) \/ Consume(c) \/ Store(c) \/ Revoke(c)
                              \/ Report(c) \/ Deliver(c)
      PROVE  ~disturbed
  BY <1>3 DEF Find, FindUser, Consume, Store, Revoke, Report, Deliver, history
<1>4. ASSUME AccessTokenExpires \/ AccessExpires \/ UNCHANGED vars
      PROVE  ~disturbed
  BY <1>4 DEF AccessTokenExpires, AccessExpires, vars, history
<1>5. /\ \A c \in Calls : ~Raise(c) /\ ~Lose(c) /\ ~OpenRefusedPage(c)
      /\ ~Crash /\ ~TokenExpires /\ ~Deactivate
  BY DEF Raise, Lose, OpenRefusedPage, Crash, TokenExpires, Deactivate, Fault
<1> QED  BY <1>2, <1>3, <1>4, <1>5 DEF Next, Serve

\* An undisturbed session stays quiet at each step.
LEMMA QuietStep ==
    ASSUME TypeOK, \A c \in Calls : CallOK(c), \A t \in Ids : TokenOK(t),
           ~disturbed => Quiet, [Next]_vars, ~disturbed'
    PROVE  Quiet'
<1>0. /\ ~disturbed
      /\ \/ \E c \in Calls : Navigate(c) \/ SignIn(c) \/ SignOut(c) \/ Find(c) \/ FindUser(c)
               \/ Consume(c) \/ Store(c) \/ Revoke(c) \/ Report(c) \/ Deliver(c)
         \/ AccessTokenExpires \/ AccessExpires \/ UNCHANGED vars
  BY DisturbedStays
<1>1. ASSUME UNCHANGED <<tokens, active, calls>>, jar'.refresh = jar.refresh
      PROVE  Quiet'
  <2>1. /\ \A t \in Ids : Kept(t)
        /\ \A c \in Calls : /\ calls'[c].token = calls[c].token
                            /\ calls'[c].kind = calls[c].kind
                            /\ calls'[c].pc = "ok" <=> calls[c].pc = "ok"
    BY <1>1 DEF Kept
  <2>2. /\ Apart' /\ Held'
        /\ \A c \in Calls : SameFamily(c, jar.refresh) => SameFamily(c, jar.refresh)'
    BY <1>0, <1>1, <2>1, QuietFrame DEF Quiet
  <2>5. \A c \in Calls : calls[c].kind = "logout"
            => (jar.refresh = NoToken \/ SameFamily(c, jar.refresh))'
    BY <1>0, <1>1, <2>2 DEF Quiet, QuietCall
  <2>3. \A c \in Calls : QuietCall(c)'
    BY <1>0, <1>1, <2>5, StaysQuiet DEF Quiet
  <2>4. Carried'
    BY <1>0, <1>1, <2>2 DEF Quiet, Carried, Live
  <2> QED  BY <1>0, <1>1, <2>2, <2>3, <2>4 DEF Quiet
<1>2. CASE AccessTokenExpires \/ AccessExpires
  <2>1. jar'.refresh = jar.refresh /\ UNCHANGED <<tokens, active, calls>>
    BY <1>2, JarTyped DEF AccessTokenExpires, AccessExpires
  <2> QED  BY <1>1, <2>1
<1>3. CASE UNCHANGED vars
  BY <1>1, <1>3 DEF vars
<1> QED  BY <1>0, <1>2, <1>3, QuietSend, QuietServe, QuietStore, QuietDeliver

----------------------------------------------------------------------------
(* The theorems.                                                           *)

\* The invariant holds before the first sign-in.
LEMMA InitIInv == Init => IInv
<1> SUFFICES ASSUME Init
             PROVE  IInv
  OBVIOUS
<1>0. tokens = <<>> /\ Len(tokens) = 0 /\ tokens \in Seq(TokenRec) /\ Ids = {}
  BY EmptySeq DEF Init, Ids
<1>1. Idle \in CallRec /\ Idle.token = NoToken /\ Idle.kind = "none" /\ Idle.pc = "idle"
  BY DEF Idle, CallRec, NoToken
<1>2. /\ calls = [c \in Calls |-> Idle] /\ active /\ jar = SignedOut
      /\ faults = 0 /\ ended = {} /\ overtaken = {} /\ shared = {} /\ ~disturbed
      /\ disturbed \in BOOLEAN
  BY DEF Init
<1>3. \A c \in Calls : calls[c] = Idle
  BY <1>2
<1>4. TypeOK
  <2>1. jar \in [access : AccessStates, refresh : Nat] /\ jar.refresh = 0
    BY <1>2 DEF SignedOut, NoToken, AccessStates
  <2>2. calls \in [Calls -> CallRec] /\ \A c \in Calls : calls[c].token = 0
    BY <1>1, <1>2 DEF NoToken
  <2>3. faults \in 0..MaxFaults
    BY <1>2, SessionsAssumption
  <2> QED  BY <1>0, <1>2, <2>1, <2>2, <2>3 DEF TypeOK
<1>5. \A c \in Calls : CallOK(c)
  BY <1>1, <1>3 DEF CallOK
<1>6. RotationOK /\ ExchangedOnce /\ EndedFamilyIsDead
  BY <1>0, <1>1, <1>2, <1>3 DEF RotationOK, ExchangedOnce, EndedFamilyIsDead, Rotating
<1>7. Quiet
  <2>1. \A c \in Calls : QuietCall(c)
    BY <1>1, <1>3 DEF QuietCall
  <2>2. Apart /\ Held
    BY <1>1, <1>3 DEF Apart, Held, SameFamily
  <2>3. Carried
    BY <1>2 DEF Carried, SignedOut
  <2> QED  BY <1>2, <2>1, <2>2, <2>3 DEF Quiet
<1> QED  BY <1>0, <1>4, <1>5, <1>6, <1>7 DEF IInv

\* The inductive invariant of the sessions.
THEOREM Invariance == Spec => []IInv
<1>1. IInv /\ [Next]_vars => IInv'
  <2> SUFFICES ASSUME IInv, [Next]_vars
               PROVE  IInv'
    OBVIOUS
  <2>0. /\ TypeOK /\ \A c \in Calls : CallOK(c)
        /\ \A t \in Ids : TokenOK(t)
        /\ ExchangedOnce /\ RotationOK /\ EndedFamilyIsDead
        /\ ~disturbed => Quiet
    BY DEF IInv
  <2>1. TypeOK'
    BY <2>0, TypeStep
  <2>2. \A c \in Calls : CallOK(c)'
    BY <2>0, CallOKStep
  <2>3. \A t \in Ids' : TokenOK(t)'
    BY <2>0, TokenOKStep
  <2>4. ExchangedOnce'
    BY <2>0, ExchangedOnceStep
  <2>5. RotationOK'
    BY <2>0, RotationStep
  <2>6. EndedFamilyIsDead'
    BY <2>0, EndedStep
  <2>7. ~disturbed' => Quiet'
    BY <2>0, QuietStep
  <2> QED  BY <2>1, <2>2, <2>3, <2>4, <2>5, <2>6, <2>7 DEF IInv
<1> QED  BY InitIInv, <1>1, PTL DEF Spec

\* The refresh_tokens table, the cookies and the calls keep their type.
THEOREM TypeCorrect == Spec => []TypeOK
<1>1. IInv => TypeOK
  BY DEF IInv
<1> QED  BY <1>1, Invariance, PTL

\* A token is exchanged for one successor, unless two calls held it live at the
\* same moment (refresh, auth.py:227).
THEOREM TokensAreExchangedOnce == Spec => []ExchangedOnce
<1>1. IInv => ExchangedOnce
  BY DEF IInv
<1> QED  BY <1>1, Invariance, PTL

\* A family that a reuse or a sign-out ended stays dead, unless a refresh was
\* already past its check (revoke_family, auth.py:202).
THEOREM EndedFamiliesAreDead == Spec => []EndedFamilyIsDead
<1>1. IInv => EndedFamilyIsDead
  BY DEF IInv
<1> QED  BY <1>1, Invariance, PTL

\* What the browser holds while nothing disturbs it can be used.
LEMMA QuietUsable ==
    ASSUME TypeOK, Quiet, jar.refresh # NoToken
    PROVE  Usable
<1>1. CASE Live(jar.refresh)
  BY <1>1 DEF Usable
<1>2. CASE ~Live(jar.refresh)
  <2>1. PICK c \in Calls : SameFamily(c, jar.refresh)
    BY <1>2 DEF Quiet, Carried
  <2>2. HoldsJar(c) /\ calls[c].token # NoToken
    BY <2>1 DEF Quiet, Held, SameFamily
  <2>3. Presents(c, jar.refresh)
    BY <2>2 DEF HoldsJar, Presents
  <2>4. calls[c].listening
    BY <2>2 DEF Quiet, QuietCall, Idle
  <2> QED  BY <2>3, <2>4 DEF Usable
<1> QED  BY <1>1, <1>2

\* Only the answer of a sign-out empties an undisturbed jar.
LEMMA QuietLoss ==
    ASSUME TypeOK, \A c \in Calls : CallOK(c), Quiet, [Next]_vars, ~disturbed',
           jar.refresh # NoToken, jar'.refresh = NoToken
    PROVE  FamilyOf(jar.refresh) \in ended
<1>j. jar \in [access : AccessStates, refresh : Nat] /\ calls \in [Calls -> CallRec]
  BY Typed, JarTyped
<1>1. PICK c \in Calls : Deliver(c)
  <2>1. ~UNCHANGED jar
    OBVIOUS
  <2>2. ~AccessTokenExpires /\ ~AccessExpires
    BY <1>j DEF AccessTokenExpires, AccessExpires
  <2>3. \A c \in Calls : ~Lose(c)
    BY DEF Lose, Fault
  <2> QED  BY <2>1, <2>2, <2>3 DEF Next, Serve, vars, Navigate, SignIn, SignOut, Send, Find,
               FindUser, Consume, Store, Revoke, Report, Raise, OpenRefusedPage, Crash,
               TokenExpires, Deactivate
<1>2. CallOK(c) /\ QuietCall(c) /\ calls[c].pc \in Answered /\ calls[c] \in CallRec
  BY <1>1, <1>j DEF Quiet, Deliver
<1>3. calls[c].pc \in {"ok", "ended"} /\ calls[c].listening
  BY <1>2 DEF QuietCall, Answered, Idle
<1>4. calls[c].pc # "ok"
  <2>1. ASSUME calls[c].pc = "ok"
        PROVE  calls[c].kind # "logout" /\ calls[c].token # NoToken
    BY <1>2, <2>1 DEF CallOK
  <2> QED  BY <1>1, <1>2, <1>3, <1>j, <2>1, JarTells DEF Deliver
<1>5. calls[c].kind = "logout" /\ FamilyOf(calls[c].token) \in ended
  BY <1>2, <1>3, <1>4 DEF CallOK
<1> QED  BY <1>2, <1>5 DEF QuietCall, SameFamily

\* Undisturbed, no step takes the refresh cookie from the browser unless its
\* session was revoked, and none leaves a cookie that cannot be used
\* (middleware.ts:78, auth-actions.ts:107).
THEOREM QuietSessionsSurvive == Spec => QuietSessionSurvives
<1> DEFINE Survives == ~disturbed' /\ jar.refresh # NoToken =>
               IF jar'.refresh = NoToken THEN FamilyOf(jar.refresh) \in ended ELSE Usable'
<1>2. TypeOK /\ Quiet /\ jar.refresh # NoToken => Usable
  BY QuietUsable
<1>3. (TypeOK /\ Quiet /\ jar.refresh # NoToken => Usable)'
  BY <1>2, PTL
<1>1. IInv /\ IInv' /\ [Next]_vars => [Survives]_vars
  <2> SUFFICES ASSUME IInv, IInv', [Next]_vars, ~disturbed', jar.refresh # NoToken
               PROVE  IF jar'.refresh = NoToken THEN FamilyOf(jar.refresh) \in ended ELSE Usable'
    OBVIOUS
  <2>1. TypeOK /\ (\A c \in Calls : CallOK(c)) /\ Quiet
    BY DisturbedStays DEF IInv
  <2>2. TypeOK' /\ Quiet'
    BY DEF IInv
  <2>3. CASE jar'.refresh = NoToken
    BY <2>1, <2>3, QuietLoss
  <2>4. CASE jar'.refresh # NoToken
    BY <1>3, <2>2, <2>4
  <2> QED  BY <2>3, <2>4
<1> QED  BY <1>1, Invariance, PTL DEF Spec, QuietSessionSurvives
=============================================================================
