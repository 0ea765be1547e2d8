------------------------------ MODULE Sessions ------------------------------
(***************************************************************************)
(* One account's sessions: the token endpoints of routers/auth.py over the *)
(* Postgres repository, and the frontend's server as their client          *)
(* (middleware.ts, auth-actions.ts, session-expired).  The browser has one *)
(* cookie jar and several requests at once; the API suspends at every      *)
(* repository call.                                                        *)
(***************************************************************************)
EXTENDS Integers, Sequences, FiniteSets

CONSTANTS
    Calls,       \* the calls to the API that can be under way at once
    MaxTokens,   \* bound: refresh tokens ever stored
    MaxFaults    \* bound: raised calls, lost answers, ends of the process, expiries

ASSUME SessionsAssumption == MaxTokens \in Nat /\ MaxFaults \in Nat

VARIABLES
    tokens,      \* durable: the refresh_tokens table, in the order of its inserts
    active,      \* durable: users.is_active
    jar,         \* the browser's cookies: lg_access, and lg_refresh's token
    calls,       \* how far each call has got
    faults,      \* faults so far
    ended,       \* history: the families that revoke_family ended
    overtaken,   \* history: those that ended while a refresh was past its check
    shared,      \* history: the tokens that two calls held at once
    disturbed    \* history: more befell a session than refreshes and sign-outs in turn

history == <<ended, overtaken, shared, disturbed>>
vars    == <<tokens, active, jar, calls, faults, history>>

NoToken   == 0
SignedOut == [access |-> "none", refresh |-> NoToken]
Idle      == [kind |-> "none", pc |-> "idle", token |-> NoToken, listening |-> FALSE]

\* lg_access: not there, with a token that the API takes, or one it does not
\* take any more.
AccessStates == {"none", "valid", "expired"}

Ids == 1..Len(tokens)

TokenRec == [family : Nat \ {0}, parent : Nat,
             consumed : BOOLEAN, revoked : BOOLEAN, expired : BOOLEAN]
Serving  == {"find", "login", "user", "consume", "store", "revoke", "report"}
Answered == {"ok", "refused", "ended", "lost"}
CallRec  == [kind : {"none", "refresh", "login", "logout", "page"},
             pc : {"idle"} \cup Serving \cup Answered,
             token : Nat, listening : BOOLEAN]

Init ==
    /\ tokens = <<>>
    /\ active = TRUE
    /\ jar = SignedOut
    /\ calls = [c \in Calls |-> Idle]
    /\ faults = 0
    /\ ended = {} /\ overtaken = {} /\ shared = {}
    /\ disturbed = FALSE

\* RefreshToken.is_live
Live(t) == ~tokens[t].consumed /\ ~tokens[t].revoked /\ ~tokens[t].expired

FamilyOf(t) == tokens[t].family

\* A refresh that has found its token live and has not stored the next one.
Rotating(c) == calls[c].kind = "refresh" /\ calls[c].pc \in {"user", "consume", "store"}

\* A call that presents token t, or is bringing its successor.
Presents(c, t) == calls[c].kind \in {"refresh", "logout"} /\
    (calls[c].token = t \/ (calls[c].token # NoToken /\ tokens[calls[c].token].parent = t))

\* Room for one more token, those that calls may still store counted.
Room == Len(tokens) + Cardinality({c \in Calls : calls[c].pc \in Serving
                                                 /\ calls[c].kind # "logout"}) < MaxTokens

Goto(c, pc) == calls' = [calls EXCEPT ![c].pc = pc]

----------------------------------------------------------------------------
(* The frontend's server *)

Send(c, kind, pc, t) ==
    /\ calls[c] = Idle
    /\ calls' = [calls EXCEPT ![c] =
           [kind |-> kind, pc |-> pc, token |-> t, listening |-> TRUE]]
    /\ disturbed' = (disturbed \/ (t # NoToken /\ \E d \in Calls : Presents(d, t)))
    /\ UNCHANGED <<tokens, active, jar, faults, ended, overtaken, shared>>

\* middleware: a guarded page, no access cookie, a refresh cookie.
Navigate(c) ==
    /\ jar.access = "none" /\ jar.refresh # NoToken
    /\ Room \/ ~Live(jar.refresh) \/ ~active
    /\ Send(c, "refresh", "find", jar.refresh)

\* signIn, from the login page, which a browser with an access cookie never sees.
SignIn(c) == jar.access = "none" /\ Room /\ Send(c, "login", "login", NoToken)

\* signOut
SignOut(c) == jar.refresh # NoToken /\ Send(c, "logout", "find", jar.refresh)

\* A page whose own call to the API was answered 401: the browser is on its way
\* to /session-expired, which drops whatever cookies there are by then.
RefusedPage == [kind |-> "page", pc |-> "refused", token |-> NoToken, listening |-> TRUE]

\* The middleware lets a page with an access cookie through, whatever the API
\* makes of the token in it.
OpenRefusedPage(c) ==
    /\ jar.access = "expired" \/ (jar.access = "valid" /\ ~active)
    /\ calls[c] = Idle
    /\ calls' = [calls EXCEPT ![c] = RefusedPage]
    /\ disturbed' = TRUE
    /\ UNCHANGED <<tokens, active, jar, faults, ended, overtaken, shared>>

\* Variant: the rotated token is not carried forward.
JarAfterKeepingToken(call) ==
    CASE call.kind = "logout"                         -> SignedOut
      [] call.kind = "refresh" /\ call.pc = "ok"      -> [access |-> "valid", refresh |-> jar.refresh]
      [] call.kind = "login" /\ call.pc = "ok"        -> [access |-> "valid", refresh |-> call.token]
      [] call.kind \in {"refresh", "page"} /\ call.pc = "refused" -> SignedOut
      [] OTHER                                        -> jar

\* Variant: a refused refresh is taken for an API that is down.
JarAfterLeniently(call) ==
    CASE call.kind \in {"logout", "page"}       -> SignedOut
      [] call.kind # "logout" /\ call.pc = "ok" -> [access |-> "valid", refresh |-> call.token]
      [] OTHER                                  -> jar

\* What an answer does to the jar, whatever is in it by then: sign-out clears it
\* no matter what came back, and an API that cannot be reached is no reason to
\* destroy a session.
JarAfter(call) ==
    CASE call.kind = "logout"                            -> SignedOut
      [] call.kind # "logout" /\ call.pc = "ok"          -> [access |-> "valid", refresh |-> call.token]
      [] call.kind \in {"refresh", "page"} /\ call.pc = "refused" -> SignedOut
      [] OTHER                                           -> jar

\* A page goes on without a token when the API could not be reached for a refresh,
\* and is refused when the API is there again.
Onward(call) ==
    {Idle} \cup (IF call.kind = "refresh" /\ (call.pc = "lost" \/ ~call.listening)
                 THEN {RefusedPage} ELSE {})

\* The cookies of one session arrive while another one's sign-out is under way.
Crosses(c) ==
    /\ calls[c].pc = "ok" /\ calls[c].listening
    /\ \E d \in Calls : calls[d].kind = "logout" /\ calls[d].listening

Deliver(c) ==
    /\ calls[c].pc \in Answered
    /\ jar' = IF calls[c].listening THEN JarAfter(calls[c]) ELSE jar
    /\ \E next \in Onward(calls[c]) : calls' = [calls EXCEPT ![c] = next]
    /\ disturbed' = (disturbed \/ Crosses(c))
    /\ UNCHANGED <<tokens, active, faults, ended, overtaken, shared>>

----------------------------------------------------------------------------
(* The API *)

Found(c) ==
    LET t == calls[c].token
    IN  CASE calls[c].kind = "logout" -> "revoke"
          [] calls[c].kind = "refresh" /\ tokens[t].consumed -> "revoke"
          [] calls[c].kind = "refresh" /\ ~tokens[t].consumed /\ Live(t) -> "user"
          [] OTHER -> "refused"

\* find_refresh, and the checks of what it found.
Find(c) ==
    /\ calls[c].pc = "find"
    /\ Goto(c, Found(c))
    /\ shared' = shared \cup
           {calls[d].token : d \in {e \in Calls \ {c} :
               Rotating(e) /\ calls[e].pc # "store" /\ calls[e].token = calls[c].token}}
    /\ UNCHANGED <<tokens, active, jar, faults, ended, overtaken, disturbed>>

\* get_user, and find_user_by_email with the password in order.
FindUser(c) ==
    /\ calls[c].pc \in {"user", "login"}
    /\ Goto(c, CASE ~active -> "refused"
                 [] active /\ calls[c].pc = "user"  -> "consume"
                 [] active /\ calls[c].pc = "login" -> "store")
    /\ UNCHANGED <<tokens, active, jar, faults, history>>

\* Variant: the token stays usable after the exchange.
SpendNothing(t) == UNCHANGED tokens

\* consume_refresh: an update without a condition.
Spend(t) == tokens' = [tokens EXCEPT ![t].consumed = TRUE]

Consume(c) ==
    /\ calls[c].pc = "consume"
    /\ Spend(calls[c].token)
    /\ Goto(c, "store")
    /\ UNCHANGED <<active, jar, faults, history>>

\* Variant: a family is named after the token that was exchanged.
FamilyByParent(t) == t

\* A token that is exchanged stays in its family, a login starts one.
FamilyAfter(t) == IF t = NoToken THEN Len(tokens) + 1 ELSE FamilyOf(t)

\* store_refresh: a token of the same family, or of a new one.
Store(c) ==
    LET t  == calls[c].token
        id == Len(tokens) + 1
    IN  /\ calls[c].pc = "store"
        /\ tokens' = Append(tokens,
               [family |-> FamilyAfter(t), parent |-> t,
                consumed |-> FALSE, revoked |-> FALSE, expired |-> FALSE])
        /\ calls' = [calls EXCEPT ![c] = [kind |-> calls[c].kind, pc |-> "ok", token |-> id,
                                          listening |-> calls[c].listening]]
        /\ UNCHANGED <<active, jar, faults, history>>

\* Variant: only the token that was presented.
RevokeFirst(f) == tokens' = [tokens EXCEPT ![f].revoked = TRUE]

\* revoke_family
RevokeFamily(f) ==
    tokens' = [t \in Ids |-> IF FamilyOf(t) = f THEN [tokens[t] EXCEPT !.revoked = TRUE]
                             ELSE tokens[t]]

Revoke(c) ==
    LET f == FamilyOf(calls[c].token)
    IN  /\ calls[c].pc = "revoke"
        /\ RevokeFamily(f)
        /\ Goto(c, IF calls[c].kind = "logout" THEN "ended" ELSE "report")
        /\ ended' = ended \cup {f}
        /\ overtaken' = IF \E d \in Calls : Rotating(d) /\ FamilyOf(calls[d].token) = f
                        THEN overtaken \cup {f} ELSE overtaken
        /\ UNCHANGED <<active, jar, faults, shared, disturbed>>

\* The audit event of a reuse, and the 401.
Report(c) ==
    /\ calls[c].pc = "report"
    /\ Goto(c, "refused")
    /\ UNCHANGED <<tokens, active, jar, faults, history>>

----------------------------------------------------------------------------
(* What can befall a session *)

Fault ==
    /\ faults < MaxFaults
    /\ faults' = faults + 1
    /\ disturbed' = TRUE
    /\ UNCHANGED <<active, ended, overtaken, shared>>

\* A repository call raises: a 500, which is an answer that is not ok.
Raise(c) ==
    /\ Fault
    /\ calls[c].pc \in Serving
    /\ Goto(c, "refused")
    /\ UNCHANGED <<tokens, jar>>

\* The client hears nothing more of the call, and the API goes on with it.
Lose(c) ==
    /\ Fault
    /\ calls[c].pc \in Serving \cup Answered /\ calls[c].listening
    /\ jar' = JarAfter([calls[c] EXCEPT !.pc = "lost"])
    /\ calls' = [calls EXCEPT ![c].listening = FALSE]
    /\ UNCHANGED tokens

\* The process ends: every call it was serving is cut off.
Crash ==
    /\ Fault
    /\ \E c \in Calls : calls[c].pc \in Serving
    /\ calls' = [c \in Calls |-> IF calls[c].pc \in Serving
                                 THEN [calls[c] EXCEPT !.pc = "lost"] ELSE calls[c]]
    /\ UNCHANGED <<tokens, jar>>

\* The access token expires a quarter of an hour after it was minted.
AccessTokenExpires ==
    /\ jar.access = "valid"
    /\ jar' = [jar EXCEPT !.access = "expired"]
    /\ UNCHANGED <<tokens, active, calls, faults, history>>

\* Its cookie lapses a quarter of an hour after it was received, and so not before
\* the token.
AccessExpires ==
    /\ jar.access = "expired"
    /\ jar' = [jar EXCEPT !.access = "none"]
    /\ UNCHANGED <<tokens, active, calls, faults, history>>

TokenExpires ==
    /\ Fault
    /\ \E t \in Ids : Live(t) /\ tokens' = [tokens EXCEPT ![t].expired = TRUE]
    /\ UNCHANGED <<jar, calls>>

\* An admin deactivates the account; nothing reactivates one.
Deactivate ==
    /\ active
    /\ active' = FALSE
    /\ disturbed' = TRUE
    /\ UNCHANGED <<tokens, jar, calls, faults, ended, overtaken, shared>>

Serve(c) == Find(c) \/ FindUser(c) \/ Consume(c) \/ Store(c) \/ Revoke(c) \/ Report(c)

Next ==
    \/ \E c \in Calls : Navigate(c) \/ SignIn(c) \/ SignOut(c) \/ OpenRefusedPage(c)
    \/ \E c \in Calls : Serve(c) \/ Deliver(c) \/ Raise(c) \/ Lose(c)
    \/ Crash \/ AccessTokenExpires \/ AccessExpires \/ TokenExpires \/ Deactivate

Spec == Init /\ [][Next]_vars

\* The API goes on with every call and the client takes every answer; time
\* passes; and whoever has a session open keeps opening pages (strongly fair,
\* because sign-ins may use up the few calls of the instance again and again).
FairSpec ==
    /\ Spec
    /\ \A c \in Calls : WF_vars(Serve(c) \/ Deliver(c))
    /\ SF_vars(\E c \in Calls : Navigate(c))
    /\ SF_vars(\E c \in Calls : OpenRefusedPage(c))
    /\ WF_vars(AccessTokenExpires)
    /\ WF_vars(AccessExpires)

----------------------------------------------------------------------------
(* Properties *)

TypeOK ==
    /\ tokens \in Seq(TokenRec)
    /\ active \in BOOLEAN
    /\ jar \in [access : AccessStates, refresh : Nat] /\ jar.refresh <= Len(tokens)
    /\ calls \in [Calls -> CallRec]
    /\ \A c \in Calls : calls[c].token <= Len(tokens)
    /\ faults \in 0..MaxFaults
    /\ ended \subseteq Ids /\ overtaken \subseteq ended
    /\ shared \subseteq Ids
    /\ disturbed \in BOOLEAN

\* Rotation: a token is exchanged for one successor, and is spent before the
\* successor exists, unless two calls held it live at the same moment
\* (auth.py:227: find, check and consume are three steps).
ExchangedOnce ==
    \A t, u \in Ids :
        /\ tokens[t].parent # NoToken =>
               /\ tokens[tokens[t].parent].consumed
               /\ FamilyOf(t) = FamilyOf(tokens[t].parent)
        /\ t # u /\ tokens[t].parent = tokens[u].parent /\ tokens[t].parent # NoToken
               => tokens[t].parent \in shared

\* A session that reuse detection or a sign-out ended stays dead: nothing can
\* be exchanged in it any more, and no exchange is under way, unless a refresh
\* was already past its check when the family was revoked (auth.py:202).
EndedFamilyIsDead ==
    \A f \in ended \ overtaken :
        /\ \A t \in Ids : FamilyOf(t) = f => ~Live(t)
        /\ \A c \in Calls : Rotating(c) => FamilyOf(calls[c].token) # f

\* The browser can go on with the token it holds: it is live, or a call that will
\* replace or drop it is under way.
Usable ==
    \/ Live(jar.refresh)
    \/ \E c \in Calls : calls[c].listening /\ Presents(c, jar.refresh)

\* No session ends by itself.  However refreshes, sign-ins and sign-outs follow
\* each other or overlap, a step takes the refresh cookie away only when the
\* session in it was revoked, and leaves no cookie that cannot be used
\* (middleware.ts:78, auth-actions.ts:107).  What disturbs this is named: a fault,
\* a deactivation, a token sent twice, a page refused under a live session, and
\* one session's cookies that arrive before the answer of another's sign-out.
QuietSessionSurvives ==
    [][~disturbed' /\ jar.refresh # NoToken =>
           IF jar'.refresh = NoToken THEN FamilyOf(jar.refresh) \in ended ELSE Usable']_vars

\* A token that cannot be used any more, or the session of an account that is
\* no longer active.
Over == jar # SignedOut /\ (~active \/ (jar.refresh # NoToken /\ ~Live(jar.refresh)))

\* The browser gets rid of such a session: no page sends it round in circles
\* (session-expired/route.ts, middleware.ts:84).
OverIsDropped == Over ~> ~Over

\* A page that is refused "means the session is genuinely gone" (api.ts:90).
RefusedPageMeansOver ==
    [][\A c \in Calls : calls[c].kind # "page" /\ calls'[c].kind = "page" => Over]_vars

\* refresh: reuse "revokes every token descended from that login".
ReuseEndsEveryToken ==
    \A f \in ended, t \in Ids : FamilyOf(t) = f => ~Live(t)

----------------------------------------------------------------------------
(* The invariant that the safety properties follow from.                   *)

\* What the step of a call says of its kind and of its token.
CallOK(c) ==
    LET call == calls[c]
    IN  /\ call.pc = "idle" => call = Idle
        /\ call.kind = "none" => call.pc = "idle"
        /\ call.pc \in {"find", "revoke"} => call.kind \in {"refresh", "logout"}
        /\ call.pc \in {"user", "consume", "report"} => call.kind = "refresh"
        /\ call.pc = "login" => call.kind = "login"
        /\ call.pc = "ended" => call.kind = "logout" /\ FamilyOf(call.token) \in ended
        /\ call.kind = "page" => call.pc = "refused" /\ call.token = NoToken
        /\ call.pc \in {"store", "ok"} => call.kind \in {"refresh", "login"}
        /\ call.kind \in {"refresh", "logout"} => call.token # NoToken
        /\ call.kind = "login" => (call.token # NoToken <=> call.pc = "ok")
        /\ call.kind = "refresh" /\ call.pc = "store" => tokens[call.token].consumed

TokenOK(t) == tokens[t].family \in 1..t /\ tokens[t].parent \in 0..(t - 1)

\* Whoever is exchanging a token alone is the first to exchange it.
RotationOK ==
    \A c \in Calls : Rotating(c) =>
        /\ \A d \in Calls \ {c} : Rotating(d) /\ calls[d].token = calls[c].token
                                  => calls[c].token \in shared
        /\ \A t \in Ids : tokens[t].parent = calls[c].token => calls[c].token \in shared

\* Undisturbed, a call finds its token as it left the jar, every call is in a
\* family of its own, and only the call that holds the jar's token is in its.
Undimmed(t)   == ~tokens[t].revoked /\ ~tokens[t].expired
SameFamily(c, t) == calls[c].token # NoToken /\ t # NoToken
                    /\ FamilyOf(calls[c].token) = FamilyOf(t)
QuietCall(c) ==
    LET call == calls[c]
    IN  /\ call # Idle => call.listening
        /\ call.kind = "logout" => jar.refresh = NoToken \/ SameFamily(c, jar.refresh)
        /\ call.pc \in {"idle", "find", "login", "user", "consume", "store", "revoke",
                        "ok", "ended"}
        /\ call.kind = "refresh" => call.pc # "revoke"
        /\ call.kind = "refresh" /\ call.pc \in {"find", "user", "consume"} => Live(call.token)
        /\ call.kind = "refresh" /\ call.pc = "store" => Undimmed(call.token)
        /\ call.pc = "ok" => Live(call.token)

HoldsJar(c) ==
    /\ calls[c].kind \in {"refresh", "logout"}
    /\ IF calls[c].pc = "ok" THEN tokens[calls[c].token].parent = jar.refresh
                             ELSE calls[c].token = jar.refresh

Apart  == \A c, d \in Calls : c # d => ~SameFamily(c, calls[d].token)
Held   == \A c \in Calls : SameFamily(c, jar.refresh) => HoldsJar(c)
Carried == jar.refresh # NoToken => Live(jar.refresh) \/ \E c \in Calls : SameFamily(c, jar.refresh)

Quiet == active /\ (\A c \in Calls : QuietCall(c)) /\ Apart /\ Held /\ Carried

IInv ==
    /\ TypeOK
    /\ \A c \in Calls : CallOK(c)
    /\ \A t \in Ids : TokenOK(t)
    /\ ExchangedOnce /\ RotationOK
    /\ EndedFamilyIsDead
    /\ ~disturbed => Quiet
=============================================================================
