------------------------------ MODULE Accounts ------------------------------
(***************************************************************************)
(* Accounts and their roles: registration, user administration and the     *)
(* start of the process (routers/auth.py, deps.py, main.py) over the users *)
(* table.  A request reads the caller's row, reads the target's row and    *)
(* checks, writes, and records what it did: four steps that other requests *)
(* fall between.  Rows are never deleted and addresses are unique, so an   *)
(* account is its address.                                                 *)
(***************************************************************************)
EXTENDS Naturals, FiniteSets

CONSTANTS
    Emails,      \* addresses
    Requests,    \* the requests; each is made once
    Roles,       \* UserRole
    None,        \* no role, no address
    DemoRole,    \* DEMO_USERS: the role of each seeded address; no address where seeding is off
    Bootstrap,   \* settings.bootstrap_admin_email, or None
    MaxFaults,   \* bound: calls that raise
    MaxStarts    \* bound: how often the process starts

ASSUME AccountsAssumption ==
    /\ None \notin Emails \cup Roles
    /\ {"analyst", "admin"} \subseteq Roles
    /\ DOMAIN DemoRole \subseteq Emails
    /\ \A e \in DOMAIN DemoRole : DemoRole[e] \in Roles
    /\ Bootstrap \in Emails \cup {None}
    /\ MaxFaults \in Nat /\ MaxStarts \in Nat

VARIABLES
    users,       \* durable: the users table
    trail,       \* durable: what the last audit events say of each account
    boot,        \* how far the start of the process has got
    requests,    \* how far each request has got
    starts,      \* starts so far
    faults,      \* raised calls so far
    managed,     \* history: somebody could manage users
    stale,       \* history: a caller wrote who was no administrator any more
    muddled,     \* history: accounts with a lost event, or with two changes recorded at once
    opened       \* history: opened[e]: the requests that were told they opened account e

history == <<managed, stale, muddled, opened>>
vars    == <<users, trail, boot, requests, starts, faults, history>>

NoUser    == [role |-> None, active |-> FALSE]
NoEvent   == [role |-> None, deactivated |-> FALSE]
NoRequest == [kind |-> "none", pc |-> "idle", actor |-> None, target |-> None, role |-> None]

Present(e) == users[e].role # None
Admins     == {e \in Emails : users[e].role = "admin" /\ users[e].active}

UserRec    == [role : Roles \cup {None}, active : BOOLEAN]
TrailRec   == [role : Roles \cup {None}, deactivated : BOOLEAN]
Kinds      == {"register", "create", "role", "deactivate"}
RequestRec == [kind : Kinds \cup {"none"}, pc : {"idle", "check", "write", "audit", "done"},
               actor : Emails \cup {None}, target : Emails \cup {None},
               role : Roles \cup {None}]

Init ==
    /\ users = [e \in Emails |-> NoUser]
    /\ trail = [e \in Emails |-> NoEvent]
    /\ boot = "down"
    /\ requests = [q \in Requests |-> NoRequest]
    /\ starts = 0 /\ faults = 0
    /\ managed = FALSE /\ stale = FALSE
    /\ muddled = {}
    /\ opened = [e \in Emails |-> {}]

----------------------------------------------------------------------------
(* The users table and the trail *)

InsertUser(e, role) == users' = [users EXCEPT ![e] = [role |-> role, active |-> TRUE]]
UpdateRole(e, role) == users' = [users EXCEPT ![e].role = role]

\* Variant: the row is deleted.
DeleteUser(e) == users' = [other \in Emails \ {e} |-> users[other]]

SetInactive(e) == users' = [users EXCEPT ![e].active = FALSE]

\* Variant: a role change is recorded as the role that was replaced.
AfterEventPrevious(entry, kind, role) ==
    CASE kind \in {"register", "create"} -> [role |-> role, deactivated |-> FALSE]
      [] kind = "role"       -> entry
      [] kind = "deactivate" -> [entry EXCEPT !.deactivated = TRUE]

\* "registered" and "role_changed" name the role, "deactivated" needs no more.
AfterEvent(entry, kind, role) ==
    CASE kind \in {"register", "create"} -> [role |-> role, deactivated |-> FALSE]
      [] kind = "role"       -> [entry EXCEPT !.role = role]
      [] kind = "deactivate" -> [entry EXCEPT !.deactivated = TRUE]

Record(e, kind, role) == trail' = [trail EXCEPT ![e] = AfterEvent(@, kind, role)]

\* A change of the account is in the table and not yet on the trail.
Due(q, e)     == requests[q].pc = "audit" /\ requests[q].target = e
Unrecorded(e) == \E q \in Requests : Due(q, e)

\* The start of the process has promoted the account and not recorded it yet.
Promoting(e) == boot = "promoted" /\ e = Bootstrap

----------------------------------------------------------------------------
(* The start of the process: no request is served before it is over. *)

Start ==
    /\ boot = "down" /\ starts < MaxStarts
    /\ starts' = starts + 1
    /\ boot' = "seeding"
    /\ UNCHANGED <<users, trail, requests, faults, history>>

\* seed_demo_users, account by account, without an audit event.
Seed(e) ==
    /\ boot = "seeding"
    /\ e \in DOMAIN DemoRole /\ ~Present(e)
    /\ InsertUser(e, DemoRole[e])
    /\ managed' = (managed \/ DemoRole[e] = "admin")
    /\ UNCHANGED <<trail, boot, requests, starts, faults, stale, muddled, opened>>

NeedsPromotion == Bootstrap \in Emails /\ Present(Bootstrap) /\ users[Bootstrap].role # "admin"

\* bootstrap_admin: the read and the update; an inactive account is promoted too.
Promote ==
    /\ boot = "seeding"
    /\ \A e \in DOMAIN DemoRole : Present(e)
    /\ IF NeedsPromotion
       THEN /\ UpdateRole(Bootstrap, "admin")
            /\ boot' = "promoted"
            /\ managed' = (managed \/ users[Bootstrap].active)
       ELSE boot' = "up" /\ UNCHANGED <<users, managed>>
    /\ UNCHANGED <<trail, requests, starts, faults, stale, muddled, opened>>

RecordPromotion ==
    /\ boot = "promoted"
    /\ Record(Bootstrap, "role", "admin")
    /\ boot' = "up"
    /\ UNCHANGED <<users, requests, starts, faults, history>>

----------------------------------------------------------------------------
(* A request *)

Goto(q, pc) == requests' = [requests EXCEPT ![q].pc = pc]
Finished    == [NoRequest EXCEPT !.pc = "done"]
End(q)      == requests' = [requests EXCEPT ![q] = Finished]

\* register names no caller and no role.
Register(q) ==
    /\ boot = "up" /\ requests[q].pc = "idle"
    /\ \E e \in Emails :
          requests' = [requests EXCEPT ![q] =
              [kind |-> "register", pc |-> "check", actor |-> None, target |-> e,
               role |-> "analyst"]]
    /\ UNCHANGED <<users, trail, boot, starts, faults, history>>

\* current_user reads the caller's row, require_role its role: anybody who is
\* not an active administrator at this moment is refused.
Authorise(q) ==
    /\ boot = "up" /\ requests[q].pc = "idle"
    /\ \E a \in Admins, e \in Emails, kind \in Kinds \ {"register"}, role \in Roles :
          requests' = [requests EXCEPT ![q] =
              [kind |-> kind, pc |-> "check", actor |-> a, target |-> e,
               role |-> IF kind = "deactivate" THEN None ELSE role]]
    /\ UNCHANGED <<users, trail, boot, starts, faults, history>>

\* Variant: nothing keeps administrators off their own account.
WouldChangeAnybody(r) ==
    CASE r.kind \in {"register", "create"} -> ~Present(r.target)
      [] r.kind = "role"       -> Present(r.target) /\ users[r.target].role # r.role
      [] r.kind = "deactivate" -> Present(r.target) /\ users[r.target].active

\* The checks: EMAIL_TAKEN, USER_NOT_FOUND, CANNOT_CHANGE_OWN_ROLE,
\* CANNOT_DEACTIVATE_SELF, and a change that changes nothing.
WouldChange(r) ==
    CASE r.kind \in {"register", "create"} -> ~Present(r.target)
      [] r.kind = "role" ->
             /\ Present(r.target) /\ users[r.target].role # r.role
             /\ r.target = r.actor => r.role = "admin"
      [] r.kind = "deactivate" ->
             /\ Present(r.target) /\ users[r.target].active
             /\ r.target # r.actor

Check(q) ==
    /\ requests[q].pc = "check"
    /\ IF WouldChange(requests[q]) THEN Goto(q, "write") ELSE End(q)
    /\ UNCHANGED <<users, trail, boot, starts, faults, history>>

\* Variant: an address that is there already is taken over.
MayInsertOver(e) == TRUE

\* uq_users_email
MayInsert(e) == ~Present(e)

\* create_user, update_user_role, set_user_active: one commit, no condition but
\* the unique address, whose violation is a 500.
Write(q) ==
    LET r == requests[q]
        new == r.kind \in {"register", "create"}
    IN  /\ r.pc = "write"
        /\ IF new /\ ~MayInsert(r.target)
           THEN End(q) /\ UNCHANGED <<users, stale, muddled>>
           ELSE /\ CASE new                    -> InsertUser(r.target, r.role)
                     [] r.kind = "role"       -> UpdateRole(r.target, r.role)
                     [] r.kind = "deactivate" -> SetInactive(r.target)
                /\ stale'   = (stale \/ (r.kind # "register" /\ r.actor \notin Admins))
                /\ muddled' = IF Unrecorded(r.target) THEN muddled \cup {r.target} ELSE muddled
                /\ Goto(q, "audit")
        /\ UNCHANGED <<trail, boot, starts, faults, managed, opened>>

\* add_audit, and the answer.
Audit(q) ==
    LET r == requests[q]
    IN  /\ r.pc = "audit"
        /\ Record(r.target, r.kind, r.role)
        /\ opened' = IF r.kind \in {"register", "create"}
                     THEN [opened EXCEPT ![r.target] = @ \cup {q}] ELSE opened
        /\ End(q)
        /\ UNCHANGED <<users, boot, starts, faults, managed, stale, muddled>>

\* A call raises: what was committed stays, what was not recorded is not.
Raise(q) ==
    /\ faults < MaxFaults /\ requests[q].pc \in {"check", "write", "audit"}
    /\ faults' = faults + 1
    /\ muddled' = IF requests[q].pc = "audit" THEN muddled \cup {requests[q].target} ELSE muddled
    /\ End(q)
    /\ UNCHANGED <<users, trail, boot, starts, managed, stale, opened>>

\* The process ends, in the middle of its start or of requests.
Crash ==
    /\ boot # "down"
    /\ boot' = "down"
    /\ requests' = [q \in Requests |->
           IF requests[q].pc \in {"check", "write", "audit"} THEN Finished ELSE requests[q]]
    /\ muddled' = muddled \cup {e \in Emails : Unrecorded(e) \/ Promoting(e)}
    /\ UNCHANGED <<users, trail, starts, faults, managed, stale, opened>>

Serve(q) == Register(q) \/ Authorise(q) \/ Check(q) \/ Write(q) \/ Audit(q) \/ Raise(q)

Next ==
    \/ Start \/ Promote \/ RecordPromotion \/ Crash
    \/ \E e \in Emails : Seed(e)
    \/ \E q \in Requests : Serve(q)

Spec == Init /\ [][Next]_vars

----------------------------------------------------------------------------
(* Properties *)

TypeOK ==
    /\ users \in [Emails -> UserRec]
    /\ trail \in [Emails -> TrailRec]
    /\ boot \in {"down", "seeding", "promoted", "up"}
    /\ requests \in [Requests -> RequestRec]
    /\ starts \in 0..MaxStarts /\ faults \in 0..MaxFaults
    /\ managed \in BOOLEAN /\ stale \in BOOLEAN
    /\ muddled \subseteq Emails
    /\ opened \in [Emails -> SUBSET Requests]

\* Once somebody can manage users somebody always can, however role changes,
\* deactivations, restarts and errors follow each other: the only way to lose
\* the last administrator is a write by one who has meanwhile been demoted or
\* deactivated (auth.py:334, auth.py:386).
AdminRemains == managed /\ ~stale => Admins # {}

\* What the trail says of an account; of a seeded one that nobody changed it
\* says nothing.
TellsRole(e, entry) ==
    users[e].role = IF entry.role = None /\ Present(e) /\ e \in DOMAIN DemoRole
                    THEN DemoRole[e] ELSE entry.role
TellsState(e, entry) == entry.deactivated <=> Present(e) /\ ~users[e].active
Tells(e, entry) == TellsRole(e, entry) /\ TellsState(e, entry)

\* Whenever no change of an account waits for its event, the trail says what the
\* account is, unless an event was lost or two changes were recorded at once
\* (auth.py:350, auth.py:463).
TrailTellsTheAccount ==
    \A e \in Emails \ muddled :
        ~Unrecorded(e) /\ ~Promoting(e) => Tells(e, trail[e])

\* However registrations of one address overlap, with each other or with an
\* administrator's, one request alone opens the account (auth.py:141).
Opens(q, e) ==
    \/ q \in opened[e]
    \/ requests[q].target = e /\ requests[q].kind \in {"register", "create"}
           /\ requests[q].pc = "audit"

OneAccountPerAddress ==
    \A e \in Emails, p, q \in Requests : Opens(p, e) /\ Opens(q, e) => p = q

\* set_user_role: "demoting the only admin would lock every account out of
\* user management, with no endpoint left to undo it".
SomebodyManages == managed => Admins # {}

----------------------------------------------------------------------------
(* The invariant that the properties follow from: what a request has made  *)
(* sure of at each step, and what an event that is still due will say.     *)

Working(q) == requests[q].pc \in {"check", "write", "audit"}

RequestOK(q) ==
    LET r == requests[q]
    IN  /\ Working(q) => /\ boot = "up"
                         /\ r.target \in Emails
                         /\ r.kind \in Kinds
                         /\ r.kind # "deactivate" => r.role \in Roles
        /\ r.pc = "write" /\ r.kind \in {"role", "deactivate"} => Present(r.target)
        /\ r.pc = "audit" => Present(r.target)
        /\ r.pc = "write" /\ r.target = r.actor =>
               r.kind # "deactivate" /\ (r.kind = "role" => r.role = "admin")

OpensOK == \A e \in Emails, q \in Requests : Opens(q, e) => Present(e)

\* The trail tells the account now, or will once the one event due is recorded.
TrailOK(e) ==
    /\ ~Unrecorded(e) /\ ~Promoting(e) => Tells(e, trail[e])
    /\ Promoting(e) => Tells(e, AfterEvent(trail[e], "role", "admin"))
    /\ \A q \in Requests : Due(q, e) =>
           /\ Tells(e, AfterEvent(trail[e], requests[q].kind, requests[q].role))
           /\ \A p \in Requests : Due(p, e) => p = q

IInv ==
    /\ TypeOK
    /\ \A q \in Requests : RequestOK(q)
    /\ AdminRemains
    /\ OpensOK /\ OneAccountPerAddress
    /\ \A e \in Emails \ muddled : TrailOK(e)
    /\ boot = "promoted" => Bootstrap \in Emails /\ Present(Bootstrap)
=============================================================================
