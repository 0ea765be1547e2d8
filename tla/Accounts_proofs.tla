--------------------------- MODULE Accounts_proofs ---------------------------
(***************************************************************************)
(* Proofs about Accounts: IInv is inductive, so an administrator remains,  *)
(* an address is opened once, and the trail tells every account.           *)
(***************************************************************************)
EXTENDS Accounts, TLAPS

\* What a request writes, when the unique address does not refuse it.
Writes(q) ==
    LET r == requests[q]
    IN  \/ r.kind \in {"register", "create"} /\ ~Present(r.target) /\ InsertUser(r.target, r.role)
        \/ r.kind = "role" /\ UpdateRole(r.target, r.role)
        \/ r.kind = "deactivate" /\ SetInactive(r.target)

\* What a write leaves behind: nothing, or its change and the windows it falls into.
LEMMA WriteCases ==
    ASSUME NEW q \in Requests, Write(q), RequestOK(q)
    PROVE  LET r == requests[q]
           IN  /\ r.pc = "write" /\ r.target \in Emails /\ r.kind \in Kinds
               /\ r.kind # "deactivate" => r.role \in Roles
               /\ \/ End(q) /\ UNCHANGED <<users, stale, muddled>>
                  \/ /\ Writes(q)
                     /\ stale' = (stale \/ (r.kind # "register" /\ r.actor \notin Admins))
                     /\ muddled' = IF Unrecorded(r.target) THEN muddled \cup {r.target}
                                                           ELSE muddled
                     /\ Goto(q, "audit")
               /\ UNCHANGED <<trail, boot, starts, faults, managed, opened>>
<1> DEFINE r == requests[q]
<1>1. /\ r.pc = "write" /\ r.target \in Emails /\ r.kind \in Kinds
      /\ r.kind # "deactivate" => r.role \in Roles
  BY DEF Write, RequestOK, Working
<1>2. CASE r.kind \in {"register", "create"} /\ ~MayInsert(r.target)
  BY <1>1, <1>2 DEF Write
<1>3. CASE r.kind \in {"register", "create"} /\ MayInsert(r.target)
  BY <1>1, <1>3 DEF Write, Writes, MayInsert
<1>4. CASE r.kind = "role"
  BY <1>1, <1>4 DEF Write, Writes
<1>5. CASE r.kind = "deactivate"
  BY <1>1, <1>5 DEF Write, Writes
<1> QED  BY <1>1, <1>2, <1>3, <1>4, <1>5 DEF Kinds

\* The tables and the requests keep their type.
LEMMA TypeStep ==
    ASSUME TypeOK, \A q \in Requests : RequestOK(q), [Next]_vars
    PROVE  TypeOK'
<1>0. /\ users \in [Emails -> UserRec]
      /\ trail \in [Emails -> TrailRec]
      /\ requests \in [Requests -> RequestRec]
      /\ None \notin Emails \cup Roles
  BY AccountsAssumption DEF TypeOK
<1> USE AccountsAssumption DEF TypeOK, Goto, End, Finished, NoRequest, RequestRec
<1>1. CASE Start
  BY <1>1 DEF Start, history
<1>2. ASSUME NEW e \in Emails, Seed(e)
      PROVE  TypeOK'
  BY <1>2 DEF Seed, InsertUser, UserRec
<1>3. CASE Promote
  BY <1>3 DEF Promote, UpdateRole, NeedsPromotion, UserRec
<1>4. CASE RecordPromotion
  <2>1. AfterEvent(trail[Bootstrap], "role", "admin") \in TrailRec \/ Bootstrap \notin Emails
    BY <1>0 DEF AfterEvent, TrailRec
  <2> QED  BY <1>0, <1>4, <2>1 DEF RecordPromotion, Record, history
<1>5. ASSUME NEW q \in Requests, Serve(q)
      PROVE  TypeOK'
  <2> DEFINE r == requests[q]
  <2>0. r \in RequestRec /\ RequestOK(q)
    BY <1>5
  <2>1. CASE Register(q)
    BY <1>0, <2>1 DEF Register, history, Kinds
  <2>2. CASE Authorise(q)
    <3>1. PICK a \in Admins, e \in Emails, kind \in Kinds \ {"register"}, role \in Roles :
             requests' = [requests EXCEPT ![q] =
                 [kind |-> kind, pc |-> "check", actor |-> a, target |-> e,
                  role |-> IF kind = "deactivate" THEN None ELSE role]]
      BY <2>2 DEF Authorise
    <3>2. a \in Emails
      BY DEF Admins
    <3> QED  BY <1>0, <2>2, <3>1, <3>2 DEF Authorise, history
  <2>3. CASE Check(q)
    BY <1>0, <2>3 DEF Check, history
  <2>4. CASE Write(q)
    <3>1. /\ r.target \in Emails /\ r.kind \in Kinds
          /\ r.kind # "deactivate" => r.role \in Roles
      BY <2>0, <2>4, WriteCases
    <3>2. Writes(q) => users' \in [Emails -> UserRec]
      <4>1. CASE InsertUser(r.target, r.role) /\ r.role \in Roles
        BY <1>0, <3>1, <4>1 DEF InsertUser, UserRec
      <4>2. CASE UpdateRole(r.target, r.role) /\ r.role \in Roles
        BY <1>0, <3>1, <4>2 DEF UpdateRole, UserRec
      <4>3. CASE SetInactive(r.target)
        BY <1>0, <3>1, <4>3 DEF SetInactive, UserRec
      <4> QED  BY <3>1, <4>1, <4>2, <4>3 DEF Writes
    <3>3. [requests EXCEPT ![q].pc = "audit"] \in [Requests -> RequestRec]
      BY <1>0
    <3>4. stale' \in BOOLEAN /\ muddled' \subseteq Emails
      <4>1. /\ stale' \in {stale, stale \/ (r.kind # "register" /\ r.actor \notin Admins)}
            /\ muddled' \in {muddled, muddled \cup {r.target}}
        BY <2>0, <2>4, WriteCases
      <4>2. muddled' \subseteq Emails
        BY <3>1, <4>1
      <4>3. stale' \in BOOLEAN
        BY <4>1
      <4> QED  BY <4>2, <4>3
    <3>5. requests' \in [Requests -> RequestRec] /\ users' \in [Emails -> UserRec]
      BY <1>0, <2>0, <2>4, <3>2, <3>3, WriteCases
    <3> QED  BY <2>0, <2>4, <3>4, <3>5, WriteCases
  <2>5. CASE Audit(q)
    <3>1. /\ r.target \in Emails /\ r.kind \in Kinds
          /\ r.kind # "deactivate" => r.role \in Roles
      BY <2>0, <2>5 DEF Audit, RequestOK, Working
    <3>2. AfterEvent(trail[r.target], r.kind, r.role) \in TrailRec
      <4>1. CASE r.kind \in {"register", "create"}
        BY <1>0, <3>1, <4>1 DEF AfterEvent, TrailRec
      <4>2. CASE r.kind = "role"
        BY <1>0, <3>1, <4>2 DEF AfterEvent, TrailRec
      <4>3. CASE r.kind = "deactivate"
        <5>1. trail[r.target] \in TrailRec
          BY <1>0, <3>1
        <5>2. AfterEvent(trail[r.target], r.kind, r.role)
                  = [trail[r.target] EXCEPT !.deactivated = TRUE]
          BY <4>3 DEF AfterEvent
        <5>3. ASSUME NEW entry \in TrailRec
              PROVE  [entry EXCEPT !.deactivated = TRUE] \in TrailRec
          BY ONLY entry \in TrailRec DEF TrailRec
        <5> QED  BY <5>1, <5>2, <5>3
      <4> QED  BY <3>1, <4>1, <4>2, <4>3 DEF Kinds
    <3>3. trail' \in [Emails -> TrailRec]
      BY <1>0, <2>5, <3>1, <3>2 DEF Audit, Record
    <3> QED  BY <1>0, <2>5, <3>1, <3>3 DEF Audit
  <2>6. CASE Raise(q)
    <3>1. r.pc = "audit" => r.target \in Emails
      BY <2>0 DEF RequestOK, Working
    <3> QED  BY <1>0, <2>6, <3>1 DEF Raise
  <2> QED  BY <1>5, <2>1, <2>2, <2>3, <2>4, <2>5, <2>6 DEF Serve
<1>6. CASE Crash
  BY <1>0, <1>6 DEF Crash
<1>7. CASE UNCHANGED vars
  BY <1>7 DEF vars, history
<1> QED  BY <1>1, <1>2, <1>3, <1>4, <1>5, <1>6, <1>7 DEF Next

\* No step takes an account away.
LEMMA PresentStays ==
    ASSUME TypeOK, \A q \in Requests : RequestOK(q), [Next]_vars,
           NEW e \in Emails, Present(e)
    PROVE  Present(e)'
<1>0. /\ users \in [Emails -> UserRec]
      /\ None \notin Roles /\ "admin" \in Roles
      /\ \A d \in DOMAIN DemoRole : DemoRole[d] \in Roles
  BY AccountsAssumption DEF TypeOK
<1> USE DEF Present, UserRec, history
<1>1. ASSUME NEW d \in Emails, Seed(d)
      PROVE  Present(e)'
  BY <1>0, <1>1 DEF Seed, InsertUser
<1>2. CASE Promote
  BY <1>0, <1>2 DEF Promote, UpdateRole
<1>3. ASSUME NEW q \in Requests, Write(q)
      PROVE  Present(e)'
  <2>1. requests[q].kind # "deactivate" => requests[q].role \in Roles
    BY <1>3, WriteCases
  <2>2. Writes(q) => Present(e)'
    BY <1>0, <2>1 DEF Writes, InsertUser, UpdateRole, SetInactive
  <2> QED  BY <1>3, <2>2, WriteCases
<1>4. CASE users' = users
  BY <1>4
<1> QED  BY <1>1, <1>2, <1>3, <1>4
         DEF Next, Serve, Start, RecordPromotion, Register, Authorise, Check, Audit, Raise, Crash, vars

\* What a request has made sure of stays so while others go on.
LEMMA RequestStep ==
    ASSUME TypeOK, \A q \in Requests : RequestOK(q), [Next]_vars, NEW q \in Requests
    PROVE  RequestOK(q)'
<1>0. /\ requests \in [Requests -> RequestRec]
      /\ None \notin Emails \cup Roles
      /\ "analyst" \in Roles
      /\ RequestOK(q)
  BY AccountsAssumption DEF TypeOK
<1>1. \A e \in Emails : Present(e) => Present(e)'
  BY PresentStays
<1> USE DEF RequestOK, Working, Goto, End, Finished, NoRequest
<1>2. ASSUME NEW p \in Requests, Serve(p)
      PROVE  RequestOK(q)'
  <2>0. boot' = boot
    BY <1>2 DEF Serve, Register, Authorise, Check, Write, Audit, Raise
  <2>1. CASE p # q
    <3>1. requests'[q] = requests[q]
      <4>1. CASE Write(p)
        BY <1>0, <2>1, <4>1, WriteCases
      <4>2. CASE Register(p) \/ Authorise(p) \/ Check(p) \/ Audit(p) \/ Raise(p)
        BY <1>0, <2>1, <4>2 DEF Register, Authorise, Check, Audit, Raise
      <4> QED  BY <1>2, <4>1, <4>2 DEF Serve
    <3> QED  BY <1>0, <1>1, <2>0, <3>1
  <2>2. CASE p = q
    <3>1. CASE Register(q)
      BY <1>0, <2>0, <3>1 DEF Register, Kinds
    <3>2. CASE Authorise(q)
      <4>1. PICK a \in Admins, e \in Emails, kind \in Kinds \ {"register"}, role \in Roles :
               requests' = [requests EXCEPT ![q] =
                   [kind |-> kind, pc |-> "check", actor |-> a, target |-> e,
                    role |-> IF kind = "deactivate" THEN None ELSE role]]
        BY <3>2 DEF Authorise
      <4> QED  BY <1>0, <2>0, <3>2, <4>1 DEF Authorise
    <3>3. CASE Check(q)
      <4>1. users' = users
        BY <3>3 DEF Check
      <4>2. CASE WouldChange(requests[q])
        <5>1. /\ requests[q].kind \in {"role", "deactivate"} => Present(requests[q].target)
              /\ requests[q].target = requests[q].actor =>
                     /\ requests[q].kind # "deactivate"
                     /\ requests[q].kind = "role" => requests[q].role = "admin"
          BY <4>2 DEF WouldChange
        <5> QED  BY <1>0, <2>0, <3>3, <4>1, <4>2, <5>1 DEF Check, RequestRec, Present
      <4>3. CASE ~WouldChange(requests[q])
        BY <1>0, <3>3, <4>3 DEF Check
      <4> QED  BY <4>2, <4>3
    <3>4. CASE Write(q)
      <4>0. /\ requests[q].pc = "write" /\ requests[q].target \in Emails
            /\ requests[q].kind \in Kinds
            /\ requests[q].kind # "deactivate" => requests[q].role \in Roles
        BY <3>4, WriteCases
      <4>1. CASE requests' = [requests EXCEPT ![q] = [NoRequest EXCEPT !.pc = "done"]]
        BY <1>0, <4>1
      <4>2. CASE Writes(q) /\ Goto(q, "audit")
        <5>1. users'[requests[q].target].role # None
          <6>1. CASE requests[q].kind \in {"register", "create"}
            <7>1. users' = [users EXCEPT ![requests[q].target] =
                               [role |-> requests[q].role, active |-> TRUE]]
              BY <4>2, <6>1 DEF Writes, InsertUser
            <7> QED  BY <1>0, <4>0, <6>1, <7>1 DEF TypeOK
          <6>2. CASE requests[q].kind \in {"role", "deactivate"}
            <7>1. Present(requests[q].target)
              BY <1>0, <4>0, <6>2
            <7> QED  BY <1>1, <4>0, <7>1 DEF Present
          <6> QED  BY <4>0, <6>1, <6>2 DEF Kinds
        <5>2. /\ requests'[q].kind = requests[q].kind
              /\ requests'[q].target = requests[q].target
              /\ requests'[q].role = requests[q].role
              /\ requests'[q].pc = "audit"
          BY <1>0, <4>2 DEF RequestRec
        <5> QED  BY <1>0, <2>0, <4>0, <5>1, <5>2 DEF Present
      <4> QED  BY <3>4, <4>1, <4>2, WriteCases
    <3>5. CASE Audit(q) \/ Raise(q)
      BY <1>0, <3>5 DEF Audit, Raise
    <3> QED  BY <1>2, <2>2, <3>1, <3>2, <3>3, <3>4, <3>5 DEF Serve
  <2> QED  BY <2>1, <2>2
<1>3. CASE Crash
  BY <1>0, <1>3 DEF Crash
<1>4. CASE boot # "up" /\ requests' = requests
  BY <1>0, <1>1, <1>4
<1>5. CASE UNCHANGED vars
  BY <1>0, <1>1, <1>5 DEF vars
<1> QED  BY <1>2, <1>3, <1>4, <1>5 DEF Next, Start, Seed, Promote, RecordPromotion

\* No step but one of a former administrator takes the last one away.
LEMMA AdminStep ==
    ASSUME TypeOK, \A q \in Requests : RequestOK(q), AdminRemains, [Next]_vars
    PROVE  AdminRemains'
<1>0. /\ users \in [Emails -> UserRec]
      /\ requests \in [Requests -> RequestRec]
      /\ None \notin Emails \cup Roles
      /\ DOMAIN DemoRole \subseteq Emails
      /\ Bootstrap \in Emails \cup {None}
  BY AccountsAssumption DEF TypeOK
<1>1. ASSUME NEW e \in Emails, Seed(e)
      PROVE  AdminRemains'
  <2>1. /\ users' = [users EXCEPT ![e] = [role |-> DemoRole[e], active |-> TRUE]]
        /\ managed' = (managed \/ DemoRole[e] = "admin") /\ stale' = stale
        /\ e \notin Admins
    BY <1>0, <1>1, AccountsAssumption DEF Seed, InsertUser, Present, Admins
  <2>2. Admins \subseteq Admins'
    BY <1>0, <2>1 DEF Admins
  <2>3. DemoRole[e] = "admin" => e \in Admins'
    BY <1>0, <2>1 DEF Admins
  <2> QED  BY <2>1, <2>2, <2>3 DEF AdminRemains
<1>2. CASE Promote
  <2>1. CASE NeedsPromotion
    <3>1. /\ users' = [users EXCEPT ![Bootstrap].role = "admin"]
          /\ managed' = (managed \/ users[Bootstrap].active) /\ stale' = stale
          /\ Bootstrap \in Emails
      BY <1>2, <2>1 DEF Promote, UpdateRole, NeedsPromotion
    <3>2. Admins \subseteq Admins'
      <4>1. Bootstrap \notin Admins
        BY <2>1 DEF NeedsPromotion, Admins
      <4> QED  BY <1>0, <3>1, <4>1 DEF Admins
    <3>3. users[Bootstrap].active => Bootstrap \in Admins'
      BY <1>0, <3>1 DEF Admins, UserRec
    <3> QED  BY <3>1, <3>2, <3>3 DEF AdminRemains
  <2>2. CASE ~NeedsPromotion
    BY <1>2, <2>2 DEF Promote, AdminRemains, Admins
  <2> QED  BY <2>1, <2>2
<1>3. ASSUME NEW q \in Requests, Write(q)
      PROVE  AdminRemains'
  <2> DEFINE r == requests[q]
  <2>1. managed' = managed
    BY <1>3, WriteCases
  <2>2. CASE UNCHANGED <<users, stale, muddled>>
    BY <2>1, <2>2 DEF AdminRemains, Admins
  <2>3. CASE /\ Writes(q)
             /\ stale' = (stale \/ (r.kind # "register" /\ r.actor \notin Admins))
    <3>1. r.target \in Emails
      BY <1>3, WriteCases
    <3>2. CASE r.kind \in {"register", "create"}
      <4>1. /\ users' = [users EXCEPT ![r.target] = [role |-> r.role, active |-> TRUE]]
            /\ ~Present(r.target)
        BY <2>3, <3>2 DEF Writes, InsertUser
      <4>2. r.target \notin Admins
        BY <4>1, AccountsAssumption DEF Admins, Present
      <4>3. Admins \subseteq Admins'
        BY <1>0, <3>1, <4>1, <4>2 DEF Admins
      <4> QED  BY <2>1, <2>3, <4>3 DEF AdminRemains
    <3>3. CASE r.kind \in {"role", "deactivate"} /\ r.actor \in Admins
      <4>1. r.target = r.actor => r.kind = "role" /\ r.role = "admin"
        BY <1>3, <3>3 DEF Write, RequestOK
      <4>2. CASE r.target = r.actor
        <5>1. users' = [users EXCEPT ![r.target].role = "admin"]
          BY <2>3, <4>1, <4>2 DEF Writes, UpdateRole
        <5>2. r.actor \in Admins'
          BY <1>0, <3>1, <3>3, <4>2, <5>1 DEF Admins, UserRec
        <5> QED  BY <5>2 DEF AdminRemains
      <4>3. CASE r.target # r.actor
        <5>1. r.actor \in Emails /\ users'[r.actor] = users[r.actor]
          BY <1>0, <2>3, <3>3, <4>3 DEF Writes, UpdateRole, SetInactive, Admins
        <5>2. r.actor \in Admins'
          BY <3>3, <5>1 DEF Admins
        <5> QED  BY <5>2 DEF AdminRemains
      <4> QED  BY <4>2, <4>3
    <3>4. CASE r.kind \in {"role", "deactivate"} /\ r.actor \notin Admins
      BY <2>3, <3>4 DEF AdminRemains
    <3> QED  BY <1>3, <3>2, <3>3, <3>4, WriteCases DEF Kinds
  <2> QED  BY <1>3, <2>2, <2>3, WriteCases
<1>4. CASE UNCHANGED <<users, managed, stale>>
  BY <1>4 DEF AdminRemains, Admins
<1> QED  BY <1>1, <1>2, <1>3, <1>4
         DEF Next, Serve, Start, RecordPromotion, Register, Authorise, Check, Audit, Raise, Crash,
             vars, history

\* One request alone opens an account, and an opened account is there.
LEMMA OpensStep ==
    ASSUME TypeOK, \A q \in Requests : RequestOK(q), OpensOK, OneAccountPerAddress, [Next]_vars
    PROVE  OpensOK' /\ OneAccountPerAddress'
<1>0. /\ users \in [Emails -> UserRec]
      /\ requests \in [Requests -> RequestRec]
      /\ opened \in [Emails -> SUBSET Requests]
      /\ None \notin Emails
  BY AccountsAssumption DEF TypeOK
<1>1. \A e \in Emails : Present(e) => Present(e)'
  BY PresentStays
<1>2. ASSUME \A e \in Emails, q \in Requests : Opens(q, e)' => Opens(q, e)
      PROVE  OpensOK' /\ OneAccountPerAddress'
  BY <1>1, <1>2 DEF OpensOK, OneAccountPerAddress
<1> USE DEF Opens, Goto, End, Finished, NoRequest
<1>3. ASSUME NEW q \in Requests, Register(q) \/ Authorise(q) \/ Check(q) \/ Raise(q)
      PROVE  OpensOK' /\ OneAccountPerAddress'
  <2>1. /\ opened' = opened
        /\ \A p \in Requests \ {q} : requests'[p] = requests[p]
        /\ requests'[q].pc \in {"check", "write", "done"}
    <3>1. CASE Register(q) \/ Authorise(q)
      BY <1>0, <3>1 DEF Register, Authorise, history
    <3>2. CASE Check(q)
      BY <1>0, <3>2 DEF Check, history, RequestRec
    <3>3. CASE Raise(q)
      BY <1>0, <3>3 DEF Raise
    <3> QED  BY <1>3, <3>1, <3>2, <3>3
  <2>2. \A e \in Emails, p \in Requests : Opens(p, e)' => Opens(p, e)
    BY <2>1
  <2> QED  BY <1>2, <2>2
<1>4. ASSUME NEW q \in Requests, Audit(q)
      PROVE  OpensOK' /\ OneAccountPerAddress'
  <2> DEFINE r == requests[q]
  <2>1. /\ \A p \in Requests \ {q} : requests'[p] = requests[p]
        /\ requests'[q].pc = "done"
        /\ \A e \in Emails : opened'[e] =
               IF r.kind \in {"register", "create"} /\ e = r.target
               THEN opened[e] \cup {q} ELSE opened[e]
        /\ r.pc = "audit"
    BY <1>0, <1>4 DEF Audit
  <2>2. \A e \in Emails, p \in Requests : Opens(p, e)' => Opens(p, e)
    BY <2>1
  <2> QED  BY <1>2, <2>2
<1>5. ASSUME NEW q \in Requests, Write(q)
      PROVE  OpensOK' /\ OneAccountPerAddress'
  <2> DEFINE r == requests[q]
  <2>0. opened' = opened /\ r.target \in Emails
    BY <1>5, WriteCases
  <2>1. CASE End(q)
    <3>1. \A e \in Emails, p \in Requests : Opens(p, e)' => Opens(p, e)
      BY <1>0, <2>0, <2>1
    <3> QED  BY <1>2, <3>1
  <2>2. CASE Writes(q) /\ Goto(q, "audit")
    <3>1. /\ \A p \in Requests \ {q} : requests'[p] = requests[p]
          /\ requests'[q].kind = r.kind /\ requests'[q].target = r.target
      BY <1>0, <2>2 DEF RequestRec
    <3>2. CASE r.kind \notin {"register", "create"}
      <4>1. \A e \in Emails, p \in Requests : Opens(p, e)' => Opens(p, e)
        BY <2>0, <3>1, <3>2
      <4> QED  BY <1>2, <4>1
    <3>3. CASE r.kind \in {"register", "create"}
      <4>1. ~Present(r.target)
        BY <2>2, <3>3 DEF Writes
      <4>2. \A p \in Requests : ~Opens(p, r.target)
        BY <2>0, <4>1 DEF OpensOK
      <4>4. users'[r.target].role # None
        <5>1. RequestOK(q)'
          BY RequestStep
        <5>2. requests'[q].pc = "audit"
          BY <1>0, <2>2 DEF RequestRec
        <5> QED  BY <3>1, <5>1, <5>2 DEF RequestOK, Present
      <4>5. \A e \in Emails, p \in Requests :
               Opens(p, e)' => Opens(p, e) \/ (p = q /\ e = r.target)
        BY <2>0, <3>1
      <4>6. OpensOK'
        BY <1>1, <4>4, <4>5 DEF OpensOK, Present
      <4>7. OneAccountPerAddress'
        BY <4>2, <4>5 DEF OneAccountPerAddress
      <4> QED  BY <4>6, <4>7
    <3> QED  BY <3>2, <3>3
  <2> QED  BY <1>5, <2>1, <2>2, WriteCases
<1>6. CASE Crash
  <2>1. \A e \in Emails, p \in Requests : Opens(p, e)' => Opens(p, e)
    BY <1>0, <1>6 DEF Crash
  <2> QED  BY <1>2, <2>1
<1>7. CASE UNCHANGED <<requests, opened>>
  BY <1>2, <1>7
<1> QED  BY <1>3, <1>4, <1>5, <1>6, <1>7
         DEF Next, Serve, Start, Seed, Promote, RecordPromotion, vars, history

\* What a write does to the account, the event it owes will say.
LEMMA WriteIsTold ==
    ASSUME TypeOK, NEW q \in Requests, RequestOK(q), Write(q), Writes(q),
           NEW e, e = requests[q].target,
           NEW entry \in TrailRec, Tells(e, entry),
           NEW told, told = AfterEvent(entry, requests[q].kind, requests[q].role)
    PROVE  Tells(e, told)'
<1> DEFINE r == requests[q]
<1>0. /\ users \in [Emails -> UserRec]
      /\ e \in Emails /\ r.pc = "write"
      /\ r.kind # "deactivate" => r.role \in Roles
      /\ None \notin Roles
  BY WriteCases, AccountsAssumption DEF TypeOK
<1> USE DEF Tells, TellsRole, TellsState, Present
<1>1. CASE r.kind \in {"register", "create"}
  <2>1. users' = [users EXCEPT ![e] = [role |-> r.role, active |-> TRUE]]
    BY <1>1 DEF Writes, InsertUser
  <2>2. told = [role |-> r.role, deactivated |-> FALSE]
    BY <1>1 DEF AfterEvent
  <2> QED  BY <1>0, <1>1, <2>1, <2>2
<1>2. CASE r.kind = "role"
  <2>1. users' = [users EXCEPT ![e].role = r.role]
    BY <1>2 DEF Writes, UpdateRole
  <2>2. told = [entry EXCEPT !.role = r.role]
    BY <1>2 DEF AfterEvent
  <2>3. Present(e)
    BY <1>0, <1>2 DEF RequestOK
  <2>4. /\ users'[e].role = r.role /\ users'[e].active = users[e].active
        /\ told.role = r.role /\ told.deactivated = entry.deactivated
    BY <1>0, <2>1, <2>2 DEF UserRec, TrailRec
  <2> QED  BY <1>0, <1>2, <2>3, <2>4
<1>3. CASE r.kind = "deactivate"
  <2>1. users' = [users EXCEPT ![e].active = FALSE]
    BY <1>3 DEF Writes, SetInactive
  <2>2. told = [entry EXCEPT !.deactivated = TRUE]
    BY <1>3 DEF AfterEvent
  <2>3. Present(e)
    BY <1>0, <1>3 DEF RequestOK
  <2>4. /\ users'[e].role = users[e].role /\ ~users'[e].active
        /\ told.role = entry.role /\ told.deactivated
    BY <1>0, <2>1, <2>2 DEF UserRec, TrailRec
  <2> QED  BY <1>0, <2>3, <2>4
<1> QED  BY <1>1, <1>2, <1>3 DEF Writes

\* A step that leaves an account, its events and its requests alone.
LEMMA TrailKept ==
    ASSUME NEW e \in Emails, TrailOK(e),
           users'[e] = users[e], trail'[e] = trail[e], Promoting(e)' <=> Promoting(e),
           \A q \in Requests : /\ Due(q, e)' <=> Due(q, e)
                               /\ Due(q, e) => /\ requests'[q].kind = requests[q].kind
                                               /\ requests'[q].role = requests[q].role
    PROVE  TrailOK(e)'
<1>1. Unrecorded(e)' <=> Unrecorded(e)
  BY DEF Unrecorded
<1> QED  BY <1>1 DEF TrailOK, Tells, TellsRole, TellsState, Present

\* The trail goes on telling every account, or will once its event is recorded.
LEMMA TrailStep ==
    ASSUME IInv, [Next]_vars, NEW e \in Emails, e \notin muddled'
    PROVE  TrailOK(e)'
<1>0. /\ users \in [Emails -> UserRec]
      /\ trail \in [Emails -> TrailRec]
      /\ requests \in [Requests -> RequestRec]
      /\ \A q \in Requests : RequestOK(q)
      /\ None \notin Emails \cup Roles
      /\ boot # "up" => \A d \in Emails : ~Unrecorded(d)
  BY AccountsAssumption DEF IInv, TypeOK, RequestOK, Working, Unrecorded, Due
<1>1. e \notin muddled
  BY DEF Next, Serve, Start, Seed, Promote, RecordPromotion, Register, Authorise, Check,
         Write, Audit, Raise, Crash, vars, history
<1>2. TrailOK(e)
  BY <1>1 DEF IInv
<1> USE DEF Goto, End, Finished, NoRequest
<1>3. ASSUME NEW q \in Requests, Register(q) \/ Authorise(q) \/ Check(q)
      PROVE  TrailOK(e)'
  <2>1. /\ users' = users /\ trail' = trail /\ boot' = boot
        /\ \A p \in Requests \ {q} : requests'[p] = requests[p]
        /\ requests[q].pc # "audit" /\ requests'[q].pc # "audit"
    <3>1. CASE Register(q) \/ Authorise(q)
      BY <1>0, <3>1 DEF Register, Authorise
    <3>2. CASE Check(q)
      BY <1>0, <3>2 DEF Check, RequestRec
    <3> QED  BY <1>3, <3>1, <3>2
  <2> QED  BY <1>2, <2>1, TrailKept DEF Due, Promoting
<1>4. ASSUME NEW q \in Requests, Write(q)
      PROVE  TrailOK(e)'
  <2> DEFINE r == requests[q]
  <2>0. /\ trail' = trail /\ boot' = boot
        /\ r.pc = "write" /\ r.target \in Emails
    BY <1>0, <1>4, WriteCases
  <2>1. CASE End(q) /\ users' = users
    <3>1. /\ \A p \in Requests \ {q} : requests'[p] = requests[p]
          /\ requests'[q].pc = "done"
      BY <1>0, <2>1
    <3> QED  BY <1>2, <2>0, <2>1, <3>1, TrailKept DEF Due, Promoting
  <2>2. CASE /\ Writes(q) /\ Goto(q, "audit")
             /\ muddled' = IF Unrecorded(r.target) THEN muddled \cup {r.target} ELSE muddled
    <3>1. /\ \A p \in Requests \ {q} : requests'[p] = requests[p]
          /\ requests'[q].pc = "audit" /\ requests'[q].target = r.target
          /\ requests'[q].kind = r.kind /\ requests'[q].role = r.role
      BY <1>0, <2>2 DEF RequestRec
    <3>2. CASE r.target # e
      <4>1. users'[e] = users[e]
        BY <1>0, <2>2, <3>2 DEF Writes, InsertUser, UpdateRole, SetInactive
      <4> QED  BY <1>2, <2>0, <3>1, <3>2, <4>1, TrailKept DEF Due, Promoting
    <3>3. CASE r.target = e
      <4>1. ~Unrecorded(e)
        BY <2>2, <3>3
      <4>2. boot = "up"
        BY <1>0, <2>0 DEF RequestOK, Working
      <4>3. Tells(e, trail[e])
        BY <1>2, <4>1, <4>2 DEF TrailOK, Promoting
      <4>5. \A p \in Requests : Due(p, e)' <=> p = q
        BY <3>1, <3>3, <4>1 DEF Due, Unrecorded
      <4>6. Tells(e, AfterEvent(trail[e], requests[q].kind, requests[q].role))'
        <5>1. \A x : x = AfterEvent(trail[e], r.kind, r.role) => Tells(e, x)'
          BY <1>0, <1>4, <2>2, <3>3, <4>3, WriteIsTold DEF IInv
        <5>2. AfterEvent(trail[e], requests[q].kind, requests[q].role)'
                  = AfterEvent(trail[e], r.kind, r.role)
          BY <2>0, <3>1 DEF AfterEvent
        <5> QED  BY <5>1, <5>2 DEF Tells, TellsRole, TellsState, Present
      <4> QED  BY <2>0, <4>2, <4>5, <4>6 DEF TrailOK, Promoting, Unrecorded
    <3> QED  BY <3>2, <3>3
  <2> QED  BY <1>0, <1>4, <2>1, <2>2, WriteCases
<1>5. ASSUME NEW q \in Requests, Audit(q)
      PROVE  TrailOK(e)'
  <2> DEFINE r == requests[q]
  <2>0. /\ users' = users /\ boot' = boot /\ r.pc = "audit" /\ r.target \in Emails
        /\ \A p \in Requests \ {q} : requests'[p] = requests[p]
        /\ requests'[q].pc = "done"
        /\ trail' = [trail EXCEPT ![r.target] = AfterEvent(trail[r.target], r.kind, r.role)]
    BY <1>0, <1>5 DEF Audit, Record, RequestOK, Working
  <2>1. CASE r.target # e
    <3>1. trail'[e] = trail[e]
      BY <1>0, <2>0, <2>1
    <3> QED  BY <1>2, <2>0, <2>1, <3>1, TrailKept DEF Due, Promoting
  <2>2. CASE r.target = e
    <3>1. boot = "up"
      BY <1>0, <2>0 DEF RequestOK, Working
    <3>2. Due(q, e)
      BY <2>0, <2>2 DEF Due
    <3>3. /\ Tells(e, AfterEvent(trail[e], r.kind, r.role))
          /\ \A p \in Requests : Due(p, e) => p = q
      BY <1>2, <3>2 DEF TrailOK
    <3>4. \A p \in Requests : ~Due(p, e)'
      BY <2>0, <3>3 DEF Due
    <3>5. trail'[e] = AfterEvent(trail[e], r.kind, r.role)
      BY <1>0, <2>0, <2>2
    <3>6. Tells(e, trail[e])'
      BY <2>0, <3>3, <3>5 DEF Tells, TellsRole, TellsState, Present
    <3> QED  BY <2>0, <3>1, <3>4, <3>6 DEF TrailOK, Promoting
  <2> QED  BY <2>1, <2>2
<1>6. ASSUME NEW q \in Requests, Raise(q)
      PROVE  TrailOK(e)'
  <2>1. /\ users' = users /\ trail' = trail /\ boot' = boot
        /\ \A p \in Requests \ {q} : requests'[p] = requests[p]
        /\ requests'[q].pc = "done"
        /\ requests[q].pc = "audit" => requests[q].target # e
    BY <1>0, <1>6 DEF Raise
  <2> QED  BY <1>2, <2>1, TrailKept DEF Due, Promoting
<1>7. CASE Crash
  <2>1. /\ users' = users /\ trail' = trail /\ boot' = "down"
        /\ ~Unrecorded(e) /\ ~Promoting(e)
    BY <1>7 DEF Crash
  <2>2. \A p \in Requests : ~Due(p, e)'
    BY <1>0, <1>7 DEF Crash, Due
  <2>3. Tells(e, trail[e])
    BY <1>2, <2>1 DEF TrailOK
  <2>4. Tells(e, trail[e])'
    BY <2>1, <2>3 DEF Tells, TellsRole, TellsState, Present
  <2> QED  BY <2>1, <2>2, <2>4 DEF TrailOK, Promoting
<1>8. ASSUME NEW d \in Emails, Seed(d)
      PROVE  TrailOK(e)'
  <2>1. /\ users' = [users EXCEPT ![d] = [role |-> DemoRole[d], active |-> TRUE]]
        /\ trail' = trail /\ requests' = requests /\ boot' = boot
        /\ boot = "seeding" /\ d \in DOMAIN DemoRole /\ ~Present(d)
    BY <1>8 DEF Seed, InsertUser
  <2>2. CASE d # e
    <3>1. users'[e] = users[e]
      BY <1>0, <2>1, <2>2
    <3> QED  BY <1>2, <2>1, <3>1, TrailKept DEF Due, Promoting
  <2>3. CASE d = e
    <3>1. ~Unrecorded(e) /\ Tells(e, trail[e])
      BY <1>0, <1>2, <2>1 DEF TrailOK, Promoting
    <3>2. users'[e].role = DemoRole[e] /\ users'[e].active
      BY <1>0, <2>1, <2>3
    <3>3. trail[e].role = None /\ ~trail[e].deactivated
      BY <2>1, <2>3, <3>1 DEF Tells, TellsRole, TellsState, Present
    <3>4. DemoRole[e] # None
      BY <1>0, <2>1, <2>3, AccountsAssumption
    <3>5. Tells(e, trail[e])'
      BY <2>1, <2>3, <3>2, <3>3, <3>4 DEF Tells, TellsRole, TellsState, Present
    <3> QED  BY <2>1, <3>1, <3>5 DEF TrailOK, Promoting, Unrecorded, Due
  <2> QED  BY <2>2, <2>3
<1>9. CASE Promote
  <2>0. requests' = requests /\ trail' = trail /\ boot = "seeding" /\ ~Unrecorded(e)
    BY <1>0, <1>9 DEF Promote
  <2>1. CASE ~NeedsPromotion \/ e # Bootstrap
    <3>1. users'[e] = users[e]
      BY <1>0, <1>9, <2>1 DEF Promote, UpdateRole
    <3>2. ~Promoting(e) /\ ~Promoting(e)'
      BY <1>9, <2>0, <2>1 DEF Promote, Promoting
    <3> QED  BY <1>2, <2>0, <3>1, <3>2, TrailKept DEF Due
  <2>2. CASE NeedsPromotion /\ e = Bootstrap
    <3>1. /\ users' = [users EXCEPT ![e].role = "admin"] /\ boot' = "promoted"
          /\ Present(e)
      BY <1>9, <2>2 DEF Promote, UpdateRole, NeedsPromotion
    <3>2. Tells(e, trail[e])
      BY <1>2, <2>0 DEF TrailOK, Promoting
    <3> DEFINE told == [trail[e] EXCEPT !.role = "admin"]
    <3>3. /\ users'[e].role = "admin" /\ users'[e].active = users[e].active
          /\ told.role = "admin" /\ told.deactivated = trail[e].deactivated
          /\ "admin" # None
      BY <1>0, <3>1, AccountsAssumption DEF UserRec, TrailRec
    <3> HIDE DEF told
    <3>4. TellsRole(e, told)' /\ TellsState(e, told)'
      <4>1. told' = told
        BY <2>0 DEF told
      <4> QED  BY <3>1, <3>2, <3>3, <4>1 DEF Tells, TellsRole, TellsState, Present
    <3>5. AfterEvent(trail'[e], "role", "admin") = told'
      BY <2>0 DEF AfterEvent, told
    <3>6. Tells(e, AfterEvent(trail[e], "role", "admin"))'
      BY <3>4, <3>5 DEF Tells, TellsRole, TellsState
    <3> QED  BY <2>0, <2>2, <3>1, <3>6 DEF TrailOK, Promoting, Unrecorded, Due
  <2> QED  BY <2>1, <2>2
<1>10. CASE RecordPromotion
  <2>0. /\ requests' = requests /\ users' = users /\ boot = "promoted" /\ boot' = "up"
        /\ ~Unrecorded(e)
        /\ trail' = [trail EXCEPT ![Bootstrap] = AfterEvent(trail[Bootstrap], "role", "admin")]
    BY <1>0, <1>10 DEF RecordPromotion, Record
  <2>1. Tells(e, trail[e])'
    <3>1. CASE e = Bootstrap
      <4>1. Tells(e, AfterEvent(trail[e], "role", "admin"))
        BY <1>2, <2>0, <3>1 DEF TrailOK, Promoting
      <4>2. trail'[e] = AfterEvent(trail[e], "role", "admin")
        BY <1>0, <2>0, <3>1
      <4> QED  BY <2>0, <4>1, <4>2 DEF Tells, TellsRole, TellsState, Present
    <3>2. CASE e # Bootstrap
      <4>1. Tells(e, trail[e])
        BY <1>2, <2>0, <3>2 DEF TrailOK, Promoting
      <4>2. trail'[e] = trail[e]
        BY <1>0, <2>0, <3>2
      <4> QED  BY <2>0, <4>1, <4>2 DEF Tells, TellsRole, TellsState, Present
    <3> QED  BY <3>1, <3>2
  <2> QED  BY <2>0, <2>1 DEF TrailOK, Promoting, Unrecorded, Due
<1>11. CASE Start
  BY <1>2, <1>11, TrailKept DEF Start, Due, Promoting
<1>12. CASE UNCHANGED vars
  BY <1>2, <1>12, TrailKept DEF vars, Due, Promoting
<1> QED  BY <1>3, <1>4, <1>5, <1>6, <1>7, <1>8, <1>9, <1>10, <1>11, <1>12 DEF Next, Serve

---------------------------------------------------------------------------
(* IInv is inductive.                                                      *)

\* The invariant holds of an empty table.
LEMMA InitIInv == Init => IInv
<1> SUFFICES ASSUME Init
             PROVE  IInv
  OBVIOUS
<1>1. TypeOK
  <2>1. NoUser \in UserRec /\ NoEvent \in TrailRec /\ NoRequest \in RequestRec
    BY DEF NoUser, NoEvent, NoRequest, UserRec, TrailRec, RequestRec
  <2>2. 0 \in 0..MaxStarts /\ 0 \in 0..MaxFaults
    BY AccountsAssumption
  <2> QED  BY <2>1, <2>2 DEF Init, TypeOK
<1>2. \A q \in Requests : RequestOK(q)
  BY DEF Init, RequestOK, Working, NoRequest
<1>3. AdminRemains
  BY DEF Init, AdminRemains
<1>4. OpensOK /\ OneAccountPerAddress
  BY DEF Init, OpensOK, OneAccountPerAddress, Opens, NoRequest
<1>5. ASSUME NEW e \in Emails
      PROVE  TrailOK(e)
  BY DEF Init, TrailOK, Tells, TellsRole, TellsState, Present, NoUser, NoEvent, NoRequest,
         Promoting, Unrecorded, Due
<1> QED  BY <1>1, <1>2, <1>3, <1>4, <1>5 DEF IInv, Init

\* Every step of a request, a start or the environment keeps the invariant.
LEMMA StepIInv == IInv /\ [Next]_vars => IInv'
<1> SUFFICES ASSUME IInv, [Next]_vars
             PROVE  IInv'
  OBVIOUS
<1>1. TypeOK' /\ \A q \in Requests : RequestOK(q)'
  BY TypeStep, RequestStep DEF IInv
<1>2. AdminRemains' /\ OpensOK' /\ OneAccountPerAddress'
  BY AdminStep, OpensStep DEF IInv
<1>3. \A e \in Emails \ muddled' : TrailOK(e)'
  BY TrailStep
<1>4. boot' = "promoted" => Bootstrap \in Emails /\ Present(Bootstrap)'
  <2>1. CASE boot' = "promoted" /\ boot # "promoted"
    <3>1. NeedsPromotion
      BY <2>1 DEF Next, Serve, Start, Seed, Promote, RecordPromotion, Register, Authorise,
                  Check, Write, Audit, Raise, Crash, vars
    <3> QED  BY <3>1, PresentStays DEF NeedsPromotion, IInv
  <2>2. CASE boot = "promoted"
    BY <2>2, PresentStays DEF IInv
  <2> QED  BY <2>1, <2>2
<1> QED  BY <1>1, <1>2, <1>3, <1>4 DEF IInv

\* The users, the trail and the requests are related as IInv says in every
\* reachable state, whatever interleaves (auth.py:123, auth.py:328).
THEOREM Invariance == Spec => []IInv
  BY InitIInv, StepIInv, PTL DEF Spec

\* Every reachable state of the tables and the requests is well typed.
THEOREM TypeCorrect == Spec => []TypeOK
<1>1. IInv => TypeOK
  BY DEF IInv
<1> QED  BY <1>1, Invariance, PTL

\* Nobody but a caller who was demoted or deactivated while it was under way
\* can leave the users without an administrator.
THEOREM AnAdminRemains == Spec => []AdminRemains
<1>1. IInv => AdminRemains
  BY DEF IInv
<1> QED  BY <1>1, Invariance, PTL

\* One request alone is told that it opened an account.
THEOREM AccountsAreOpenedOnce == Spec => []OneAccountPerAddress
<1>1. IInv => OneAccountPerAddress
  BY DEF IInv
<1> QED  BY <1>1, Invariance, PTL

\* The trail tells every account whose events were neither lost nor reordered.
THEOREM TheTrailTells == Spec => []TrailTellsTheAccount
<1>1. IInv => TrailTellsTheAccount
  BY DEF IInv, TrailOK, TrailTellsTheAccount
<1> QED  BY <1>1, Invariance, PTL
=============================================================================
