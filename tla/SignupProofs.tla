---------------------------- MODULE SignupProofs ----------------------------
(***************************************************************************)
(* Theorems of Signup, for any requests, identities, subdomains and        *)
(* invites.                                                                *)
(***************************************************************************)
EXTENDS Signup, TLAPS

-----------------------------------------------------------------------------
(* Types, and which steps are whose. *)

PasswordSteps == {"email", "vpn", "check", "tenant", "user", "grant"}
OAuthSteps == {"find", "choose", "flush", "address", "create", "insert"}

\* The steps at which a request belongs to a tenant, and those before.
Late == {"user", "grant", "address", "create", "insert"}
Early == {"idle", "email", "vpn", "invite", "spend", "check", "tenant", "find", "choose", "flush"}

\* A request goes the way of its kind; it has a tenant of its own only once it belongs
\* to that, and no open transaction when it is over.
Sane(r) ==
  /\ pc[r] \in PasswordSteps => r \in Password
  /\ pc[r] \in OAuthSteps => r \in OAuth
  /\ pc[r] \in Early => r \notin tenants \cup flushed
  /\ pc[r] \in Late => tenant[r] \in TenantIds
  /\ pc[r] \in Late /\ r \in tenants \cup flushed => tenant[r] = r
  /\ pc[r] = "over" => r \notin flushed

\* A user is made by the last step but the answer.
MadeInv == \A u \in users : pc[u.by] \in {"grant", "over"}

TypeInv == TypeOK /\ (\A r \in Requests : Sane(r)) /\ MadeInv

UserType(u) ==
  /\ u.by \in Requests /\ u.tenant \in TenantIds
  /\ u.identity = Who[u.by] /\ u.kind = Kind(u.by)

\* What a step of p leaves to the other requests.
Frame(p) ==
  /\ \A r \in Requests : r # p => pc'[r] = pc[r] /\ tenant'[r] = tenant[r]
  /\ \A r \in Requests : r # p => (r \in tenants' <=> r \in tenants)
                                  /\ (r \in flushed' <=> r \in flushed)
  /\ met \subseteq met' /\ spent \subseteq spent' /\ broken \subseteq broken'
  /\ \/ users' = users
     \/ /\ pc[p] \in {"user", "insert"}
        /\ users' = users \cup {User(p, tenant[p])}
        /\ tenant'[p] = tenant[p] /\ spent' = spent

Act(r) ==
    \/ Arrive(r) \/ LookUpEmail(r) \/ LookAtAddress(r) \/ ReadInvite(r) \/ SpendInvite(r)
    \/ CheckSubdomain(r) \/ MakeTenant(r) \/ MakeUser(r) \/ Grant(r)
    \/ FindUser(r) \/ Choose(r) \/ Flush(r) \/ Address(r) \/ Create(r) \/ Insert(r)
    \/ Die(r)

LEMMA StepFrame ==
  ASSUME TypeOK, NEW p \in Requests, Act(p)
  PROVE  Frame(p)
<1>1. CASE Arrive(p)
  BY <1>1 DEF TypeOK, Frame, Arrive, Go, db
<1>2. CASE LookUpEmail(p) \/ LookAtAddress(p) \/ ReadInvite(p) \/ CheckSubdomain(p)
  BY <1>2 DEF TypeOK, Frame, LookUpEmail, LookAtAddress, ReadInvite, CheckSubdomain, Go,
     Refuse, db
<1>3. CASE SpendInvite(p)
  BY <1>3 DEF TypeOK, Frame, SpendInvite, Go, Belongs
<1>4. CASE MakeTenant(p)
  BY <1>4 DEF TypeOK, Frame, MakeTenant, Go, Belongs, Refuse
<1>5. CASE MakeUser(p) \/ Grant(p)
  BY <1>5 DEF TypeOK, Frame, MakeUser, Grant, Go
<1>6. CASE FindUser(p) \/ Choose(p)
  BY <1>6 DEF TypeOK, Frame, FindUser, Choose, Go, Belongs, Refuse, db
<1>7. CASE Flush(p)
  BY <1>7 DEF TypeOK, Frame, Flush, Go, Belongs, Refuse
<1>8. CASE Address(p)
  BY <1>8 DEF TypeOK, Frame, Address, Go
<1>9. CASE Create(p)
  BY <1>9 DEF TypeOK, Frame, Create, Commit, Answer, Go
<1>10. CASE Insert(p)
  BY <1>10 DEF TypeOK, Frame, Insert, Commit, Answer, Go
<1>11. CASE Die(p)
  BY <1>11 DEF TypeOK, Frame, Die, Go
<1> QED
  BY <1>1, <1>2, <1>3, <1>4, <1>5, <1>6, <1>7, <1>8, <1>9, <1>10, <1>11 DEF Act

LEMMA InviteTypes ==
  /\ Requests \cap Invites = {} /\ Requests \subseteq TenantIds /\ Invites \subseteq TenantIds
  /\ \A r \in Requests : Brings[r] \subseteq Invites
  /\ \A r \in Requests : \A i, j \in Brings[r] : i = j
BY SignupConstantsOK DEF TenantIds

LEMMA UserTypes ==
  ASSUME TypeOK, NEW p \in Requests, tenant[p] \in TenantIds
  PROVE  UserType(User(p, tenant[p]))
BY DEF UserType, User

LEMMA TypeStep ==
  ASSUME TypeInv, NEW p \in Requests, Act(p)
  PROVE  TypeOK' /\ Sane(p)'
<1> USE DEF TypeInv
<1>1. CASE Arrive(p)
  <2>1. \A m \in met' : m \subseteq Requests
    BY <1>1 DEF TypeOK, Arrive
  <2> QED
    BY <1>1, <2>1 DEF TypeOK, Sane, Arrive, Go, db, Settings, Steps, PasswordSteps, OAuthSteps,
       Late, Early, OAuth
<1>2. CASE LookUpEmail(p) \/ LookAtAddress(p) \/ ReadInvite(p) \/ CheckSubdomain(p)
  BY <1>2 DEF TypeOK, Sane, LookUpEmail, LookAtAddress, ReadInvite, CheckSubdomain, Go,
     Refuse, db, Settings, Steps, PasswordSteps, OAuthSteps, Late, Early, OAuth
<1>3. CASE SpendInvite(p)
  <2>1. spent' \subseteq Invites
    BY <1>3, InviteTypes DEF TypeOK, SpendInvite
  <2>2. tenant' \in [Requests -> TenantIds \cup {NoTenant}] /\ tenant'[p] \in TenantIds
    BY <1>3, InviteTypes DEF TypeOK, SpendInvite, Belongs
  <2> QED
    BY <1>3, <2>1, <2>2 DEF TypeOK, Sane, SpendInvite, Go, Settings, Steps,
       PasswordSteps, OAuthSteps, Late, Early, OAuth
<1>4. CASE MakeTenant(p)
  <2>1. p \in Password /\ p \notin flushed
    BY <1>4 DEF TypeOK, Sane, MakeTenant, PasswordSteps, OAuth
  <2> QED
    BY <1>4, <2>1, InviteTypes DEF TypeOK, Sane, MakeTenant, Go, Belongs, Refuse, Settings,
       Steps, PasswordSteps, OAuthSteps, Late, Early, OAuth
<1>5. CASE MakeUser(p) \/ Grant(p)
  <2>1. p \in Password /\ tenant[p] \in TenantIds
    BY <1>5 DEF TypeOK, Sane, MakeUser, Grant, PasswordSteps, Late
  <2>2. \A u \in users' : UserType(u)
    BY <1>5, <2>1, UserTypes DEF TypeOK, MakeUser, Grant, UserType
  <2>3. token' \in [Requests -> TenantIds \cup {NoTenant}]
    BY <1>5, <2>1 DEF TypeOK, MakeUser, Grant
  <2> QED
    BY <1>5, <2>1, <2>2, <2>3 DEF TypeOK, UserType, Sane, MakeUser, Grant, Go, Settings, Steps,
       PasswordSteps, OAuthSteps, Late, Early, OAuth
<1>6. CASE FindUser(p)
  <2>1. p \in OAuth
    BY <1>6 DEF Sane, FindUser, OAuthSteps
  <2>2. \A u \in SameUser(p) : u.tenant \in TenantIds
    BY DEF TypeOK, SameUser
  <2> QED
    BY <1>6, <2>1, <2>2 DEF TypeOK, Sane, FindUser, Go, Belongs, Refuse, db, Settings, Steps,
       PasswordSteps, OAuthSteps, Late, Early, OAuth
<1>7. CASE Choose(p)
  BY <1>7 DEF TypeOK, Sane, Choose, Go, Refuse, db, Settings, Steps,
     PasswordSteps, OAuthSteps, Late, Early, OAuth
<1>8. CASE Flush(p)
  <2>1. p \in OAuth /\ p \notin tenants
    BY <1>8 DEF Sane, Flush, OAuthSteps, Early
  <2> QED
    BY <1>8, <2>1, InviteTypes DEF TypeOK, Sane, Flush, Go, Belongs, Refuse, Settings, Steps,
       PasswordSteps, OAuthSteps, Late, Early, OAuth
<1>9. CASE Address(p)
  BY <1>9 DEF TypeOK, Sane, Address, Go, Settings, Steps,
     PasswordSteps, OAuthSteps, Late, Early, OAuth
<1>10. CASE Create(p)
  BY <1>10 DEF TypeOK, Sane, Create, Commit, Answer, Go, Settings, Steps,
     PasswordSteps, OAuthSteps, Late, Early, OAuth
<1>11. CASE Insert(p)
  <2>1. p \in OAuth /\ tenant[p] \in TenantIds
    BY <1>11 DEF Sane, Insert, OAuthSteps, Late
  <2>2. \A u \in users' : UserType(u)
    BY <1>11, <2>1, UserTypes DEF TypeOK, Insert, UserType
  <2> QED
    BY <1>11, <2>1, <2>2 DEF TypeOK, UserType, Sane, Insert, Commit, Answer, Go, Settings, Steps,
       PasswordSteps, OAuthSteps, Late, Early, OAuth
<1>12. CASE Die(p)
  BY <1>12 DEF TypeOK, Sane, Die, Go, Settings, Steps, Active,
     PasswordSteps, OAuthSteps, Late, Early, OAuth
<1> QED
  BY <1>1, <1>2, <1>3, <1>4, <1>5, <1>6, <1>7, <1>8, <1>9, <1>10, <1>11, <1>12 DEF Act

LEMMA SaneOthers ==
  ASSUME TypeInv, NEW p \in Requests, Frame(p), NEW r \in Requests, r # p
  PROVE  Sane(r)'
BY DEF TypeInv, Sane, Frame

LEMMA MadeStep ==
  ASSUME TypeInv, NEW p \in Requests, Act(p) PROVE MadeInv'
<1>1. Frame(p)
  BY StepFrame DEF TypeInv
<1>2. ASSUME NEW u \in users PROVE pc'[u.by] \in {"grant", "over"}
  <2>1. u.by \in Requests /\ pc[u.by] \in {"grant", "over"}
    BY DEF TypeInv, TypeOK, MadeInv
  <2>2. CASE u.by # p
    BY <1>1, <2>1, <2>2 DEF Frame
  <2>3. CASE u.by = p
    <3>1. Grant(p) \/ Die(p)
      BY <2>1, <2>3 DEF Act, Arrive, LookUpEmail, LookAtAddress, ReadInvite, SpendInvite,
         CheckSubdomain, MakeTenant, MakeUser, FindUser, Choose, Flush, Address, Create, Insert
    <3> QED
      BY <2>3, <3>1 DEF Grant, Die, Go, TypeInv, TypeOK
  <2> QED
    BY <2>2, <2>3
<1>3. CASE users' = users
  BY <1>2, <1>3 DEF MadeInv
<1>4. CASE MakeUser(p)
  BY <1>2, <1>4 DEF MadeInv, MakeUser, Go, User, TypeInv, TypeOK
<1>5. CASE Insert(p)
  BY <1>2, <1>5 DEF MadeInv, Insert, Answer, Go, User, TypeInv, TypeOK
<1> QED
  BY <1>3, <1>4, <1>5 DEF Act, Arrive, LookUpEmail, LookAtAddress, ReadInvite, SpendInvite,
     CheckSubdomain, MakeTenant, Grant, FindUser, Choose, Flush, Address, Create, Die, db

LEMMA Stuttering ==
  ASSUME TypeInv, UNCHANGED vars PROVE TypeInv'
BY DEF TypeInv, TypeOK, Sane, MadeInv, vars, db

LEMMA NextAct == Next <=> \E p \in Requests : Act(p)
BY DEF Next, Act

LEMMA TypeInvStep == ASSUME TypeInv, [Next]_vars PROVE TypeInv'
<1>1. ASSUME NEW p \in Requests, Act(p) PROVE TypeInv'
  BY <1>1, TypeStep, StepFrame, SaneOthers, MadeStep DEF TypeInv
<1> QED
  BY <1>1, NextAct, Stuttering

LEMMA TypeInitially == Init => TypeInv
BY SignupConstantsOK DEF Init, TypeInv, TypeOK, Sane, MadeInv, Steps, Early, Late,
   PasswordSteps, OAuthSteps

LEMMA Typed == Spec => []TypeInv
BY TypeInitially, TypeInvStep, PTL DEF Spec

\* Every state of the signups is well typed: in particular a tenant is never both
\* committed and in an open transaction.
THEOREM SignupTypeCorrect == Spec => []TypeOK
BY Typed, PTL DEF TypeInv

-----------------------------------------------------------------------------
(* What a request knows of the users that others make. *)

\* Requests in progress at the same time have met.
OverlapInv == \A r, q \in Requests : r # q /\ Active(r) /\ Active(q) => Met(q, r)

\* The user of r exists and is in the tenant r belongs to.
Known(r) == \E u \in SameUser(r) : u.tenant = tenant[r]

\* Whoever made a user of the same identity, or used the same invite, has met r.
Alike(r) == \A u \in SameUser(r) : Met(u.by, r)
Sole(r) == \A u \in users : u.tenant = tenant[r] /\ tenant[r] \in Invites => Met(u.by, r)

New == {"vpn", "invite", "spend", "check", "tenant", "user", "choose", "flush", "address"}

\* What r has read holds still, but for requests that it has met.
Claims(r) ==
  /\ pc[r] \in New => Alike(r)
  /\ pc[r] = "spend" => \A u \in users : u.tenant \in Brings[r] => Met(u.by, r)
  /\ pc[r] \in {"user", "address"} => Sole(r)
  /\ pc[r] \in {"create", "insert"} => Known(r) \/ (Alike(r) /\ Sole(r))
  /\ pc[r] = "grant" => Known(r)

\* An invite that anybody belongs to is spent.
Marked(r) == pc[r] \in Late /\ tenant[r] \in Invites => tenant[r] \in spent
MarkedUsers == \A u \in users : u.tenant \in Invites => u.tenant \in spent

ClaimInv ==
  /\ OverlapInv
  /\ \A r \in Requests : Claims(r) /\ Marked(r)
  /\ MarkedUsers

LEMMA MetSymmetric == ASSUME NEW r, NEW q PROVE Met(r, q) <=> Met(q, r)
<1>1. {r, q} = {q, r}
  OBVIOUS
<1> QED
  BY <1>1 DEF Met

LEMMA OverlapStep ==
  ASSUME TypeInv, OverlapInv, NEW p \in Requests, Act(p) PROVE OverlapInv'
<1>1. Frame(p)
  BY StepFrame DEF TypeInv
<1>2. SUFFICES ASSUME NEW r \in Requests, NEW q \in Requests, r # q,
                      Active(r)', Active(q)'
               PROVE  {r, q} \in met'
  BY MetSymmetric DEF OverlapInv, Met
<1>3. ASSUME NEW s \in Requests, Active(s)', ~Active(s)
      PROVE  s = p /\ Arrive(p)
  <2>1. s = p
    BY <1>1, <1>3 DEF Frame, Active
  <2>2. pc[p] \in {"idle", "over"} /\ pc'[p] # pc[p]
    BY <1>3, <2>1 DEF Active
  <2> QED
    BY <2>1, <2>2 DEF Act, LookUpEmail, LookAtAddress, ReadInvite, SpendInvite,
       CheckSubdomain, MakeTenant, MakeUser, Grant, FindUser, Choose, Flush, Address, Create,
       Insert, Die, Active
<1>4. CASE Active(r) /\ Active(q)
  BY <1>1, <1>2, <1>4, MetSymmetric DEF OverlapInv, Met, Frame
<1>5. CASE ~Active(r)
  <2>1. r = p /\ Arrive(p) /\ Active(q)
    BY <1>2, <1>3, <1>5
  <2> QED
    BY <2>1 DEF Arrive
<1>6. CASE ~Active(q)
  <2>1. q = p /\ Arrive(p) /\ Active(r)
    BY <1>2, <1>3, <1>6
  <2>2. {q, r} \in met'
    BY <2>1 DEF Arrive
  <2>3. {q, r} = {r, q}
    OBVIOUS
  <2> QED
    BY <2>2, <2>3
<1> QED
  BY <1>4, <1>5, <1>6

\* The claims of the others: p makes a user only while it is active, so they have met.
LEMMA ClaimsOthers ==
  ASSUME TypeInv, ClaimInv, NEW p \in Requests, Frame(p), NEW r \in Requests, r # p
  PROVE  Claims(r)' /\ Marked(r)'
<1>1. pc'[r] = pc[r] /\ tenant'[r] = tenant[r] /\ spent \subseteq spent'
      /\ \A q : Met(q, r) => Met(q, r)'
  BY DEF Frame, Met
<1>2. ASSUME NEW u \in users', u \notin users, Active(r) PROVE Met(u.by, r)'
  <2>1. u.by = p /\ Active(p)
    BY <1>2 DEF Frame, User, Active
  <2> QED
    BY <1>1, <1>2, <2>1 DEF ClaimInv, OverlapInv
<1>3. users \subseteq users'
  BY DEF Frame
<1>4. SameUser(r) \subseteq SameUser(r)' /\ SameUser(r)' \cap users = SameUser(r)
      /\ SameUser(r)' \subseteq users'
  BY <1>3 DEF SameUser
<1>5. Active(r) /\ Alike(r) => Alike(r)'
  BY <1>1, <1>2, <1>4 DEF Alike
<1>6. Active(r) /\ Sole(r) => Sole(r)'
  BY <1>1, <1>2 DEF Sole
<1>7. Known(r) => Known(r)'
  BY <1>1, <1>4 DEF Known
<1>8. pc[r] = "spend" => \A u \in users' : u.tenant \in Brings[r] => Met(u.by, r)'
  BY <1>1, <1>2 DEF ClaimInv, Claims, Active
<1>9. pc[r] \in New \cup {"user", "address", "create", "insert"} => Active(r)
  BY DEF New, Active
<1> QED
  BY <1>1, <1>5, <1>6, <1>7, <1>8, <1>9 DEF ClaimInv, Claims, Marked

LEMMA MarkedUsersStep ==
  ASSUME TypeInv, ClaimInv, NEW p \in Requests, Frame(p) PROVE MarkedUsers'
<1>1. CASE users' = users
  BY <1>1 DEF ClaimInv, MarkedUsers, Frame
<1>2. CASE /\ pc[p] \in {"user", "insert"} /\ spent' = spent
           /\ users' = users \cup {User(p, tenant[p])}
  <2>1. tenant[p] \in Invites => tenant[p] \in spent
    BY <1>2 DEF ClaimInv, Marked, Late
  <2> QED
    BY <1>2, <2>1 DEF ClaimInv, MarkedUsers, User
<1> QED
  BY <1>1, <1>2 DEF Frame

LEMMA ClaimsOwn ==
  ASSUME TypeInv, ClaimInv, NEW p \in Requests, Act(p)
  PROVE  Claims(p)' /\ Marked(p)'
<1> USE DEF TypeInv
<1>1. Claims(p) /\ Marked(p) /\ MarkedUsers /\ p \in DOMAIN pc /\ p \in DOMAIN tenant
  BY DEF ClaimInv, TypeOK
<1>2. met \subseteq met' /\ spent \subseteq spent'
  BY StepFrame DEF Frame
<1>3. ASSUME users' = users
      PROVE  /\ SameUser(p)' = SameUser(p)
             /\ Alike(p) => Alike(p)'
             /\ tenant'[p] = tenant[p] /\ Sole(p) => Sole(p)'
             /\ tenant'[p] = tenant[p] /\ Known(p) => Known(p)'
             /\ tenant'[p] \notin Invites => Sole(p)'
  BY <1>2, <1>3 DEF SameUser, Alike, Sole, Known, Met
<1>4. CASE Arrive(p)
  BY <1>4 DEF Arrive, Go, TypeOK, Claims, Marked, New, Late
<1>5. CASE LookUpEmail(p)
  <2>1. users' = users
    BY <1>5 DEF LookUpEmail, db
  <2>2. SameUser(p) = {} => Alike(p)'
    BY <1>3, <2>1 DEF Alike
  <2> QED
    BY <1>5, <2>2 DEF LookUpEmail, Go, Refuse, TypeOK, Claims, Marked, New, Late
<1>6. CASE LookAtAddress(p) \/ CheckSubdomain(p) \/ Choose(p)
  <2>1. users' = users /\ Alike(p)
    BY <1>1, <1>6 DEF LookAtAddress, CheckSubdomain, Choose, db, Claims, New
  <2>2. pc'[p] \in {"invite", "check", "tenant", "flush", "over"}
    BY <1>6 DEF LookAtAddress, CheckSubdomain, Choose, Go, Refuse, TypeOK
  <2> QED
    BY <1>3, <2>1, <2>2 DEF Claims, Marked, New, Late
<1>7. CASE ReadInvite(p)
  <2>1. users' = users /\ Alike(p)
    BY <1>1, <1>7 DEF ReadInvite, db, Claims, New
  <2>2. pc'[p] \in {"spend", "choose", "over"}
    BY <1>7 DEF ReadInvite, Go, Refuse, TypeOK
  <2>3. pc'[p] = "spend" => Good(p)
    BY <1>7 DEF ReadInvite, Go, Refuse, TypeOK
  <2>4. Good(p) => \A u \in users : u.tenant \notin Brings[p]
    BY <1>1, InviteTypes DEF Good, MarkedUsers
  <2> QED
    BY <1>3, <2>1, <2>2, <2>3, <2>4 DEF Claims, Marked, New, Late
<1>8. CASE SpendInvite(p)
  <2>1. users' = users /\ Alike(p)
    BY <1>1, <1>8 DEF SpendInvite, Claims, New
  <2>2. tenant'[p] \in Brings[p] /\ Brings[p] \subseteq spent'
    BY <1>8 DEF SpendInvite, Belongs, TypeOK
  <2>3. pc'[p] \in {"user", "address"}
    BY <1>8 DEF SpendInvite, Go, TypeOK
  <2>4. \A u \in users : u.tenant \in Brings[p] => Met(u.by, p)
    BY <1>1, <1>8 DEF SpendInvite, Claims
  <2>5. Sole(p)'
    BY <1>2, <2>1, <2>2, <2>4 DEF Sole, Met
  <2> QED
    BY <1>3, <2>1, <2>2, <2>3, <2>5 DEF Claims, Marked, New
<1>9. CASE MakeTenant(p) \/ Flush(p)
  <2>1. users' = users /\ Alike(p)
    BY <1>1, <1>9 DEF MakeTenant, Flush, Claims, New
  <2>2. pc'[p] = "over" \/ (pc'[p] \in {"user", "address"} /\ tenant'[p] = p)
    BY <1>9 DEF MakeTenant, Flush, Go, Belongs, Refuse, TypeOK
  <2> QED
    BY <1>3, <2>1, <2>2, InviteTypes DEF Claims, Marked, New, Late
<1>10. CASE MakeUser(p)
  <2>1. pc'[p] = "grant" /\ tenant'[p] = tenant[p] /\ spent' = spent
    BY <1>10 DEF MakeUser, Go, TypeOK
  <2>2. User(p, tenant[p]) \in SameUser(p)'
    BY <1>10 DEF MakeUser, SameUser, User
  <2>3. Known(p)'
    BY <2>1, <2>2 DEF Known, User
  <2> QED
    BY <1>1, <1>10, <2>1, <2>3 DEF MakeUser, Claims, Marked, New, Late
<1>11. CASE FindUser(p)
  <2>1. users' = users /\ spent' = spent
    BY <1>11 DEF FindUser, db
  <2>2. ASSUME NEW u \in SameUser(p), Belongs(p, u.tenant), Go(p, "create")
        PROVE  Claims(p)' /\ Marked(p)'
    <3>1. pc'[p] = "create" /\ tenant'[p] = u.tenant
      BY <2>2 DEF Go, Belongs, TypeOK
    <3>2. Known(p)'
      BY <1>3, <2>1, <2>2, <3>1 DEF Known
    <3>3. u \in users
      BY <2>2 DEF SameUser
    <3> QED
      BY <1>1, <2>1, <3>1, <3>2, <3>3 DEF Claims, Marked, MarkedUsers, New
  <2>3. ASSUME SameUser(p) = {} PROVE Alike(p)'
    BY <1>3, <2>1, <2>3 DEF Alike
  <2>4. ASSUME SameUser(p) = {}, pc'[p] \in {"invite", "choose"}
        PROVE  Claims(p)' /\ Marked(p)'
    BY <2>3, <2>4 DEF Claims, Marked, Late
  <2>5. ASSUME Refuse(p) PROVE Claims(p)' /\ Marked(p)'
    BY <2>5 DEF Refuse, Go, TypeOK, Claims, Marked, New, Late
  <2> QED
    BY <1>11, <2>2, <2>4, <2>5 DEF FindUser, Go, TypeOK
<1>12. CASE Address(p)
  <2>1. users' = users /\ tenant' = tenant /\ spent' = spent /\ pc'[p] = "create"
    BY <1>12 DEF Address, Go, TypeOK
  <2>2. Alike(p) /\ Sole(p)
    BY <1>1, <1>12 DEF Address, Claims, New
  <2> QED
    BY <1>1, <1>3, <1>12, <2>1, <2>2 DEF Address, Claims, Marked, New, Late
<1>13. CASE Create(p)
  <2>1. users' = users /\ tenant' = tenant /\ spent' = spent /\ pc[p] = "create"
        /\ pc'[p] \in {"over", "insert"}
    BY <1>13 DEF Create, Answer, Go, TypeOK
  <2> QED
    BY <1>1, <1>3, <2>1 DEF Claims, Marked, New, Late
<1>14. CASE Grant(p) \/ Insert(p) \/ Die(p)
  <2>1. pc'[p] = "over"
    BY <1>14 DEF Grant, Insert, Die, Answer, Go, TypeOK
  <2> QED
    BY <2>1 DEF Claims, Marked, New, Late
<1> QED
  BY <1>4, <1>5, <1>6, <1>7, <1>8, <1>9, <1>10, <1>11, <1>12, <1>13, <1>14 DEF Act

LEMMA ClaimStep == ASSUME TypeInv, ClaimInv, [Next]_vars PROVE ClaimInv'
<1>1. ASSUME NEW p \in Requests, Act(p) PROVE ClaimInv'
  <2>1. Frame(p)
    BY <1>1, StepFrame DEF TypeInv
  <2>2. OverlapInv' /\ MarkedUsers'
    BY <1>1, <2>1, OverlapStep, MarkedUsersStep DEF ClaimInv
  <2>3. \A r \in Requests : Claims(r)' /\ Marked(r)'
    BY <1>1, <2>1, ClaimsOwn, ClaimsOthers
  <2> QED
    BY <2>2, <2>3 DEF ClaimInv
<1>2. ASSUME UNCHANGED vars PROVE ClaimInv'
  BY <1>2 DEF vars, db, ClaimInv, OverlapInv, Claims, Marked, MarkedUsers, Alike, Sole, Known,
     SameUser, Met, Active
<1> QED
  BY <1>1, <1>2, NextAct

LEMMA ClaimInitially == Init => ClaimInv
BY DEF Init, ClaimInv, OverlapInv, Claims, Marked, MarkedUsers, Active, New, Late

LEMMA Claimed == Spec => []ClaimInv
BY ClaimInitially, ClaimStep, Typed, PTL DEF Spec

-----------------------------------------------------------------------------
(* What follows from it. *)

LEMMA AccountStep ==
  ASSUME TypeInv, ClaimInv, OneAccount, [Next]_vars PROVE OneAccount'
<1>1. ASSUME UNCHANGED users, met \subseteq met' PROVE OneAccount'
  BY <1>1 DEF OneAccount, Met
<1>2. ASSUME NEW p \in Requests, pc[p] \in {"user", "insert"}, Frame(p),
             pc[p] = "insert" => SameUser(p) = {},
             users' = users \cup {User(p, tenant[p])}
      PROVE  OneAccount'
  <2>1. Sole(p) /\ (pc[p] = "user" => Alike(p))
    BY <1>2 DEF ClaimInv, Claims, Known, New
  <2>2. pc[p] = "user" => p \in Password
    BY <1>2 DEF TypeInv, Sane, PasswordSteps
  <2>3. pc[p] = "insert" => Kind(p) = "oauth"
    BY <1>2 DEF TypeInv, Sane, OAuthSteps, OAuth, Kind
  <2>4. ASSUME NEW u \in users,
               \/ u.kind = "password" /\ Kind(p) = "password" /\ u.identity = Who[p]
               \/ u.tenant \in Invites /\ u.tenant = tenant[p]
        PROVE  Met(u.by, p)' /\ Met(p, u.by)'
    <3>1. Met(u.by, p)
      BY <1>2, <2>1, <2>3, <2>4 DEF Sole, Alike, SameUser
    <3>2. Met(p, u.by)
      BY <3>1, MetSymmetric
    <3> QED
      BY <1>2, <3>1, <3>2 DEF Frame, Met
  <2>5. \A u, v \in users :
          (u.by # v.by /\ \/ u.kind = "password" /\ v.kind = "password" /\ u.identity = v.identity
                          \/ u.tenant \in Invites /\ u.tenant = v.tenant) => Met(u.by, v.by)'
    BY <1>2 DEF OneAccount, Met, Frame
  <2> QED
    BY <1>2, <2>4, <2>5 DEF OneAccount, User
<1>3. ASSUME NEW p \in Requests, Act(p) PROVE OneAccount'
  <2>1. Frame(p)
    BY <1>3, StepFrame DEF TypeInv
  <2>2. pc[p] = "insert" /\ users' # users => SameUser(p) = {}
    BY <1>3 DEF Act, Arrive, LookUpEmail, LookAtAddress, ReadInvite, SpendInvite,
     CheckSubdomain, MakeTenant, MakeUser, Grant, FindUser, Choose, Flush, Address, Create, Die,
     Insert, db
  <2> QED
    BY <1>1, <1>2, <2>1, <2>2 DEF Frame
<1> QED
  BY <1>1, <1>3, NextAct DEF vars, db

\* Two password accounts of one email, and two accounts of one invite, were made by
\* requests in progress at the same time, and by nothing else.
THEOREM AccountsAreSingle == Spec => []OneAccount
<1>1. Init => OneAccount
  BY DEF Init, OneAccount
<1> QED
  BY <1>1, AccountStep, Typed, Claimed, PTL DEF Spec

LEMMA TokenStep ==
  ASSUME TypeInv, ClaimInv, TokensFit, [Next]_vars PROVE TokensFit'
<1>1. ASSUME UNCHANGED token, users \subseteq users', met \subseteq met' PROVE TokensFit'
  BY <1>1 DEF TokensFit, SameUser, Met
<1>2. ASSUME NEW p \in Requests, Frame(p), token' = [token EXCEPT ![p] = tenant[p]],
             \E u \in SameUser(p)' : u.tenant = tenant[p] \/ Met(u.by, p)'
      PROVE  TokensFit'
  <2>1. users \subseteq users' /\ met \subseteq met'
    BY <1>2 DEF Frame
  <2>2. \A r \in Requests : r # p => token'[r] = token[r]
    BY <1>2 DEF TypeInv, TypeOK
  <2>3. token'[p] = tenant[p]
    BY <1>2 DEF TypeInv, TypeOK
  <2> QED
    BY <1>2, <2>1, <2>2, <2>3 DEF TokensFit, SameUser, Met
<1>3. ASSUME NEW p \in Requests, Act(p) PROVE TokensFit'
  <2>1. Frame(p) /\ users \subseteq users' /\ met \subseteq met'
    BY <1>3, StepFrame DEF TypeInv, Frame
  <2>2. ASSUME NEW u \in SameUser(p), u.tenant = tenant[p] \/ Met(u.by, p)
        PROVE  \E v \in SameUser(p)' : v.tenant = tenant[p] \/ Met(v.by, p)'
    BY <2>1, <2>2 DEF SameUser, Met
  <2>3. CASE Grant(p)
    <3>1. Known(p)
      BY <2>3 DEF Grant, ClaimInv, Claims
    <3> QED
      BY <1>1, <1>2, <2>1, <2>2, <2>3, <3>1 DEF Grant, Known
  <2>4. CASE Create(p)
    <3>1. SameUser(p) # {} => \E u \in SameUser(p) : u.tenant = tenant[p] \/ Met(u.by, p)
      BY <2>4 DEF Create, ClaimInv, Claims, Known, Alike
    <3> QED
      BY <1>1, <1>2, <2>1, <2>2, <2>4, <3>1 DEF Create, Answer
  <2>5. CASE Insert(p)
    <3>1. CASE users' = users \cup {User(p, tenant[p])} /\ Answer(p)
      <4>1. User(p, tenant[p]) \in SameUser(p)'
        BY <3>1 DEF SameUser, User
      <4>2. User(p, tenant[p]).tenant = tenant[p]
        BY DEF User
      <4> QED
        BY <1>2, <2>1, <3>1, <4>1, <4>2 DEF Answer
    <3> QED
      BY <1>1, <2>1, <2>5, <3>1 DEF Insert
  <2>6. CASE Act(p) /\ ~Grant(p) /\ ~Create(p) /\ ~Insert(p)
    BY <1>1, <2>1, <2>6 DEF Act, Arrive, LookUpEmail, LookAtAddress, ReadInvite, SpendInvite,
       CheckSubdomain, MakeTenant, MakeUser, FindUser, Choose, Flush, Address, Die, db
  <2> QED
    BY <1>3, <2>3, <2>4, <2>5, <2>6
<1> QED
  BY <1>1, <1>3, NextAct DEF vars, db

\* A token names the tenant of the user it is for, unless a callback of the same
\* person overlapped with the one that was answered.
THEOREM TokensAlwaysFit == Spec => []TokensFit
<1>1. Init => TokensFit
  BY DEF Init, TokensFit
<1> QED
  BY <1>1, TokenStep, Typed, Claimed, PTL DEF Spec

-----------------------------------------------------------------------------
(* What is committed before the user. *)

Lost(r) == r \in broken \/ \E q \in OAuth : Met(q, r) /\ Who[q] = Who[r]

\* Whoever spent an invite that has no user yet still belongs to it, or is lost.
Spender(r, i) == i \in Brings[r] /\ (Lost(r) \/ (pc[r] \in Late /\ tenant[r] = i))

OrphanInv ==
  /\ \A t \in tenants : (\E u \in users : u.tenant = t) \/ Active(t) \/ Lost(t)
  /\ \A i \in spent : (\E u \in users : u.tenant = i) \/ \E r \in Requests : Spender(r, i)

LEMMA LostStays ==
  ASSUME NEW p \in Requests, Frame(p), NEW r \in Requests, Lost(r) PROVE Lost(r)'
BY DEF Frame, Lost, Met

\* A request that goes on keeps its tenant; one that is over leaves a user in it or is lost.
LEMMA Leaves ==
  ASSUME TypeInv, ClaimInv, NEW p \in Requests, Act(p), pc[p] \in Late,
         tenant[p] \in tenants \cup flushed \cup Invites
  PROVE  \/ pc'[p] \in Late /\ tenant'[p] = tenant[p]
         \/ \E u \in users' : u.tenant = tenant[p]
         \/ Lost(p)'
<1> USE DEF TypeInv
<1>1. Claims(p) /\ Sane(p)
  BY DEF ClaimInv
<1>2. Frame(p) /\ users \subseteq users'
  BY StepFrame DEF Frame
<1>3. CASE MakeUser(p)
  BY <1>3 DEF MakeUser, Go, TypeOK, Late
<1>4. CASE Grant(p)
  <2>1. Known(p)
    BY <1>1, <1>4 DEF Grant, Claims
  <2> QED
    BY <1>2, <2>1 DEF Known, SameUser
<1>5. CASE Address(p)
  BY <1>5 DEF Address, Go, TypeOK, Late
<1>6. ASSUME SameUser(p) # {}, pc[p] \in {"create", "insert"}
      PROVE  (\E u \in users' : u.tenant = tenant[p]) \/ Lost(p)'
  <2>1. CASE Known(p)
    BY <1>2, <2>1 DEF Known, SameUser
  <2>2. CASE Alike(p)
    <3>1. PICK u \in SameUser(p) : Met(u.by, p)
      BY <1>6, <2>2 DEF Alike
    <3>2. u.by \in Requests /\ u.identity = Who[u.by] /\ u.kind = Kind(u.by)
          /\ u.identity = Who[p] /\ u.kind = Kind(p)
      BY DEF TypeOK, SameUser
    <3>3. Kind(p) = "oauth"
      BY <1>1, <1>6 DEF Sane, OAuthSteps, OAuth, Kind
    <3>4. u.by \in OAuth /\ Who[u.by] = Who[p]
      BY <3>2, <3>3 DEF Kind, OAuth
    <3>5. Lost(p)
      BY <3>1, <3>4 DEF Lost
    <3> QED
      BY <1>2, <3>5, LostStays
  <2> QED
    BY <1>1, <1>6, <2>1, <2>2 DEF Claims
<1>7. CASE Create(p)
  <2>1. pc[p] = "create" /\ (SameUser(p) = {} => Go(p, "insert") /\ UNCHANGED tenant)
    BY <1>7 DEF Create
  <2>2. SameUser(p) = {} => pc'[p] \in Late /\ tenant'[p] = tenant[p]
    BY <2>1 DEF Go, TypeOK, Late
  <2> QED
    BY <1>6, <2>1, <2>2
<1>8. CASE Insert(p)
  <2>1. pc[p] = "insert"
    BY <1>8 DEF Insert
  <2>2. CASE SameUser(p) = {}
    <3>1. users' = users \cup {User(p, tenant[p])}
      BY <1>8, <2>2 DEF Insert
    <3>2. User(p, tenant[p]) \in users' /\ User(p, tenant[p]).tenant = tenant[p]
      BY <3>1 DEF User
    <3> QED
      BY <3>2
  <2> QED
    BY <1>6, <2>1, <2>2
<1>9. CASE Die(p)
  BY <1>9 DEF Die, Lost
<1> QED
  BY <1>3, <1>4, <1>5, <1>7, <1>8, <1>9 DEF Act, Late, Arrive, LookUpEmail, LookAtAddress,
     ReadInvite, SpendInvite, CheckSubdomain, MakeTenant, FindUser, Choose, Flush

LEMMA OrphanStep ==
  ASSUME TypeInv, ClaimInv, OrphanInv, [Next]_vars PROVE OrphanInv'
<1> USE DEF TypeInv
<1>1. ASSUME NEW p \in Requests, Act(p) PROVE OrphanInv'
  <2>1. Frame(p) /\ users \subseteq users'
    BY <1>1, StepFrame DEF Frame
  <2>2. Sane(p) /\ Sane(p)' /\ p \in DOMAIN pc /\ pc'[p] \in Steps
    BY <1>1, TypeStep DEF TypeOK
  <2>3. ASSUME NEW t \in tenants'
        PROVE  (\E u \in users' : u.tenant = t) \/ Active(t)' \/ Lost(t)'
    <3>1. t \in Requests
      BY <1>1, <2>3, TypeStep DEF TypeOK
    <3>2. CASE t # p
      <4>1. t \in tenants /\ (Active(t) => Active(t)')
        BY <2>1, <2>3, <3>1, <3>2 DEF Frame, Active
      <4> QED
        BY <2>1, <3>1, <4>1, LostStays DEF OrphanInv
    <3>3. CASE t = p /\ pc[p] \in Late
      <4>1. p \in tenants \cup flushed
        BY <1>1, <2>3, <3>3 DEF Act, Late, Arrive, LookUpEmail, LookAtAddress, ReadInvite,
           SpendInvite, CheckSubdomain, MakeTenant, MakeUser, Grant, FindUser, Choose, Flush,
           Address, Create, Insert, Commit, Die, db
      <4>2. tenant[p] = p
        BY <2>2, <3>3, <4>1 DEF Sane
      <4>3. pc'[p] \in Late => Active(p)'
        BY DEF Late, Active
      <4> QED
        BY <1>1, <3>3, <4>1, <4>2, <4>3, Leaves
    <3>4. CASE t = p /\ pc[p] \notin Late
      <4>1. CASE p \in tenants
        <5>1. pc[p] \notin Early /\ pc[p] \in Steps
          BY <2>2, <4>1 DEF Sane, TypeOK
        <5>2. pc[p] = "over"
          BY <3>4, <5>1 DEF Early, Late, Steps
        <5> QED
          BY <1>1, <5>2 DEF Act, Active, Arrive, LookUpEmail, LookAtAddress, ReadInvite,
             SpendInvite, CheckSubdomain, MakeTenant, MakeUser, Grant, FindUser, Choose, Flush,
             Address, Create, Insert, Die
      <4>2. CASE p \notin tenants
        <5>1. MakeTenant(p)
          BY <1>1, <2>3, <3>4, <4>2 DEF Act, Late, Arrive, LookUpEmail, LookAtAddress,
             ReadInvite, SpendInvite, CheckSubdomain, MakeUser, Grant, FindUser, Choose,
             Flush, Address, Create, Insert, Die, db
        <5>2. pc'[p] = "user"
          BY <2>3, <3>4, <4>2, <5>1 DEF MakeTenant, Go, TypeOK
        <5> QED
          BY <3>4, <5>2 DEF Active
      <4> QED
        BY <4>1, <4>2
    <3> QED
      BY <3>2, <3>3, <3>4
  <2>4. ASSUME NEW i \in spent'
        PROVE  (\E u \in users' : u.tenant = i) \/ \E r \in Requests : Spender(r, i)'
    <3>1. CASE i \notin spent
      <4>1. SpendInvite(p)
        BY <1>1, <2>4, <3>1 DEF Act, Arrive, LookUpEmail, LookAtAddress, ReadInvite,
           CheckSubdomain, MakeTenant, MakeUser, Grant, FindUser, Choose, Flush, Address,
           Create, Insert, Die, db
      <4>2. i \in Brings[p] /\ tenant'[p] \in Brings[p] /\ pc'[p] \in Late
        BY <2>4, <3>1, <4>1 DEF SpendInvite, Belongs, Go, TypeOK, Late
      <4>3. tenant'[p] = i
        BY <4>2, InviteTypes
      <4> QED
        BY <4>2, <4>3 DEF Spender
    <3>2. CASE i \in spent /\ \E u \in users : u.tenant = i
      BY <2>1, <3>2
    <3>3. ASSUME i \in spent, NEW r \in Requests, Spender(r, i)
          PROVE  (\E u \in users' : u.tenant = i) \/ Spender(r, i)'
      <4>1. CASE Lost(r)
        BY <2>1, <3>3, <4>1, LostStays DEF Spender
      <4>2. CASE r # p /\ pc[r] \in Late /\ tenant[r] = i
        BY <2>1, <3>3, <4>2 DEF Frame, Spender
      <4>3. CASE r = p /\ pc[p] \in Late /\ tenant[p] = i
        <5>1. tenant[p] \in Invites
          BY <3>3, <4>3, InviteTypes DEF Spender
        <5> QED
          BY <1>1, <3>3, <4>3, <5>1, Leaves DEF Spender
      <4> QED
        BY <3>3, <4>1, <4>2, <4>3 DEF Spender
    <3> QED
      BY <3>1, <3>2, <3>3 DEF OrphanInv
  <2> QED
    BY <2>3, <2>4 DEF OrphanInv
<1>2. ASSUME UNCHANGED vars PROVE OrphanInv'
  BY <1>2 DEF vars, db, OrphanInv, Active, Lost, Spender, Met
<1> QED
  BY <1>1, <1>2, NextAct

\* A tenant nobody can enter is left, and an invite spent for nothing, only by a
\* request that failed half-way or overlapped with a callback of the same person.
THEOREM OrphansAreExplained == Spec => []NoOrphans
<1>1. Init => OrphanInv
  BY DEF Init, OrphanInv
<1>2. TypeInv /\ OrphanInv => NoOrphans
  BY DEF TypeInv, TypeOK, OrphanInv, NoOrphans, Lost, Spender, MayBeLost, Late, Active
<1> QED
  BY <1>1, <1>2, OrphanStep, Typed, Claimed, PTL DEF Spec
=============================================================================
