------------------------------- MODULE Signup -------------------------------
(***************************************************************************)
(* Accounts: password_signup and handle_oauth_callback.  A signup reads    *)
(* and writes in several transactions, the API runs in several processes,  *)
(* and nothing locks what a request has read: another request may commit   *)
(* between any two steps.  The database itself holds subdomains and        *)
(* provider ids unique, but not emails, and not the use of an invite.      *)
(*                                                                         *)
(* A person who tries again, or clicks twice, is another request with the  *)
(* same identity.  Callbacks are those of the login mutations; the one     *)
(* that connects a vendor names a tenant in its signed state and is left   *)
(* out.  ENABLE_MULTI_TENANT is on, as it is by default.  Whether an       *)
(* address has signed up before decides nothing, as the refusal is raised  *)
(* inside a try block that passes over it; what is left of that check is   *)
(* that making its table commits or rolls back the session.                *)
(***************************************************************************)
EXTENDS Naturals, FiniteSets

CONSTANTS
  Requests,    \* signups and OAuth callbacks
  Password,    \* those that come with an email and a password
  Identities,
  Who,         \* the email, or the provider id, of a request
  Subdomains,
  Wanted,      \* the subdomain a password signup asks for
  Invites,
  Brings,      \* the invites a request brings: one or none
  MaxFaults    \* bound: requests that fail half-way

ASSUME SignupConstantsOK ==
  /\ Password \subseteq Requests
  /\ Requests \cap Invites = {}
  /\ Who \in [Requests -> Identities]
  /\ Wanted \in [Requests -> Subdomains]
  /\ Brings \in [Requests -> SUBSET Invites]
  /\ \A r \in Requests : Brings[r] = {} \/ \E i \in Invites : Brings[r] = {i}
  /\ MaxFaults \in Nat

OAuth == Requests \ Password
NoTenant == "none"
\* A tenant is named by the request that made it, or by the invite into it.
TenantIds == Requests \cup Invites
Kind(r) == IF r \in Password THEN "password" ELSE "oauth"

VARIABLES
  enforce,   \* MULTI_TENANT_ENFORCE_INVITE
  ipLimit,   \* ENFORCE_SIGNUP_IP_LIMIT
  pc,        \* what each request does next
  tenant,    \* its tenant_id
  sub,       \* the subdomain it found free
  tenants,   \* tenants that are committed
  flushed,   \* tenants in the open transaction of their callback
  users,     \* rows of user
  spent,     \* invites whose used_at is set
  token,     \* the tenant named in the token a request is answered with
  credited,  \* users whose initial credits were allocated
  met,       \* history: pairs of requests in progress at the same time
  broken     \* history: requests that failed between two transactions

db == <<tenants, flushed, users, spent, credited>>
vars == <<enforce, ipLimit, pc, tenant, sub, db, token, met, broken>>

Steps == {"idle", "email", "vpn", "invite", "spend", "check", "tenant", "find", "choose",
          "flush", "address", "create", "insert", "user", "grant", "over"}

User(r, t) == [identity |-> Who[r], kind |-> Kind(r), tenant |-> t, by |-> r]

TypeOK ==
  /\ enforce \in BOOLEAN /\ ipLimit \in BOOLEAN
  /\ pc \in [Requests -> Steps]
  /\ tenant \in [Requests -> TenantIds \cup {NoTenant}]
  /\ sub \in [Requests -> Subdomains]
  /\ tenants \subseteq Requests
  /\ flushed \subseteq OAuth \ tenants
  /\ \A u \in users : /\ u.by \in Requests /\ u.tenant \in TenantIds
                      /\ u.identity = Who[u.by] /\ u.kind = Kind(u.by)
  /\ spent \subseteq Invites
  /\ token \in [Requests -> TenantIds \cup {NoTenant}]
  /\ credited \subseteq Password
  /\ \A m \in met : m \subseteq Requests
  /\ broken \subseteq Requests

Init ==
  /\ enforce \in BOOLEAN /\ ipLimit \in BOOLEAN
  /\ pc = [r \in Requests |-> "idle"]
  /\ tenant = [r \in Requests |-> NoTenant]
  /\ sub = Wanted
  /\ tenants = {} /\ flushed = {} /\ users = {} /\ spent = {} /\ credited = {}
  /\ token = [r \in Requests |-> NoTenant]
  /\ met = {} /\ broken = {}

-----------------------------------------------------------------------------
Active(r) == pc[r] \notin {"idle", "over"}
Go(r, step) == pc' = [pc EXCEPT ![r] = step]
Belongs(r, t) == tenant' = [tenant EXCEPT ![r] = t]

Settings == <<enforce, ipLimit>>

\* A request arrives while others are in progress.
Arrive(r) ==
  /\ pc[r] = "idle"
  /\ Go(r, IF r \in Password THEN "email" ELSE "find")
  /\ met' = met \cup {{r, q} : q \in {x \in Requests : Active(x)}}
  /\ UNCHANGED <<Settings, tenant, sub, db, token, broken>>

Refuse(r) == Go(r, "over") /\ UNCHANGED <<tenant, sub>>

-----------------------------------------------------------------------------
\* Password signup.

SameUser(r) == {u \in users : u.identity = Who[r] /\ u.kind = Kind(r)}

\* "Email already registered", or go on: a user of a provider may have the email too.
LookUpEmail(r) ==
  /\ pc[r] = "email"
  /\ \/ (SameUser(r) # {} \/ \E u \in users : u.kind = "oauth") /\ Refuse(r)
     \/ SameUser(r) = {} /\ Go(r, "vpn") /\ UNCHANGED <<tenant, sub>>
  /\ UNCHANGED <<Settings, db, token, met, broken>>

\* The address is looked at, which is awaited, so that the 15 seconds may be over.
LookAtAddress(r) ==
  /\ pc[r] = "vpn"
  /\ \/ Refuse(r)
     \/ Go(r, IF enforce THEN "invite" ELSE "check") /\ UNCHANGED <<tenant, sub>>
  /\ UNCHANGED <<Settings, db, token, met, broken>>

\* Mutant: used_at is not looked at.
Good_Always(r) == Brings[r] # {}

\* An invite that is unused may still be expired or made out to another email.
Good(r) == Brings[r] \ spent # {}

\* The invite is read; a password signup needs a good one, a callback does not.
ReadInvite(r) ==
  /\ pc[r] = "invite"
  /\ \/ Good(r) /\ Go(r, "spend") /\ UNCHANGED <<tenant, sub>>
     \/ r \in Password /\ Refuse(r)
     \/ r \in OAuth /\ Go(r, "choose") /\ UNCHANGED <<tenant, sub>>
  /\ UNCHANGED <<Settings, db, token, met, broken>>

\* used_at is set and committed, whatever it has become since.
SpendInvite(r) ==
  /\ pc[r] = "spend"
  /\ spent' = spent \cup Brings[r]
  /\ \E i \in Brings[r] : Belongs(r, i)
  /\ Go(r, IF r \in Password THEN "user" ELSE "address")
  /\ UNCHANGED <<Settings, sub, tenants, flushed, users, token, credited, met, broken>>

Taken(s) == \E r \in tenants : sub[r] = s
Locked(s) == \E r \in flushed : sub[r] = s

\* A subdomain that is missing, not valid or taken is refused.
CheckSubdomain(r) ==
  /\ pc[r] = "check"
  /\ \/ Refuse(r)
     \/ ~Taken(sub[r]) /\ Go(r, "tenant") /\ UNCHANGED <<tenant, sub>>
  /\ UNCHANGED <<Settings, db, token, met, broken>>

\* The tenant is committed on its own.  The insert waits for an open transaction
\* with the same subdomain and fails on a committed one.
MakeTenant(r) ==
  /\ pc[r] = "tenant" /\ ~Locked(sub[r])
  /\ \/ Taken(sub[r]) /\ Refuse(r) /\ UNCHANGED tenants
     \/ /\ ~Taken(sub[r])
        /\ tenants' = tenants \cup {r}
        /\ Belongs(r, r) /\ Go(r, "user") /\ UNCHANGED sub
  /\ UNCHANGED <<Settings, flushed, users, spent, token, credited, met, broken>>

\* A password user has a random user_id, and nothing else of it is unique.
MakeUser(r) ==
  /\ pc[r] = "user"
  /\ users' = users \cup {User(r, tenant[r])}
  /\ Go(r, "grant")
  /\ UNCHANGED <<Settings, tenant, sub, tenants, flushed, spent, token, credited, met, broken>>

\* The initial credits are allocated, or their error is passed over, and the
\* request answered; or the 15 seconds are over and it gets a 504.
Grant(r) ==
  /\ pc[r] = "grant"
  /\ credited' = credited \/ credited' = credited \cup {r}
  /\ token' = token \/ token' = [token EXCEPT ![r] = tenant[r]]
  /\ Go(r, "over")
  /\ UNCHANGED <<Settings, tenant, sub, tenants, flushed, users, spent, met, broken>>

-----------------------------------------------------------------------------
\* OAuth callback.

\* Mutant: the callback does not ask for its user.
FindUser_Never(r) ==
  /\ pc[r] = "find"
  /\ Go(r, IF enforce /\ Brings[r] # {} THEN "invite" ELSE "choose")
  /\ UNCHANGED <<tenant, sub>>
  /\ UNCHANGED <<Settings, db, token, met, broken>>

\* The provider has answered and its user is looked up: one that exists keeps its
\* tenant, and is refused an invite into another.
FindUser(r) ==
  /\ pc[r] = "find"
  /\ \/ \E u \in SameUser(r) :
          \/ Belongs(r, u.tenant) /\ Go(r, "create") /\ UNCHANGED sub
          \/ enforce /\ Brings[r] \ {u.tenant} # {} /\ Refuse(r)
     \/ /\ SameUser(r) = {}
        /\ Go(r, IF enforce /\ Brings[r] # {} THEN "invite" ELSE "choose")
        /\ UNCHANGED <<tenant, sub>>
  /\ UNCHANGED <<Settings, db, token, met, broken>>

\* A free subdomain is made from the name, or none that is valid (where the
\* fallback names a variable that does not exist).
Choose(r) ==
  /\ pc[r] = "choose"
  /\ \/ \E s \in Subdomains :
          ~Taken(s) /\ sub' = [sub EXCEPT ![r] = s] /\ Go(r, "flush") /\ UNCHANGED tenant
     \/ Refuse(r)
  /\ UNCHANGED <<Settings, db, token, met, broken>>

\* The tenant is inserted in a transaction that stays open.
Flush(r) ==
  /\ pc[r] = "flush" /\ ~Locked(sub[r])
  /\ \/ Taken(sub[r]) /\ Refuse(r) /\ UNCHANGED flushed
     \/ /\ ~Taken(sub[r])
        /\ flushed' = flushed \cup {r}
        /\ Belongs(r, r) /\ Go(r, "address") /\ UNCHANGED sub
  /\ UNCHANGED <<Settings, tenants, users, spent, token, credited, met, broken>>

\* _ensure_ip_table commits the session or, on an error, rolls it back.
Address(r) ==
  /\ pc[r] = "address"
  /\ \/ UNCHANGED <<tenants, flushed>>
     \/ /\ ipLimit
        /\ flushed' = flushed \ {r}
        /\ tenants' = tenants \/ tenants' = tenants \cup (flushed \cap {r})
  /\ Go(r, "create")
  /\ UNCHANGED <<Settings, tenant, sub, users, spent, token, credited, met, broken>>

\* Mutant: the transaction stays open.
Commit_Open(r) == tenants' = tenants \cup (flushed \cap {r}) /\ UNCHANGED flushed

Commit(r) == tenants' = tenants \cup (flushed \cap {r}) /\ flushed' = flushed \ {r}

\* Mutant: the token always names a tenant of this request's own.
Answer_Own(r) == token' = [token EXCEPT ![r] = r] /\ Go(r, "over")

Answer(r) == token' = [token EXCEPT ![r] = tenant[r]] /\ Go(r, "over")

\* create_user looks again.  A user made meanwhile is brought up to date, and the
\* commit takes the tenant of this callback with it; the token names that tenant.
Create(r) ==
  /\ pc[r] = "create"
  /\ \/ SameUser(r) # {} /\ Commit(r) /\ Answer(r)
     \/ SameUser(r) = {} /\ Go(r, "insert") /\ UNCHANGED <<tenants, flushed, token>>
  /\ UNCHANGED <<Settings, tenant, sub, users, spent, credited, met, broken>>

\* The insert fails on a provider id that exists by now, and on a tenant that was
\* rolled back; the open transaction is lost with it.
Insert(r) ==
  /\ pc[r] = "insert"
  /\ IF SameUser(r) = {} /\ tenant[r] \in tenants \cup flushed \cup Invites
     THEN users' = users \cup {User(r, tenant[r])} /\ Commit(r) /\ Answer(r)
     ELSE /\ flushed' = flushed \ {r}
          /\ Go(r, "over") /\ UNCHANGED <<users, tenants, token>>
  /\ UNCHANGED <<Settings, tenant, sub, spent, credited, met, broken>>

-----------------------------------------------------------------------------
\* The database raises or the process is gone: what is committed stays.
Die(r) ==
  /\ Active(r) /\ Cardinality(broken) < MaxFaults
  /\ flushed' = flushed \ {r}
  /\ broken' = broken \cup {r}
  /\ Go(r, "over")
  /\ UNCHANGED <<Settings, tenant, sub, tenants, users, spent, token, credited, met>>

Next ==
  \E r \in Requests :
    \/ Arrive(r) \/ LookUpEmail(r) \/ LookAtAddress(r) \/ ReadInvite(r) \/ SpendInvite(r)
    \/ CheckSubdomain(r) \/ MakeTenant(r) \/ MakeUser(r) \/ Grant(r)
    \/ FindUser(r) \/ Choose(r) \/ Flush(r) \/ Address(r) \/ Create(r) \/ Insert(r)
    \/ Die(r)

Spec == Init /\ [][Next]_vars

-----------------------------------------------------------------------------
(* Properties. *)

Met(r, q) == {r, q} \in met

\* An email has one password account, and an invite makes one account, unless the
\* requests that made them were in progress at the same time.
OneAccount ==
  \A u, v \in users :
    (u.by # v.by /\ \/ u.kind = "password" /\ v.kind = "password" /\ u.identity = v.identity
                    \/ u.tenant \in Invites /\ u.tenant = v.tenant)
      => Met(u.by, v.by)

\* What request r committed before its user may still come to use, or was lost when
\* r failed half-way or overlapped with a callback of the same person.
MayBeLost(r) ==
  \/ Active(r) \/ r \in broken
  \/ \E q \in OAuth : Met(q, r) /\ Who[q] = Who[r]

\* A tenant nobody can enter is left, with its subdomain gone, and an invite is
\* spent for nothing, only in those ways.
NoOrphans ==
  /\ \A t \in tenants : (\E u \in users : u.tenant = t) \/ MayBeLost(t)
  /\ \A i \in spent :
       \/ \E u \in users : u.tenant = i
       \/ \E r \in Requests : i \in Brings[r] /\ MayBeLost(r)

\* A token names the tenant of its user, unless that user was made by a callback
\* that overlapped with the one answered.
TokensFit ==
  \A r \in Requests : token[r] # NoTenant =>
    \E u \in SameUser(r) : u.tenant = token[r] \/ Met(u.by, r)
=============================================================================
