------------------------------ MODULE Payments ------------------------------
(***************************************************************************)
(* How a payment becomes credit: Stripe posts an event to stripe_webhook,  *)
(* whose handler looks the event up in stripe_event, adds its award to the *)
(* balance row of the user it names and to the row's mirror in Redis       *)
(* (CreditManager.allocate), appends to the Redis ledger, and commits a    *)
(* credit_ledger row together with the stripe_event row.  Stripe repeats   *)
(* an event until it was answered with 200.                                *)
(*                                                                         *)
(* One action is one transaction or one Redis call, but that the balance   *)
(* is selected in one step and updated in another: nothing locks the row.  *)
(* The tables are those of the migrations, whose keys PostgreSQL enforces. *)
(* An award that rounds to nothing is left out, and so is                  *)
(* CreditManager.deduct, which nothing calls.                              *)
(***************************************************************************)
EXTENDS Naturals, FiniteSets

CONSTANTS
  Handlers,   \* requests the API may serve at the same time
  Events,     \* the events that Stripe sends
  Ignored,    \* those without a tenant or an amount
  UserOf,     \* the user id in an event's metadata; Unreadable: not a number
  Users,      \* the ids of existing users
  Strangers,  \* numbers that are no user's id; 0 stands for a missing one
  Award,      \* the credits an event is worth
  Grant,      \* the credits of a new user
  Budget,     \* how many faults of each kind happen at most
  Unreadable,
  None        \* no event, no row, no key

\* What Budget bounds: deliveries beyond an event's first, failed transactions,
\* failed or timed-out Redis calls, and handlers lost with their process.
Kinds == {"retry", "db", "redis", "crash"}

Accounts == Users \cup Strangers

ASSUME PaymentConstantsOK ==
  /\ IsFiniteSet(Events)
  /\ Ignored \subseteq Events
  /\ UserOf \in [Events -> Accounts \cup {Unreadable}]
  /\ Users \cap Strangers = {} /\ Unreadable \notin Accounts
  /\ Award \in [Events -> Nat \ {0}]
  /\ Grant \in Nat \ {0}
  /\ Budget \in [Kinds -> Nat]
  /\ None \notin Events \cup Nat

VARIABLES
  pc,          \* what each handler does next
  event,       \* the event it handles
  seen,        \* the balance row it read
  balance,     \* the balance row of each user
  mirror,      \* the key credits:<tenant>:user:<user>
  usage,       \* events appended to the Redis ledger
  creditRows,  \* rows of credit_ledger for each event
  recorded,    \* the rows of stripe_event
  sent,        \* the events Stripe has posted
  answered,    \* the events answered with 200, which Stripe posts no more
  budget,      \* what is left of Budget
  opening,     \* history: each user's balance before the first payment
  credited,    \* history: how often an event's award was committed
  overlapped   \* history: accounts that two handlers worked on at once

stripe == <<sent, answered>>
tables == <<creditRows, recorded>>
accounts == <<balance, mirror, credited>>
handler == <<pc, event, seen>>
vars == <<handler, accounts, usage, tables, stripe, budget, opening, overlapped>>

Steps == {"idle", "check", "ignore", "read", "write", "set", "incr", "usage", "record"}

TypeOK ==
  /\ pc \in [Handlers -> Steps]
  /\ event \in [Handlers -> Events \cup {None}]
  /\ seen \in [Handlers -> Nat \cup {None}]
  /\ balance \in [Users -> Nat \cup {None}]
  /\ mirror \in [Accounts -> Nat \cup {None}]
  /\ usage \in [Events -> Nat]
  /\ creditRows \in [Events -> Nat]
  /\ recorded \subseteq Events
  /\ sent \subseteq Events /\ answered \subseteq Events
  /\ budget \in [Kinds -> Nat]
  /\ opening \in [Users -> Nat]
  /\ credited \in [Events -> Nat]
  /\ overlapped \subseteq Accounts

\* Mutant: a missing value is not replaced by 0.
OrZero_Missing(b) == b

\* A balance that may not exist, as the code reads it.
OrZero(b) == IF b = None THEN 0 ELSE b

\* What signing up leaves behind: its allocation of Grant may have failed in the
\* database, in Redis, or in both.
Init ==
  /\ pc = [h \in Handlers |-> "idle"]
  /\ event = [h \in Handlers |-> None]
  /\ seen = [h \in Handlers |-> None]
  /\ balance \in [Users -> {Grant, None}]
  /\ mirror \in [Accounts -> {Grant, None}]
  /\ \A a \in Strangers : mirror[a] = None
  /\ usage = [e \in Events |-> 0]
  /\ creditRows = [e \in Events |-> 0]
  /\ recorded = {} /\ sent = {} /\ answered = {}
  /\ budget = Budget
  /\ opening = [u \in Users |-> OrZero(balance[u])]
  /\ credited = [e \in Events |-> 0]
  /\ overlapped = {}

-----------------------------------------------------------------------------
\* Helpers.

Spend(k) == budget[k] > 0 /\ budget' = [budget EXCEPT ![k] = @ - 1]
Used(k) == Budget[k] - budget[k]

Goto(h, step) == pc' = [pc EXCEPT ![h] = step]

Finish(h) ==
  /\ Goto(h, "idle")
  /\ event' = [event EXCEPT ![h] = None]
  /\ seen' = [seen EXCEPT ![h] = None]

\* The answer 200, which ends the retries of the event.
Answer(h) == Finish(h) /\ answered' = answered \cup {event[h]}

\* The answer 500.
Refuse(h) == Finish(h) /\ UNCHANGED answered

\* The account a handler has not finished with, and the user it names.
UserIn(h) == UserOf[event[h]]
Touches(h, a) == pc[h] # "idle" /\ UserIn(h) = a

\* A call of Redis fails: it took no effect, or it did and its answer was lost,
\* or it timed out and was repeated (retry_on_timeout).
Disturbed == Spend("redis")

\* What SET stores, and what INCR with the award makes of a key.
NewBalance(h) == OrZero(seen[h]) + Award[event[h]]

-----------------------------------------------------------------------------
\* Stripe posts an event, and posts it again until it is answered with 200.
Deliver(h, e) ==
  /\ pc[h] = "idle"
  /\ e \notin answered
  /\ IF e \in sent THEN Spend("retry") ELSE UNCHANGED budget
  /\ sent' = sent \cup {e}
  /\ Goto(h, "check")
  /\ event' = [event EXCEPT ![h] = e]
  /\ overlapped' = overlapped \cup {a \in {UserOf[e]} \cap Accounts :
                                      \E g \in Handlers : Touches(g, a)}
  /\ UNCHANGED <<seen, accounts, usage, tables, answered, opening>>

\* Where a new event goes: a user id that is not a number makes the allocation
\* and the append to the ledger raise before they do anything.
Route(e) ==
  IF e \in Ignored THEN "ignore" ELSE IF UserOf[e] = Unreadable THEN "record" ELSE "read"

\* The look at stripe_event.
Check(h) ==
  /\ pc[h] = "check"
  /\ \/ event[h] \in recorded /\ Answer(h) /\ UNCHANGED budget
     \/ /\ event[h] \notin recorded
        /\ Goto(h, Route(event[h]))
        /\ UNCHANGED <<event, seen, answered, budget>>
     \/ Spend("db") /\ Refuse(h)
  /\ UNCHANGED <<accounts, usage, tables, sent, opening, overlapped>>

\* Mutant: an ignored event is answered and not recorded.
RecordIgnored_Unrecorded(h) ==
  /\ pc[h] = "ignore"
  /\ Answer(h)
  /\ UNCHANGED <<accounts, usage, tables, sent, budget, opening, overlapped>>

\* An event without a tenant or an amount is recorded and no more.
RecordIgnored(h) ==
  /\ pc[h] = "ignore"
  /\ \/ /\ event[h] \notin recorded
        /\ recorded' = recorded \cup {event[h]}
        /\ Answer(h) /\ UNCHANGED budget
     \/ event[h] \in recorded /\ Refuse(h) /\ UNCHANGED <<recorded, budget>>
     \/ Spend("db") /\ Refuse(h) /\ UNCHANGED recorded
  /\ UNCHANGED <<accounts, usage, creditRows, sent, opening, overlapped>>

-----------------------------------------------------------------------------
\* CreditManager.allocate.

\* Mutant: the balance is read from the mirror.
ReadBalance_FromMirror(h) ==
  /\ pc[h] = "read"
  /\ seen' = [seen EXCEPT ![h] = mirror[UserIn(h)]]
  /\ Goto(h, "write")
  /\ UNCHANGED <<event, accounts, usage, tables, stripe, budget, opening, overlapped>>

\* The row is selected; a stranger has none.
ReadBalance(h) ==
  /\ pc[h] = "read"
  /\ \/ /\ seen' = [seen EXCEPT ![h] = IF UserIn(h) \in Users THEN balance[UserIn(h)] ELSE None]
        /\ Goto(h, "write") /\ UNCHANGED budget
     \/ Spend("db") /\ Goto(h, "incr") /\ UNCHANGED seen
  /\ UNCHANGED <<event, accounts, usage, tables, stripe, opening, overlapped>>

\* The unique index and the foreign key of tenant_credit_balance.
MayWrite(h) ==
  UserIn(h) \in Users /\ (seen[h] = None => balance[UserIn(h)] = None)

\* Mutant: the award is added once in the object and once in the statement.
WriteBalance_Twice(h) ==
  /\ pc[h] = "write"
  /\ MayWrite(h)
  /\ balance' = [balance EXCEPT ![UserIn(h)] = NewBalance(h) + Award[event[h]]]
  /\ credited' = [credited EXCEPT ![event[h]] = @ + 1]
  /\ Goto(h, "set")
  /\ UNCHANGED <<event, seen, mirror, usage, tables, stripe, budget, opening, overlapped>>

\* Mutant: an allocation that fails in the database ends the payment's handling
\* at the commit of its records.
WriteBalance_GivesUp(h) ==
  /\ pc[h] = "write"
  /\ Spend("db")
  /\ Goto(h, "record")
  /\ UNCHANGED <<event, seen, accounts, usage, tables, stripe, opening, overlapped>>

\* The commit stores what was read plus the award.  Any failure of it sends the
\* award to the mirror alone.
WriteBalance(h) ==
  /\ pc[h] = "write"
  /\ \/ /\ MayWrite(h)
        /\ balance' = [balance EXCEPT ![UserIn(h)] = NewBalance(h)]
        /\ credited' = [credited EXCEPT ![event[h]] = @ + 1]
        /\ Goto(h, "set") /\ UNCHANGED budget
     \/ ~MayWrite(h) /\ Goto(h, "incr") /\ UNCHANGED <<balance, credited, budget>>
     \/ Spend("db") /\ Goto(h, "incr") /\ UNCHANGED <<balance, credited>>
  /\ UNCHANGED <<event, seen, mirror, usage, tables, stripe, opening, overlapped>>

\* Mutant: the mirror is raised by the award, whatever it held.
SetMirror_Adds(h) ==
  /\ pc[h] = "set"
  /\ mirror' = [mirror EXCEPT ![UserIn(h)] = OrZero(@) + Award[event[h]]]
  /\ Goto(h, "usage")
  /\ UNCHANGED <<event, seen, balance, credited, usage, tables, stripe, budget, opening, overlapped>>

\* SET of the mirror; an error is followed by the INCR below.
SetMirror(h) ==
  /\ pc[h] = "set"
  /\ LET stored == mirror' = [mirror EXCEPT ![UserIn(h)] = NewBalance(h)] IN
       \/ stored /\ Goto(h, "usage") /\ UNCHANGED budget
       \/ Disturbed /\ Goto(h, "incr") /\ (stored \/ UNCHANGED mirror)
  /\ UNCHANGED <<event, seen, balance, credited, usage, tables, stripe, opening, overlapped>>

\* INCR of the mirror; an error of it is swallowed.
IncrMirror(h) ==
  /\ pc[h] = "incr"
  /\ \E n \in 0..2 :
       /\ mirror' = [mirror EXCEPT ![UserIn(h)] =
                       IF n = 0 THEN @ ELSE OrZero(@) + n * Award[event[h]]]
       /\ IF n = 1 THEN UNCHANGED budget ELSE Disturbed
  /\ Goto(h, "usage")
  /\ UNCHANGED <<event, seen, balance, credited, usage, tables, stripe, opening, overlapped>>

-----------------------------------------------------------------------------
\* The rest of the handler.

\* append_usage_event; an error is swallowed.
AppendUsage(h) ==
  /\ pc[h] = "usage"
  /\ \E n \in 0..2 :
       /\ usage' = [usage EXCEPT ![event[h]] = @ + n]
       /\ IF n = 1 THEN UNCHANGED budget ELSE Disturbed
  /\ Goto(h, "record")
  /\ UNCHANGED <<event, seen, accounts, tables, stripe, opening, overlapped>>

\* Mutant: an event that is there already is no error (ON CONFLICT DO NOTHING).
Record_NoConflict(h) ==
  /\ pc[h] = "record"
  /\ UserIn(h) \in Users
  /\ creditRows' = [creditRows EXCEPT ![event[h]] = @ + 1]
  /\ recorded' = recorded \cup {event[h]}
  /\ Answer(h)
  /\ UNCHANGED <<accounts, usage, sent, budget, opening, overlapped>>

\* Mutant: a failed commit is acknowledged, as the handler's comment has it.
Record_Acknowledges(h) ==
  /\ pc[h] = "record"
  /\ Answer(h)
  /\ \/ /\ UserIn(h) \in Users /\ event[h] \notin recorded
        /\ creditRows' = [creditRows EXCEPT ![event[h]] = @ + 1]
        /\ recorded' = recorded \cup {event[h]}
        /\ UNCHANGED budget
     \/ Spend("db") /\ UNCHANGED tables
  /\ UNCHANGED <<accounts, usage, sent, opening, overlapped>>

\* Both rows are inserted by one commit, which the key of stripe_event and the
\* foreign key of credit_ledger may refuse.  The try block encloses the two add
\* calls and not the commit: only a user id that is not a number is swallowed.
Record(h) ==
  /\ pc[h] = "record"
  /\ \/ UserIn(h) = Unreadable /\ Answer(h) /\ UNCHANGED <<tables, budget>>
     \/ /\ UserIn(h) \in Users /\ event[h] \notin recorded
        /\ creditRows' = [creditRows EXCEPT ![event[h]] = @ + 1]
        /\ recorded' = recorded \cup {event[h]}
        /\ Answer(h) /\ UNCHANGED budget
     \/ /\ UserIn(h) \in Strangers \/ (UserIn(h) \in Users /\ event[h] \in recorded)
        /\ Refuse(h) /\ UNCHANGED <<tables, budget>>
     \/ UserIn(h) # Unreadable /\ Spend("db") /\ Refuse(h) /\ UNCHANGED tables
  /\ UNCHANGED <<accounts, usage, sent, opening, overlapped>>

\* The process dies: the event stays unanswered.
Crash(h) ==
  /\ pc[h] # "idle"
  /\ Spend("crash")
  /\ Refuse(h)
  /\ UNCHANGED <<accounts, usage, tables, sent, opening, overlapped>>

-----------------------------------------------------------------------------
Step(h) ==
  \/ Check(h) \/ RecordIgnored(h) \/ ReadBalance(h) \/ WriteBalance(h)
  \/ SetMirror(h) \/ IncrMirror(h) \/ AppendUsage(h) \/ Record(h)

\* Nobody handles an event and Stripe has nothing more to post.
Done == /\ \A h \in Handlers : pc[h] = "idle"
        /\ sent = Events /\ (sent \subseteq answered \/ budget["retry"] = 0)

Next ==
  \/ \E h \in Handlers : Step(h) \/ Crash(h) \/ \E e \in Events : Deliver(h, e)
  \/ Done /\ UNCHANGED vars

Spec == Init /\ [][Next]_vars

-----------------------------------------------------------------------------
(* Properties. *)

\* A stripe_event row and its credit_ledger row come together, once, however
\* often and however concurrently the event is delivered.
LedgerIsExact ==
  \A e \in Events : creditRows[e] = IF e \in recorded \ Ignored THEN 1 ELSE 0

\* Stripe is told 200 only for an event that is on record (or names no user that
\* could be read): no failure on the way loses a payment for good.
AnsweredIsRecorded ==
  \A e \in answered : e \in recorded \/ UserOf[e] = Unreadable

\* What is on record has been appended to the Redis ledger before, unless Redis
\* failed: no error of the database skips the append.
RecordedIsLogged ==
  Used("redis") = 0 => \A e \in recorded \ Ignored : usage[e] > 0

\* What a user is due when each event counts count[e] times: the number of single
\* credits, rather than a sum over the events, so that it can be proved about.
Credits(u, count) ==
  UNION {{e} \X (1..(count[e] * Award[e])) : e \in {f \in Events : UserOf[f] = u}}
Credit(u, count) == Cardinality(Credits(u, count))

\* Races lose credit and never make any: no balance exceeds what it opened with
\* and the awards that were committed to it.
NoCreditFromNothing ==
  \A u \in Users : OrZero(balance[u]) <= opening[u] + Credit(u, credited)

Calm == Used("db") = 0 /\ Used("crash") = 0
At(a, steps) == \E h \in Handlers : pc[h] \in steps /\ UserIn(h) = a

\* An account whose events were handled one after the other, with no transaction
\* and no process failing, holds exactly the awards on record for it, whatever
\* the handlers of other accounts do and Redis fails to do.
SerialIsExact ==
  Calm => \A u \in Users \ overlapped :
    ~At(u, {"set", "incr", "usage", "record"}) =>
      OrZero(balance[u]) = opening[u] + Credit(u, creditRows)

\* The mirror of such an account shows its balance once a payment was credited,
\* unless Redis failed.
MirrorFollows ==
  Calm /\ Used("redis") = 0 => \A u \in Users \ overlapped :
    (\E e \in recorded \ Ignored : UserOf[e] = u) /\ ~At(u, {"set"})
      => mirror[u] = balance[u]

\* "Idempotency (DB stripe_event)" is what the handler's comment calls its look at
\* the table, and "If DB write fails, we still acknowledge to avoid retries storm"
\* is another: no event is credited twice.
CreditedOnce == \A e \in Events : credited[e] <= 1
=============================================================================
