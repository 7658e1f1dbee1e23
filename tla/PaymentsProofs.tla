--------------------------- MODULE PaymentsProofs ---------------------------
(***************************************************************************)
(* Proofs about Payments, for any handlers, events, users, awards and      *)
(* budgets: types, the exactness of credit_ledger, that what Stripe was    *)
(* told is done is on record, that races make no credit, and that an       *)
(* account that no two handlers work on at once is exact.                  *)
(***************************************************************************)
EXTENDS Payments, FiniteSetTheorems, TLAPS

\* A busy handler has an event; behind the look at stripe_event it is the kind of
\* event that step is for.
Sane ==
  \A h \in Handlers :
    /\ pc[h] # "idle" => event[h] \in Events
    /\ pc[h] = "ignore" => event[h] \in Ignored
    /\ pc[h] \in {"read", "write", "set", "incr", "usage", "record"} => event[h] \notin Ignored
    /\ pc[h] \in {"read", "write", "set", "incr"} => UserIn(h) \in Accounts

TypeInv == TypeOK /\ Sane

\* The inductive invariant of the two results about records.
LedgerInv == TypeInv /\ LedgerIsExact /\ AnsweredIsRecorded

-----------------------------------------------------------------------------
LEMMA BalanceType ==
  ASSUME NEW b \in Nat \cup {None}
  PROVE  OrZero(b) \in Nat
BY DEF OrZero

LEMMA AwardType ==
  ASSUME NEW e \in Events
  PROVE  Award[e] \in Nat
BY PaymentConstantsOK

LEMMA SpendType ==
  ASSUME TypeOK, NEW k \in Kinds, Spend(k)
  PROVE  budget' \in [Kinds -> Nat]
BY DEF TypeOK, Spend

LEMMA NewBalanceType ==
  ASSUME TypeInv, NEW h \in Handlers, pc[h] # "idle"
  PROVE  NewBalance(h) \in Nat
<1>1. OrZero(seen[h]) \in Nat
  BY BalanceType DEF TypeInv, TypeOK
<1>2. Award[event[h]] \in Nat
  BY AwardType DEF TypeInv, Sane
<1> QED BY <1>1, <1>2 DEF NewBalance

\* A handler that finishes is idle and has no event.
LEMMA FinishType ==
  ASSUME TypeInv, NEW h \in Handlers, Finish(h)
  PROVE  /\ pc' \in [Handlers -> Steps]
         /\ event' \in [Handlers -> Events \cup {None}]
         /\ seen' \in [Handlers -> Nat \cup {None}]
         /\ Sane'
<1>1. /\ pc' \in [Handlers -> Steps]
      /\ event' \in [Handlers -> Events \cup {None}]
      /\ seen' \in [Handlers -> Nat \cup {None}]
  BY DEF TypeInv, TypeOK, Finish, Goto, Steps
<1>2. Sane'
  BY DEF TypeInv, TypeOK, Sane, Finish, Goto, UserIn
<1> QED BY <1>1, <1>2

-----------------------------------------------------------------------------
LEMMA TypeInit ==
  ASSUME Init
  PROVE  TypeInv
<1>1. Grant \in Nat /\ Budget \in [Kinds -> Nat]
  BY PaymentConstantsOK
<1>2. opening \in [Users -> Nat]
  BY <1>1 DEF Init, OrZero
<1>3. balance \in [Users -> Nat \cup {None}] /\ mirror \in [Accounts -> Nat \cup {None}]
  BY <1>1 DEF Init
<1>4. TypeOK
  BY <1>1, <1>2, <1>3 DEF Init, TypeOK, Steps
<1>5. Sane
  BY DEF Init, Sane
<1> QED BY <1>4, <1>5 DEF TypeInv

LEMMA TypeNext ==
  ASSUME TypeInv, [Next]_vars
  PROVE  TypeInv'
<1> USE DEF TypeInv
<1> USE SpendType
<1>1. ASSUME NEW h \in Handlers, NEW e \in Events, Deliver(h, e)
      PROVE  TypeInv'
  <2>1. budget' \in [Kinds -> Nat]
    BY <1>1 DEF Deliver, TypeOK, Kinds
  <2>2. TypeOK'
    BY <1>1, <2>1 DEF Deliver, Goto, TypeOK, Steps, accounts, tables
  <2>3. Sane'
    BY <1>1 DEF Deliver, Goto, TypeOK, Sane, UserIn
  <2> QED BY <2>2, <2>3
<1>2. ASSUME NEW h \in Handlers, Check(h)
      PROVE  TypeInv'
  <2>1. budget' \in [Kinds -> Nat]
    BY <1>2 DEF Check, TypeOK, Kinds
  <2>2. CASE Finish(h) /\ answered' \in {answered, answered \cup {event[h]}}
    <3>1. event[h] \in Events
      BY <1>2 DEF Check, Sane
    <3>2. TypeOK'
      BY <1>2, <2>1, <2>2, <3>1, FinishType DEF Check, TypeOK, accounts, tables
    <3> QED BY <2>2, <3>2, FinishType
  <2>3. CASE Goto(h, Route(event[h])) /\ UNCHANGED <<event, seen, answered>>
    <3>1. event[h] \in Events
      BY <1>2 DEF Check, Sane
    <3>2. UserOf[event[h]] \in Accounts \cup {Unreadable}
      BY <3>1, PaymentConstantsOK
    <3>3. Route(event[h]) \in {"ignore", "record", "read"}
      BY DEF Route
    <3>4. TypeOK'
      BY <1>2, <2>1, <2>3, <3>3 DEF Check, Goto, TypeOK, Steps, accounts, tables
    <3>5. Sane'
      BY <2>3, <3>1, <3>2 DEF Goto, TypeOK, Sane, UserIn, Route
    <3> QED BY <3>4, <3>5
  <2> QED BY <1>2, <2>2, <2>3 DEF Check, Answer, Refuse
<1>3. ASSUME NEW h \in Handlers, RecordIgnored(h)
      PROVE  TypeInv'
  <2>1. event[h] \in Events
    BY <1>3 DEF RecordIgnored, Sane
  <2>2. Finish(h) /\ answered' \in {answered, answered \cup {event[h]}}
    BY <1>3 DEF RecordIgnored, Answer, Refuse
  <2>3. budget' \in [Kinds -> Nat] /\ recorded' \subseteq Events
    BY <1>3, <2>1 DEF RecordIgnored, TypeOK, Kinds
  <2>4. TypeOK'
    BY <1>3, <2>1, <2>2, <2>3, FinishType DEF RecordIgnored, TypeOK, accounts
  <2> QED BY <2>2, <2>4, FinishType
<1>4. ASSUME NEW h \in Handlers, ReadBalance(h)
      PROVE  TypeInv'
  <2>1. budget' \in [Kinds -> Nat]
    BY <1>4 DEF ReadBalance, TypeOK, Kinds
  <2>2. seen' \in [Handlers -> Nat \cup {None}] /\ pc' \in [Handlers -> Steps]
    BY <1>4 DEF ReadBalance, Goto, TypeOK, Steps
  <2>3. TypeOK'
    BY <1>4, <2>1, <2>2 DEF ReadBalance, TypeOK, accounts, tables, stripe
  <2>4. Sane'
    BY <1>4 DEF ReadBalance, Goto, TypeOK, Sane, UserIn
  <2> QED BY <2>3, <2>4
<1>5. ASSUME NEW h \in Handlers, WriteBalance(h)
      PROVE  TypeInv'
  <2>1. budget' \in [Kinds -> Nat]
    BY <1>5 DEF WriteBalance, TypeOK, Kinds
  <2>2. NewBalance(h) \in Nat
    BY <1>5, NewBalanceType DEF WriteBalance
  <2>3. /\ balance' \in [Users -> Nat \cup {None}]
        /\ credited' \in [Events -> Nat]
        /\ pc' \in [Handlers -> Steps]
    BY <1>5, <2>2 DEF WriteBalance, Goto, TypeOK, Steps
  <2>4. TypeOK'
    BY <1>5, <2>1, <2>3 DEF WriteBalance, TypeOK, tables, stripe
  <2>5. Sane'
    BY <1>5 DEF WriteBalance, Goto, TypeOK, Sane, UserIn
  <2> QED BY <2>4, <2>5
<1>6. ASSUME NEW h \in Handlers, SetMirror(h)
      PROVE  TypeInv'
  <2>1. budget' \in [Kinds -> Nat]
    BY <1>6 DEF SetMirror, Disturbed, TypeOK, Kinds
  <2>2. NewBalance(h) \in Nat
    BY <1>6, NewBalanceType DEF SetMirror
  <2>3. mirror' \in [Accounts -> Nat \cup {None}] /\ pc' \in [Handlers -> Steps]
    BY <1>6, <2>2 DEF SetMirror, Goto, TypeOK, Steps
  <2>4. TypeOK'
    BY <1>6, <2>1, <2>3 DEF SetMirror, TypeOK, tables, stripe
  <2>5. Sane'
    BY <1>6 DEF SetMirror, Goto, TypeOK, Sane, UserIn
  <2> QED BY <2>4, <2>5
<1>7. ASSUME NEW h \in Handlers, IncrMirror(h)
      PROVE  TypeInv'
  <2>1. budget' \in [Kinds -> Nat]
    BY <1>7 DEF IncrMirror, Disturbed, TypeOK, Kinds
  <2>2. UserIn(h) \in Accounts /\ Award[event[h]] \in Nat
    BY <1>7, AwardType DEF IncrMirror, Sane
  <2>3. OrZero(mirror[UserIn(h)]) \in Nat
    BY <2>2, BalanceType DEF TypeOK
  <2>4. mirror' \in [Accounts -> Nat \cup {None}]
    <3>1. PICK n \in 0..2 :
            mirror' = [mirror EXCEPT ![UserIn(h)] =
                         IF n = 0 THEN @ ELSE OrZero(@) + n * Award[event[h]]]
      BY <1>7 DEF IncrMirror
    <3>2. OrZero(mirror[UserIn(h)]) + n * Award[event[h]] \in Nat
      BY <2>2, <2>3
    <3> QED BY <3>1, <3>2, <2>2 DEF TypeOK
  <2>5. TypeOK'
    BY <1>7, <2>1, <2>4 DEF IncrMirror, Goto, TypeOK, Steps, tables, stripe
  <2>6. Sane'
    BY <1>7 DEF IncrMirror, Goto, TypeOK, Sane, UserIn
  <2> QED BY <2>5, <2>6
<1>8. ASSUME NEW h \in Handlers, AppendUsage(h)
      PROVE  TypeInv'
  <2>1. budget' \in [Kinds -> Nat]
    BY <1>8 DEF AppendUsage, Disturbed, TypeOK, Kinds
  <2>2. usage' \in [Events -> Nat]
    <3>1. PICK n \in 0..2 : usage' = [usage EXCEPT ![event[h]] = @ + n]
      BY <1>8 DEF AppendUsage
    <3>2. \A e \in Events : usage[e] + n \in Nat
      BY DEF TypeOK
    <3> QED BY <3>1, <3>2 DEF TypeOK
  <2>3. TypeOK'
    BY <1>8, <2>1, <2>2 DEF AppendUsage, Goto, TypeOK, Steps, accounts, tables, stripe
  <2>4. Sane'
    BY <1>8 DEF AppendUsage, Goto, TypeOK, Sane, UserIn
  <2> QED BY <2>3, <2>4
<1>9. ASSUME NEW h \in Handlers, Record(h)
      PROVE  TypeInv'
  <2>1. event[h] \in Events
    BY <1>9 DEF Record, Sane
  <2>2. Finish(h) /\ answered' \in {answered, answered \cup {event[h]}}
    BY <1>9 DEF Record, Answer, Refuse
  <2>3. /\ budget' \in [Kinds -> Nat]
        /\ recorded' \subseteq Events
        /\ creditRows' \in [Events -> Nat]
    BY <1>9, <2>1 DEF Record, TypeOK, Kinds, tables
  <2>4. TypeOK'
    BY <1>9, <2>1, <2>2, <2>3, FinishType DEF Record, TypeOK, accounts
  <2> QED BY <2>2, <2>4, FinishType
<1>10. ASSUME NEW h \in Handlers, Crash(h)
       PROVE  TypeInv'
  <2>1. budget' \in [Kinds -> Nat]
    BY <1>10 DEF Crash, TypeOK, Kinds
  <2>2. Finish(h) /\ answered' = answered
    BY <1>10 DEF Crash, Refuse
  <2>3. TypeOK'
    BY <1>10, <2>1, <2>2, FinishType DEF Crash, TypeOK, accounts, tables
  <2> QED BY <2>2, <2>3, FinishType
<1>11. CASE UNCHANGED vars
  BY <1>11 DEF vars, handler, accounts, tables, stripe, TypeOK, Sane, UserIn
<1> QED
  BY <1>1, <1>2, <1>3, <1>4, <1>5, <1>6, <1>7, <1>8, <1>9, <1>10, <1>11 DEF Next, Step

\* Every state is well typed, for any constants; Sane is what makes it inductive.
THEOREM PaymentsTypeCorrect == Spec => []TypeOK
<1>1. Init => TypeInv
  BY TypeInit
<1>2. TypeInv /\ [Next]_vars => TypeInv'
  BY TypeNext
<1>3. TypeInv => TypeOK
  BY DEF TypeInv
<1> QED BY <1>1, <1>2, <1>3, PTL DEF Spec

-----------------------------------------------------------------------------
LEMMA LedgerInit ==
  ASSUME Init
  PROVE  LedgerInv
<1>1. LedgerIsExact /\ AnsweredIsRecorded
  BY DEF Init, LedgerIsExact, AnsweredIsRecorded
<1> QED BY <1>1, TypeInit DEF LedgerInv

\* What touches neither the tables nor the answers keeps both results.
LEMMA LedgerUntouched ==
  ASSUME LedgerInv, TypeInv', UNCHANGED <<creditRows, recorded, answered>>
  PROVE  LedgerInv'
BY DEF LedgerInv, LedgerIsExact, AnsweredIsRecorded

LEMMA LedgerNext ==
  ASSUME LedgerInv, [Next]_vars
  PROVE  LedgerInv'
<1>1. TypeInv /\ TypeInv'
  BY TypeNext DEF LedgerInv
<1>2. ASSUME NEW h \in Handlers, Check(h)
      PROVE  LedgerInv'
  <2>1. UNCHANGED tables /\ answered' \in {answered, answered \cup (recorded \cap {event[h]})}
    BY <1>2 DEF Check, Answer, Refuse
  <2> QED
    BY <1>1, <2>1 DEF LedgerInv, LedgerIsExact, AnsweredIsRecorded, tables
<1>3. ASSUME NEW h \in Handlers, RecordIgnored(h)
      PROVE  LedgerInv'
  <2>1. event[h] \in Events /\ event[h] \in Ignored
    BY <1>1, <1>3 DEF RecordIgnored, TypeInv, Sane
  <2>2. CASE recorded' = recorded \cup {event[h]} /\ answered' = answered \cup {event[h]}
    BY <1>1, <1>3, <2>1, <2>2 DEF RecordIgnored, LedgerInv, LedgerIsExact, AnsweredIsRecorded
  <2>3. CASE UNCHANGED <<recorded, answered>>
    BY <1>1, <1>3, <2>3, LedgerUntouched DEF RecordIgnored
  <2> QED BY <1>3, <2>2, <2>3 DEF RecordIgnored, Answer, Refuse
<1>4. ASSUME NEW h \in Handlers, Record(h)
      PROVE  LedgerInv'
  <2>1. event[h] \in Events /\ event[h] \notin Ignored
    BY <1>1, <1>4 DEF Record, TypeInv, Sane
  <2>2. CASE UserIn(h) = Unreadable /\ Answer(h) /\ UNCHANGED tables
    BY <1>1, <2>2 DEF Answer, UserIn, LedgerInv, LedgerIsExact, AnsweredIsRecorded, tables
  <2>3. CASE /\ event[h] \notin recorded
             /\ creditRows' = [creditRows EXCEPT ![event[h]] = @ + 1]
             /\ recorded' = recorded \cup {event[h]}
             /\ Answer(h)
    <3>1. LedgerIsExact'
      BY <1>1, <2>1, <2>3 DEF LedgerInv, LedgerIsExact, TypeInv, TypeOK
    <3>2. AnsweredIsRecorded'
      BY <2>3 DEF Answer, LedgerInv, AnsweredIsRecorded
    <3> QED BY <1>1, <3>1, <3>2 DEF LedgerInv
  <2>4. CASE Refuse(h) /\ UNCHANGED tables
    BY <1>1, <2>4, LedgerUntouched DEF Refuse, tables
  <2> QED BY <1>4, <2>2, <2>3, <2>4 DEF Record
<1>5. ASSUME NEW h \in Handlers,
             \/ ReadBalance(h) \/ WriteBalance(h) \/ SetMirror(h) \/ IncrMirror(h)
             \/ AppendUsage(h) \/ Crash(h) \/ \E e \in Events : Deliver(h, e)
      PROVE  LedgerInv'
  <2>1. UNCHANGED <<creditRows, recorded, answered>>
    BY <1>5 DEF ReadBalance, WriteBalance, SetMirror, IncrMirror, AppendUsage, Crash,
                Refuse, Deliver, tables, stripe
  <2> QED BY <1>1, <2>1, LedgerUntouched
<1>6. CASE UNCHANGED vars
  BY <1>1, <1>6, LedgerUntouched DEF vars, tables, stripe
<1> QED BY <1>2, <1>3, <1>4, <1>5, <1>6 DEF Next, Step

\* The two rows of a payment come together and once, for any number of handlers,
\* deliveries, failures and crashes.
THEOREM LedgerIsAlwaysExact == Spec => []LedgerIsExact
<1>1. Init => LedgerInv
  BY LedgerInit
<1>2. LedgerInv /\ [Next]_vars => LedgerInv'
  BY LedgerNext
<1>3. LedgerInv => LedgerIsExact
  BY DEF LedgerInv
<1> QED BY <1>1, <1>2, <1>3, PTL DEF Spec

\* An event that Stripe will not post again is on record, unless its user id could
\* not be read.
THEOREM AnsweredIsAlwaysRecorded == Spec => []AnsweredIsRecorded
<1>1. Init => LedgerInv
  BY LedgerInit
<1>2. LedgerInv /\ [Next]_vars => LedgerInv'
  BY LedgerNext
<1>3. LedgerInv => AnsweredIsRecorded
  BY DEF LedgerInv
<1> QED BY <1>1, <1>2, <1>3, PTL DEF Spec

-----------------------------------------------------------------------------
(* What is said of runs without failures. *)

\* The budget only shrinks.
Within == \A k \in Kinds : budget[k] <= Budget[k]

LEMMA SpendFalls ==
  ASSUME TypeOK, NEW k \in Kinds, Spend(k)
  PROVE  budget'[k] < budget[k] /\ \A i \in Kinds : budget'[i] <= budget[i]
BY DEF TypeOK, Spend

\* A step without a failure keeps the budget, and each failure takes from its own kind.
LEMMA BudgetFalls ==
  ASSUME TypeOK, [Next]_vars
  PROVE  \A k \in Kinds : budget'[k] <= budget[k]
<1>1. budget' = budget \/ \E k \in Kinds : Spend(k)
  BY DEF Next, Step, Deliver, Check, RecordIgnored, ReadBalance, WriteBalance, SetMirror,
         IncrMirror, AppendUsage, Record, Crash, Disturbed, Kinds, vars
<1> QED BY <1>1, SpendFalls DEF TypeOK

LEMMA WithinNext ==
  ASSUME TypeInv, Within, [Next]_vars
  PROVE  /\ Within'
         /\ \A k \in Kinds : Used(k)' = 0 => Used(k) = 0 /\ ~Spend(k)
<1>1. \A k \in Kinds : /\ budget'[k] <= budget[k] /\ budget[k] \in Nat /\ Budget[k] \in Nat
                       /\ budget'[k] \in Nat
  BY BudgetFalls, TypeNext, PaymentConstantsOK DEF TypeInv, TypeOK
<1>2. \A k \in Kinds : Spend(k) => budget'[k] < budget[k]
  BY SpendFalls DEF TypeInv
<1> QED BY <1>1, <1>2 DEF Within, Used

\* A step of one handler leaves the others where they are.
LEMMA OnlyOne ==
  ASSUME TypeOK, NEW h \in Handlers,
         Step(h) \/ Crash(h) \/ \E e \in Events : Deliver(h, e)
  PROVE  \A g \in Handlers \ {h} :
           pc'[g] = pc[g] /\ event'[g] = event[g] /\ seen'[g] = seen[g]
<1>1. CASE Finish(h)
  BY <1>1 DEF TypeOK, Finish, Goto
<1>2. CASE \E e \in Events : Deliver(h, e)
  BY <1>2 DEF TypeOK, Deliver, Goto
<1>3. CASE Step(h) /\ ~Finish(h)
  BY <1>3 DEF TypeOK, Step, Check, RecordIgnored, ReadBalance, WriteBalance, SetMirror,
              IncrMirror, AppendUsage, Record, Answer, Refuse, Goto
<1> QED BY <1>1, <1>2, <1>3 DEF Crash, Refuse

\* An event that is about to be recorded has been appended to the Redis ledger.
LogInv ==
  Used("redis") = 0 =>
    /\ \A h \in Handlers : pc[h] = "record" /\ UserIn(h) # Unreadable => usage[event[h]] > 0
    /\ \A e \in recorded \ Ignored : usage[e] > 0

LEMMA LogNext ==
  ASSUME TypeInv, Within, LogInv, [Next]_vars
  PROVE  LogInv'
<1> USE DEF TypeInv
<1>1. SUFFICES ASSUME Used("redis")' = 0 PROVE LogInv'
  BY DEF LogInv
<1>2. Used("redis") = 0 /\ ~Spend("redis")
  BY <1>1, WithinNext DEF Kinds
<1>3. CASE UNCHANGED vars
  BY <1>2, <1>3 DEF LogInv, vars, handler, tables, UserIn
<1>4. ASSUME NEW h \in Handlers,
             Step(h) \/ Crash(h) \/ \E e \in Events : Deliver(h, e)
      PROVE  LogInv'
  <2>1. \A g \in Handlers \ {h} : pc'[g] = pc[g] /\ event'[g] = event[g]
    BY <1>4, OnlyOne
  <2>2. CASE AppendUsage(h)
    <3>1. usage' = [usage EXCEPT ![event[h]] = @ + 1]
      BY <1>2, <2>2 DEF AppendUsage, Disturbed
    <3>2. event[h] \in Events /\ event'[h] = event[h] /\ recorded' = recorded
      BY <2>2 DEF AppendUsage, Sane, tables
    <3>3. \A e \in Events : usage'[e] \in Nat /\ usage'[e] >= usage[e] /\ usage[e] \in Nat
      BY <3>1, <3>2 DEF TypeOK
    <3>4. usage'[event[h]] > 0
      BY <3>1, <3>2 DEF TypeOK
    <3>5. \A g \in Handlers : pc[g] = "record" => event[g] \in Events
      BY DEF Sane
    <3> QED BY <1>2, <2>1, <3>2, <3>3, <3>4, <3>5 DEF LogInv, UserIn, TypeOK
  <2>3. CASE Record(h)
    <3>1. usage' = usage /\ (pc'[h] = "idle")
      BY <2>3 DEF Record, Answer, Refuse, Finish, Goto, TypeOK
    <3>2. recorded' = recorded \/ (UserIn(h) \in Users /\ recorded' = recorded \cup {event[h]})
      BY <2>3 DEF Record, tables
    <3>3. UserIn(h) \in Users => UserIn(h) # Unreadable
      BY PaymentConstantsOK DEF Accounts
    <3> QED BY <1>2, <2>1, <2>3, <3>1, <3>2, <3>3 DEF LogInv, UserIn, Record
  <2>4. CASE RecordIgnored(h)
    <3>1. usage' = usage /\ pc'[h] = "idle"
      BY <2>4 DEF RecordIgnored, Answer, Refuse, Finish, Goto, TypeOK
    <3>2. recorded' \ Ignored = recorded \ Ignored
      BY <2>4 DEF RecordIgnored, Sane
    <3> QED BY <1>2, <2>1, <3>1, <3>2 DEF LogInv, UserIn
  <2>5. CASE Check(h)
    <3>1. usage' = usage /\ recorded' = recorded
      BY <2>5 DEF Check, tables
    <3>2. pc'[h] = "record" => UserOf[event[h]] = Unreadable /\ event'[h] = event[h]
      BY <2>5 DEF Check, Answer, Refuse, Finish, Goto, Route, TypeOK
    <3> QED BY <1>2, <2>1, <3>1, <3>2 DEF LogInv, UserIn
  <2>6. CASE \/ ReadBalance(h) \/ WriteBalance(h) \/ SetMirror(h) \/ IncrMirror(h)
             \/ Crash(h) \/ \E e \in Events : Deliver(h, e)
    <3>1. usage' = usage /\ recorded' = recorded /\ pc'[h] # "record"
      BY <2>6 DEF ReadBalance, WriteBalance, SetMirror, IncrMirror, Crash, Refuse, Finish,
                  Deliver, Goto, TypeOK, tables
    <3> QED BY <1>2, <2>1, <3>1 DEF LogInv, UserIn
  <2> QED BY <1>4, <2>2, <2>3, <2>4, <2>5, <2>6 DEF Step
<1> QED BY <1>3, <1>4 DEF Next

LEMMA WithinInit == ASSUME Init PROVE Within
BY PaymentConstantsOK DEF Init, Within

\* No failure but one of Redis keeps a recorded payment out of the Redis ledger.
THEOREM RecordedIsAlwaysLogged == Spec => []RecordedIsLogged
<1>1. Init => TypeInv /\ Within /\ LogInv
  BY TypeInit, WithinInit DEF Init, LogInv
<1>2. TypeInv /\ Within /\ LogInv /\ [Next]_vars => (TypeInv /\ Within /\ LogInv)'
  BY TypeNext, WithinNext, LogNext
<1>3. LogInv => RecordedIsLogged
  BY DEF LogInv, RecordedIsLogged
<1> QED BY <1>1, <1>2, <1>3, PTL DEF Spec

-----------------------------------------------------------------------------
(* The mirror of an account that is handled serially. *)

Followed(u) == mirror[u] = balance[u]

\* How far the one handler of such an account is.
Keeps(h, u) ==
  /\ pc[h] = "write" => seen[h] = balance[u]
  /\ pc[h] = "set" => balance[u] = NewBalance(h)
  /\ pc[h] # "incr"
  /\ pc[h] \in {"usage", "record"} => Followed(u)

Serial(u) ==
  /\ \A g, h \in Handlers : Touches(g, u) /\ Touches(h, u) => g = h
  /\ \A h \in Handlers : Touches(h, u) => Keeps(h, u)
  /\ (\E e \in recorded \ Ignored : UserOf[e] = u) /\ ~At(u, {"set"}) => Followed(u)

MirrorInv == Calm /\ Used("redis") = 0 => \A u \in Users \ overlapped : Serial(u)

\* A step that concerns another account leaves a serial one serial.
LEMMA Elsewhere ==
  ASSUME TypeOK, NEW u \in Users, Serial(u), NEW h \in Handlers,
         ~Touches(h, u), ~Touches(h, u)',
         \A g \in Handlers \ {h} : pc'[g] = pc[g] /\ event'[g] = event[g] /\ seen'[g] = seen[g],
         mirror'[u] = mirror[u], balance'[u] = balance[u],
         \A e \in recorded' \ recorded : UserOf[e] # u \/ e \in Ignored
  PROVE  Serial(u)'
<1>1. \A g \in Handlers : Touches(g, u)' => g # h /\ Touches(g, u)
  BY DEF Touches, UserIn
<1>2. \A g \in Handlers : Touches(g, u)' => Keeps(g, u)'
  BY <1>1 DEF Serial, Keeps, NewBalance, Followed
<1>3. At(u, {"set"}) => At(u, {"set"})'
  BY DEF At, Touches, UserIn
<1> QED BY <1>1, <1>2, <1>3 DEF Serial, Followed

LEMMA MirrorNext ==
  ASSUME TypeInv, Within, MirrorInv, [Next]_vars
  PROVE  MirrorInv'
<1> USE DEF TypeInv
<1>1. SUFFICES ASSUME Calm', Used("redis")' = 0, NEW u \in Users, u \notin overlapped'
               PROVE  Serial(u)'
  BY DEF MirrorInv
<1>2. /\ Calm /\ Used("redis") = 0
      /\ ~Spend("db") /\ ~Spend("redis") /\ ~Spend("crash")
  BY <1>1, WithinNext DEF Kinds, Calm
<1>3. u \notin overlapped
  BY <1>1 DEF Next, Step, Deliver, Check, RecordIgnored, ReadBalance, WriteBalance,
     SetMirror, IncrMirror, AppendUsage, Record, Crash, vars
<1>4. Serial(u)
  BY <1>2, <1>3 DEF MirrorInv
<1>5. CASE UNCHANGED vars
  BY <1>4, <1>5 DEF Serial, Keeps, Followed, Touches, At, UserIn, NewBalance, vars, handler,
     accounts, tables
<1>6. ASSUME NEW h \in Handlers, Step(h) \/ \E e \in Events : Deliver(h, e)
      PROVE  Serial(u)'
  <2>1. \A g \in Handlers \ {h} :
          pc'[g] = pc[g] /\ event'[g] = event[g] /\ seen'[g] = seen[g]
    BY <1>6, OnlyOne
  <2>2. CASE ~Touches(h, u) /\ ~Touches(h, u)'
    <3>1. pc[h] # "idle" => UserIn(h) # u
      BY <2>2 DEF Touches
    <3>2. mirror'[u] = mirror[u] /\ balance'[u] = balance[u]
      BY <1>6, <3>1 DEF Step, Deliver, Check, RecordIgnored, ReadBalance, WriteBalance,
         SetMirror, IncrMirror, AppendUsage, Record, accounts, TypeOK, Accounts
    <3>3. \A e \in recorded' \ recorded : UserOf[e] # u \/ e \in Ignored
      BY <1>6, <3>1 DEF Step, Deliver, Check, RecordIgnored, ReadBalance, WriteBalance,
         SetMirror, IncrMirror, AppendUsage, Record, tables, UserIn
    <3> QED BY <1>4, <2>1, <2>2, <3>2, <3>3, Elsewhere
  <2>3. CASE \E e \in Events : Deliver(h, e)
    <3>1. PICK e \in Events : Deliver(h, e)
      BY <2>3
    <3>2. UserOf[e] = u => \A g \in Handlers : ~Touches(g, u)
      BY <1>1, <3>1 DEF Deliver, Accounts
    <3>3. pc'[h] = "check" /\ event'[h] = e /\ pc[h] = "idle"
          /\ mirror' = mirror /\ balance' = balance /\ recorded' = recorded
      BY <3>1 DEF Deliver, Goto, TypeOK, accounts, tables
    <3>4. CASE UserOf[e] = u
      <4>1. \A g \in Handlers : Touches(g, u)' => g = h
        BY <2>1, <3>2, <3>4 DEF Touches, UserIn
      <4>2. Keeps(h, u)'
        BY <3>3 DEF Keeps
      <4>3. ~At(u, {"set"})
        BY <3>2, <3>4 DEF At, Touches
      <4> QED BY <1>4, <3>3, <4>1, <4>2, <4>3 DEF Serial, Followed
    <3>5. CASE UserOf[e] # u
      BY <2>2, <3>3, <3>5 DEF Touches, UserIn
    <3> QED BY <3>4, <3>5
  <2>4. CASE Step(h) /\ Touches(h, u)
    <3>1. /\ pc[h] # "idle" /\ UserIn(h) = u
          /\ Keeps(h, u)
          /\ \A g \in Handlers \ {h} : ~Touches(g, u)
      BY <1>4, <2>4 DEF Serial, Touches
    <3>2. \A g \in Handlers : Touches(g, u)' => g = h
      BY <2>1, <3>1 DEF Touches, UserIn
    <3>3. u # Unreadable /\ u \in Accounts
      BY PaymentConstantsOK DEF Accounts
    <3>4. At(u, {"set"}) <=> pc[h] = "set"
      BY <3>1 DEF At, Touches
    <3>5. At(u, {"set"})' <=> pc'[h] = "set" /\ UserIn(h)' = u
      BY <2>1, <3>1 DEF At, Touches, UserIn
    <3>6. SUFFICES /\ Touches(h, u)' => Keeps(h, u)'
                   /\ (\E e \in recorded' \ Ignored : UserOf[e] = u) /\ ~At(u, {"set"})'
                        => Followed(u)'
      BY <3>2 DEF Serial
    <3>7. CASE Check(h) \/ RecordIgnored(h)
      <4>1. mirror' = mirror /\ balance' = balance /\ recorded' \ Ignored = recorded \ Ignored
        BY <3>7 DEF Check, RecordIgnored, accounts, tables, Sane
      <4>2. pc'[h] \in {"idle", "ignore", "read"} /\ pc[h] # "set"
        BY <1>2, <3>1, <3>3, <3>7 DEF Check, RecordIgnored, Answer, Refuse, Finish, Goto,
           Route, UserIn, TypeOK
      <4> QED BY <1>4, <3>4, <4>1, <4>2 DEF Keeps, Touches, Serial, Followed
    <3>8. CASE ReadBalance(h)
      <4>1. /\ seen' = [seen EXCEPT ![h] = balance[u]] /\ pc'[h] = "write"
            /\ balance' = balance /\ mirror' = mirror /\ recorded' = recorded /\ pc[h] # "set"
        BY <1>2, <3>1, <3>8 DEF ReadBalance, Goto, TypeOK, accounts, tables
      <4>2. seen'[h] = balance[u]
        BY <4>1 DEF TypeOK
      <4> QED BY <1>4, <3>4, <4>1, <4>2 DEF Keeps, Serial, Followed
    <3>9. CASE WriteBalance(h)
      <4>1. seen[h] = balance[u] /\ pc[h] = "write"
        BY <3>1, <3>9 DEF WriteBalance, Keeps
      <4>2. MayWrite(h)
        BY <3>1, <4>1 DEF MayWrite
      <4>3. /\ balance' = [balance EXCEPT ![u] = NewBalance(h)] /\ pc'[h] = "set"
            /\ seen' = seen /\ event' = event
        BY <1>2, <3>1, <3>9, <4>2 DEF WriteBalance, Goto, TypeOK
      <4>4. balance'[u] = NewBalance(h)' /\ UserIn(h)' = u
        BY <3>1, <4>3 DEF NewBalance, UserIn, TypeOK
      <4> QED BY <3>5, <4>3, <4>4 DEF Keeps
    <3>10. CASE SetMirror(h)
      <4>1. /\ mirror' = [mirror EXCEPT ![u] = NewBalance(h)] /\ pc'[h] = "usage"
            /\ balance' = balance /\ pc[h] = "set"
        BY <1>2, <3>1, <3>10 DEF SetMirror, Disturbed, Goto, TypeOK
      <4>2. Followed(u)'
        BY <3>1, <3>3, <4>1 DEF Followed, Keeps, TypeOK
      <4> QED BY <4>1, <4>2 DEF Keeps
    <3>11. CASE AppendUsage(h)
      <4>1. /\ mirror' = mirror /\ balance' = balance /\ recorded' = recorded
            /\ pc[h] = "usage" /\ pc'[h] = "record"
        BY <3>11 DEF AppendUsage, accounts, tables, Goto, TypeOK
      <4> QED BY <3>1, <4>1 DEF Keeps, Followed
    <3>12. CASE Record(h)
      <4>1. mirror' = mirror /\ balance' = balance /\ pc[h] = "record" /\ pc'[h] = "idle"
        BY <3>12 DEF Record, Answer, Refuse, Finish, Goto, TypeOK, accounts
      <4> QED BY <3>1, <4>1 DEF Keeps, Followed, Touches
    <3>13. CASE IncrMirror(h)
      BY <3>1, <3>13 DEF IncrMirror, Keeps
    <3> QED BY <2>4, <3>7, <3>8, <3>9, <3>10, <3>11, <3>12, <3>13 DEF Step
  <2>5. CASE Step(h) /\ ~Touches(h, u)
    <3>1. pc'[h] # "idle" => pc[h] # "idle" /\ event'[h] = event[h]
      BY <2>5 DEF Step, Check, RecordIgnored, ReadBalance, WriteBalance, SetMirror,
         IncrMirror, AppendUsage, Record, Answer, Refuse, Finish, Goto, TypeOK
    <3> QED BY <2>2, <2>5, <3>1 DEF Touches, UserIn
  <2> QED BY <1>6, <2>3, <2>4, <2>5
<1> QED BY <1>2, <1>5, <1>6 DEF Next, Crash

\* The mirror of an account that is handled serially shows its balance, unless Redis,
\* a transaction or a process failed.
THEOREM MirrorAlwaysFollows == Spec => []MirrorFollows
<1>1. Init => TypeInv /\ Within /\ MirrorInv
  BY TypeInit, WithinInit DEF Init, MirrorInv, Serial, Touches
<1>2. TypeInv /\ Within /\ MirrorInv /\ [Next]_vars => (TypeInv /\ Within /\ MirrorInv)'
  BY TypeNext, WithinNext, MirrorNext
<1>3. MirrorInv => MirrorFollows
  BY DEF MirrorInv, Serial, Followed, MirrorFollows
<1> QED BY <1>1, <1>2, <1>3, PTL DEF Spec

-----------------------------------------------------------------------------
(* What an account is due. *)

\* The credits of one event.
Slice(e, count) == {e} \X (1..(count[e] * Award[e]))

LEMMA SliceFinite ==
  ASSUME NEW count \in [Events -> Nat], NEW e \in Events
  PROVE  IsFiniteSet(Slice(e, count))
<1>1. count[e] * Award[e] \in Nat
  BY AwardType
<1>2. IsFiniteSet(1..(count[e] * Award[e]))
  BY <1>1, FS_Interval
<1>3. IsFiniteSet({e})
  BY FS_Singleton
<1> QED BY <1>2, <1>3, FS_Product DEF Slice

LEMMA CreditsFinite ==
  ASSUME NEW u, NEW count \in [Events -> Nat]
  PROVE  IsFiniteSet(Credits(u, count)) /\ Credit(u, count) \in Nat
<1> DEFINE Mine == {e \in Events : UserOf[e] = u}
           Slices == {Slice(e, count) : e \in Mine}
           slice == [e \in Mine |-> Slice(e, count)]
<1>1. IsFiniteSet(Mine)
  BY PaymentConstantsOK, FS_Subset
<1>2. slice \in Surjection(Mine, Slices)
  BY DEF Surjection
<1>3. IsFiniteSet(Slices)
  BY <1>1, <1>2, FS_Surjection
<1>4. \A S \in Slices : IsFiniteSet(S)
  BY SliceFinite
<1>5. IsFiniteSet(UNION Slices)
  BY <1>3, <1>4, FS_UNION
<1>6. UNION Slices = Credits(u, count)
  BY DEF Credits, Slice
<1> QED BY <1>5, <1>6, FS_CardinalityType DEF Credit

\* Counting an event once more adds its award to what its user is due, and nothing
\* to what another is.
LEMMA CreditAdds ==
  ASSUME NEW u, NEW count \in [Events -> Nat], NEW e \in Events,
         NEW more, more = [count EXCEPT ![e] = @ + 1]
  PROVE  Credit(u, more) = Credit(u, count) + (IF UserOf[e] = u THEN Award[e] ELSE 0)
<1>1. more \in [Events -> Nat] /\ \A f \in Events \ {e} : more[f] = count[f]
  OBVIOUS
<1>2. CASE UserOf[e] # u
  <2>1. Credits(u, more) = Credits(u, count)
    BY <1>1, <1>2 DEF Credits
  <2> QED BY <1>2, <2>1, CreditsFinite DEF Credit
<1>3. CASE UserOf[e] = u
  <2> DEFINE low == count[e] * Award[e]
             New == {e} \X ((low + 1)..(low + Award[e]))
  <2>1. Award[e] \in Nat /\ count[e] \in Nat /\ low \in Nat
    BY AwardType
  <2>2. more[e] * Award[e] = low + Award[e]
    <3>1. more[e] = count[e] + 1
      OBVIOUS
    <3>2. (count[e] + 1) * Award[e] = count[e] * Award[e] + Award[e]
      BY <2>1
    <3> QED BY <3>1, <3>2
  <2> HIDE DEF low
  <2>3. 1..(low + Award[e]) = 1..low \cup (low + 1)..(low + Award[e])
    BY <2>1
  <2>4. {e} \X (1..(low + Award[e])) = ({e} \X (1..low)) \cup New
    BY <2>3
  <2>5. \A f \in Events \ {e} : Slice(f, more) = Slice(f, count)
    BY <1>1 DEF Slice
  <2>6. Slice(e, more) = Slice(e, count) \cup New
    BY <2>2, <2>4 DEF Slice, low
  <2>7. Credits(u, more) = Credits(u, count) \cup New
    <3>1. Credits(u, more) = UNION {Slice(f, more) : f \in {f \in Events : UserOf[f] = u}}
      BY DEF Credits, Slice
    <3>2. Credits(u, count) = UNION {Slice(f, count) : f \in {f \in Events : UserOf[f] = u}}
      BY DEF Credits, Slice
    <3>3. ASSUME NEW x
          PROVE  x \in Credits(u, more) <=> x \in Credits(u, count) \cup New
      <4> HIDE DEF New
      <4>1. x \in Credits(u, more) => x \in Credits(u, count) \cup New
        BY <1>3, <2>5, <2>6, <3>1, <3>2
      <4>2. x \in Credits(u, count) => x \in Credits(u, more)
        BY <1>3, <2>5, <2>6, <3>1, <3>2
      <4>3. x \in New => x \in Credits(u, more)
        BY <1>3, <2>6, <3>1
      <4> QED BY <4>1, <4>2, <4>3
    <3> QED BY <3>3
  <2>8. Credits(u, count) \cap New = {}
    <3>1. ASSUME NEW x \in New, x \in Credits(u, count) PROVE FALSE
      <4>1. PICK k \in (low + 1)..(low + Award[e]) : x = <<e, k>>
        OBVIOUS
      <4>2. PICK f \in Events : x \in {f} \X (1..(count[f] * Award[f]))
        BY <3>1 DEF Credits
      <4>3. f = e /\ k \in 1..(count[f] * Award[f])
        BY <4>1, <4>2
      <4> QED BY <2>1, <4>1, <4>3 DEF low
    <3> QED BY <3>1
  <2>9. IsFiniteSet(New) /\ Cardinality(New) = Award[e]
    <3>1. /\ IsFiniteSet((low + 1)..(low + Award[e]))
          /\ Cardinality((low + 1)..(low + Award[e])) = Award[e]
      <4>1. low + 1 \in Int /\ low + Award[e] \in Int
        BY <2>1
      <4>2. /\ IsFiniteSet((low + 1)..(low + Award[e]))
            /\ Cardinality((low + 1)..(low + Award[e])) =
                 IF low + 1 > low + Award[e] THEN 0 ELSE (low + Award[e]) - (low + 1) + 1
        BY <4>1, FS_Interval
      <4> QED BY <2>1, <4>2
    <3>2. IsFiniteSet({e}) /\ Cardinality({e}) = 1
      BY FS_Singleton
    <3>3. IsFiniteSet(New) /\ Cardinality(New) = 1 * Award[e]
      <4> DEFINE K == (low + 1)..(low + Award[e])
      <4>1. IsFiniteSet(K) /\ Cardinality(K) = Award[e]
        BY <3>1
      <4> HIDE DEF K
      <4>2. IsFiniteSet({e} \X K) /\ Cardinality({e} \X K) = Cardinality({e}) * Cardinality(K)
        BY <3>2, <4>1, FS_Product
      <4>3. IsFiniteSet({e} \X K) /\ Cardinality({e} \X K) = 1 * Award[e]
        BY <3>2, <4>1, <4>2
      <4> QED BY <4>3 DEF K
    <3> QED BY <2>1, <3>3
  <2>10. IsFiniteSet(Credits(u, count)) /\ Cardinality(Credits(u, count)) \in Nat
    BY CreditsFinite DEF Credit
  <2>11. Cardinality({}) = 0
    BY FS_EmptySet
  <2>12. Cardinality(Credits(u, more)) = Cardinality(Credits(u, count)) + Award[e]
    <3> HIDE DEF New
    <3>1. Cardinality(Credits(u, count) \cup New)
            = Cardinality(Credits(u, count)) + Cardinality(New) - Cardinality(Credits(u, count) \cap New)
      BY <2>9, <2>10, FS_Union
    <3>2. Cardinality(Credits(u, count) \cap New) = 0
      BY <2>8, <2>11
    <3>3. Cardinality(Credits(u, more)) = Cardinality(Credits(u, count) \cup New)
      BY <2>7
    <3> QED BY <2>1, <2>9, <2>10, <3>1, <3>2, <3>3
  <2> QED BY <1>3, <2>12 DEF Credit
<1> QED BY <1>2, <1>3

LEMMA NothingDue ==
  ASSUME NEW u
  PROVE  Credit(u, [e \in Events |-> 0]) = 0
<1>1. \A e \in Events : 0 * Award[e] = 0
  BY AwardType
<1>2. \A e \in Events : {e} \X (1..([f \in Events |-> 0][e] * Award[e])) = {}
  BY <1>1
<1>3. Credits(u, [e \in Events |-> 0]) = {}
  BY <1>2 DEF Credits
<1> QED BY <1>3, FS_EmptySet DEF Credit

-----------------------------------------------------------------------------
(* Races lose credit and make none. *)

Limit(u) == opening[u] + Credit(u, credited)

\* What a handler is about to build its write on is no more than the account is due:
\* a balance it read is an old one at most.
Backed(u) ==
  /\ OrZero(balance[u]) <= Limit(u)
  /\ \A h \in Handlers : pc[h] = "write" /\ UserIn(h) = u => OrZero(seen[h]) <= Limit(u)

BackedInv == \A u \in Users : Backed(u)

LEMMA LimitType ==
  ASSUME TypeInv, NEW u \in Users
  PROVE  /\ Limit(u) \in Nat
         /\ OrZero(balance[u]) \in Nat
         /\ \A h \in Handlers : OrZero(seen[h]) \in Nat
<1>1. Credit(u, credited) \in Nat /\ opening[u] \in Nat
  BY CreditsFinite DEF TypeInv, TypeOK
<1>2. OrZero(balance[u]) \in Nat /\ \A h \in Handlers : OrZero(seen[h]) \in Nat
  BY BalanceType DEF TypeInv, TypeOK
<1> QED BY <1>1, <1>2 DEF Limit

LEMMA OpeningStays ==
  ASSUME [Next]_vars
  PROVE  opening' = opening
BY DEF Next, Step, Deliver, Check, RecordIgnored, ReadBalance, WriteBalance, SetMirror,
       IncrMirror, AppendUsage, Record, Crash, vars

LEMMA BackedNext ==
  ASSUME TypeInv, BackedInv, [Next]_vars
  PROVE  BackedInv'
<1>1. SUFFICES ASSUME NEW u \in Users PROVE Backed(u)'
  BY DEF BackedInv
<1>2. Backed(u)
  BY DEF BackedInv
<1>3. opening' = opening /\ TypeInv'
  BY OpeningStays, TypeNext
<1>4. CASE UNCHANGED vars
  BY <1>2, <1>4 DEF Backed, Limit, UserIn, vars, handler, accounts
<1>5. ASSUME NEW h \in Handlers, Step(h) \/ Crash(h) \/ \E e \in Events : Deliver(h, e)
      PROVE  Backed(u)'
  <2>1. \A g \in Handlers \ {h} : pc'[g] = pc[g] /\ event'[g] = event[g] /\ seen'[g] = seen[g]
    BY <1>5, OnlyOne DEF TypeInv
  <2>2. CASE UNCHANGED <<balance, credited>> /\ pc'[h] # "write"
    BY <1>2, <1>3, <2>1, <2>2 DEF Backed, Limit, UserIn
  <2>3. CASE ReadBalance(h) /\ pc'[h] = "write"
    <3>1. /\ UNCHANGED <<balance, credited, event>>
          /\ seen'[h] = IF UserIn(h) \in Users THEN balance[UserIn(h)] ELSE None
      BY <2>3 DEF ReadBalance, Goto, TypeInv, TypeOK, accounts
    <3>2. UserIn(h)' = u => OrZero(seen'[h]) = OrZero(balance[u])
      BY <3>1 DEF UserIn
    <3> QED BY <1>2, <1>3, <2>1, <3>1, <3>2 DEF Backed, Limit, UserIn
  <2>4. CASE WriteBalance(h) /\ balance' = [balance EXCEPT ![UserIn(h)] = NewBalance(h)]
                             /\ credited' = [credited EXCEPT ![event[h]] = @ + 1]
                             /\ Goto(h, "set")
    <3>1. pc[h] = "write" /\ event[h] \in Events /\ pc'[h] = "set"
      BY <2>4 DEF WriteBalance, Goto, TypeInv, TypeOK, Sane
    <3>2. Credit(u, credited') =
            Credit(u, credited) + (IF UserIn(h) = u THEN Award[event[h]] ELSE 0)
      <4>1. credited \in [Events -> Nat] /\ event[h] \in Events /\ UserIn(h) = UserOf[event[h]]
        BY <3>1 DEF TypeInv, TypeOK, UserIn
      <4>2. credited' = [credited EXCEPT ![event[h]] = @ + 1]
        BY <2>4
      <4>3. \A more : more = [credited EXCEPT ![event[h]] = @ + 1]
               => Credit(u, more) =
                    Credit(u, credited) + (IF UserOf[event[h]] = u THEN Award[event[h]] ELSE 0)
        BY <4>1, CreditAdds
      <4> QED BY <4>1, <4>2, <4>3
    <3>3. Award[event[h]] \in Nat /\ Credit(u, credited) \in Nat /\ opening[u] \in Nat
      BY <3>1, AwardType, CreditsFinite DEF TypeInv, TypeOK
    <3>4. Limit(u)' >= Limit(u)
      BY <1>3, <3>2, <3>3 DEF Limit
    <3>5. Limit(u)' \in Nat /\ Limit(u) \in Nat /\ OrZero(balance[u]) \in Nat
          /\ \A g \in Handlers : OrZero(seen[g]) \in Nat
      <4>1. opening'[u] \in Nat /\ Credit(u, credited') \in Nat
        BY <1>3, CreditsFinite DEF TypeInv, TypeOK
      <4> QED BY <4>1, LimitType DEF Limit
    <3>6. OrZero(balance'[u]) <= Limit(u)'
      <4>1. CASE UserIn(h) = u
        <5>1. balance'[u] = NewBalance(h) /\ NewBalance(h) \in Nat
          BY <2>4, <3>1, <4>1, NewBalanceType DEF TypeInv, TypeOK
        <5>2. OrZero(balance'[u]) = OrZero(seen[h]) + Award[event[h]]
          BY <5>1, PaymentConstantsOK DEF OrZero, NewBalance
        <5>3. OrZero(seen[h]) <= Limit(u)
          BY <1>2, <3>1, <4>1 DEF Backed
        <5> QED BY <1>3, <3>2, <3>3, <3>5, <4>1, <5>2, <5>3 DEF Limit
      <4>2. CASE UserIn(h) # u
        <5>1. balance'[u] = balance[u]
          BY <2>4, <4>2 DEF TypeInv, TypeOK
        <5> QED BY <1>2, <3>4, <3>5, <5>1 DEF Backed
      <4> QED BY <4>1, <4>2
    <3>7. \A g \in Handlers : pc'[g] = "write" /\ UserIn(g)' = u => OrZero(seen'[g]) <= Limit(u)'
      BY <1>2, <2>1, <3>1, <3>4, <3>5 DEF Backed, UserIn
    <3> QED BY <3>6, <3>7 DEF Backed
  <2>5. \/ UNCHANGED <<balance, credited>> /\ pc'[h] # "write"
        \/ ReadBalance(h) /\ pc'[h] = "write"
        \/ WriteBalance(h) /\ balance' = [balance EXCEPT ![UserIn(h)] = NewBalance(h)]
                           /\ credited' = [credited EXCEPT ![event[h]] = @ + 1]
                           /\ Goto(h, "set")
    <3>1. CASE ReadBalance(h)
      BY <3>1 DEF ReadBalance, accounts
    <3>2. CASE WriteBalance(h)
      BY <3>2 DEF WriteBalance, Goto, TypeInv, TypeOK
    <3>3. CASE \/ Crash(h) \/ RecordIgnored(h) \/ Record(h)
               \/ \E e \in Events : Deliver(h, e)
      BY <3>3 DEF Crash, RecordIgnored, Record, Deliver, Answer, Refuse, Finish, Goto,
                  accounts, TypeInv, TypeOK
    <3>4. CASE SetMirror(h) \/ IncrMirror(h) \/ AppendUsage(h)
      BY <3>4 DEF SetMirror, IncrMirror, AppendUsage, Goto, accounts, TypeInv, TypeOK
    <3>5. CASE Check(h)
      BY <3>5 DEF Check, Route, Answer, Refuse, Finish, Goto, accounts, TypeInv, TypeOK
    <3> QED BY <1>5, <3>1, <3>2, <3>3, <3>4, <3>5 DEF Step
  <2> QED BY <2>2, <2>3, <2>4, <2>5
<1> QED BY <1>4, <1>5 DEF Next

\* However many handlers race on an account, and whatever fails or is lost, it never
\* holds more than it opened with and what was committed to it.
THEOREM NoCreditIsMade == Spec => []NoCreditFromNothing
<1>1. Init => TypeInv /\ BackedInv
  <2> SUFFICES ASSUME Init PROVE TypeInv /\ BackedInv
    OBVIOUS
  <2>1. TypeInv
    BY TypeInit
  <2>2. \A u \in Users : Limit(u) = OrZero(balance[u]) /\ OrZero(balance[u]) \in Nat
    BY <2>1, NothingDue, LimitType DEF Init, Limit
  <2> QED BY <2>1, <2>2 DEF Init, BackedInv, Backed
<1>2. TypeInv /\ BackedInv /\ [Next]_vars => (TypeInv /\ BackedInv)'
  BY TypeNext, BackedNext
<1>3. BackedInv => NoCreditFromNothing
  BY DEF BackedInv, Backed, Limit, NoCreditFromNothing
<1> QED BY <1>1, <1>2, <1>3, PTL DEF Spec

-----------------------------------------------------------------------------
(* The balance of an account that is handled serially. *)

Paid(u) == opening[u] + Credit(u, creditRows)

\* Between the commit of the balance and that of the records.
Committing == {"set", "incr", "usage", "record"}

\* How far the one handler of such an account is: its event is new, it writes on the
\* balance of the moment, and behind the write its own award is all that is not on
\* record.
Pays(h, u) ==
  /\ pc[h] \in {"read", "write"} \cup Committing => event[h] \notin recorded
  /\ pc[h] = "write" => seen[h] = balance[u]
  /\ pc[h] \in Committing => OrZero(balance[u]) = Paid(u) + Award[event[h]]

Exact(u) ==
  /\ \A g, h \in Handlers : Touches(g, u) /\ Touches(h, u) => g = h
  /\ \A h \in Handlers : Touches(h, u) => Pays(h, u)
  /\ ~At(u, Committing) => OrZero(balance[u]) = Paid(u)

ExactInv == Calm => \A u \in Users \ overlapped : Exact(u)

LEMMA PaidType ==
  ASSUME TypeInv, NEW u \in Users
  PROVE  Paid(u) \in Nat /\ OrZero(balance[u]) \in Nat
<1>1. Credit(u, creditRows) \in Nat /\ opening[u] \in Nat
  BY CreditsFinite DEF TypeInv, TypeOK
<1>2. OrZero(balance[u]) \in Nat
  BY BalanceType DEF TypeInv, TypeOK
<1> QED BY <1>1, <1>2 DEF Paid

\* A step that concerns another account leaves what is said of this one true.
LEMMA ExactElsewhere ==
  ASSUME TypeInv, NEW u \in Users, Exact(u), NEW h \in Handlers,
         ~Touches(h, u), ~Touches(h, u)',
         \A g \in Handlers \ {h} : pc'[g] = pc[g] /\ event'[g] = event[g] /\ seen'[g] = seen[g],
         balance'[u] = balance[u], Paid(u)' = Paid(u),
         \A e \in recorded' \ recorded : UserOf[e] # u
  PROVE  Exact(u)'
<1>1. \A g \in Handlers : Touches(g, u)' => g # h /\ Touches(g, u)
  BY DEF Touches, UserIn
<1>2. ASSUME NEW g \in Handlers, Touches(g, u)'
      PROVE  Pays(g, u)'
  <2>1. g # h /\ Pays(g, u) /\ UserOf[event[g]] = u
    BY <1>1, <1>2 DEF Exact, Touches, UserIn
  <2>2. pc'[g] = pc[g] /\ event'[g] = event[g] /\ seen'[g] = seen[g]
    BY <2>1
  <2> QED BY <2>1, <2>2 DEF Pays, Committing
<1>3. At(u, Committing) => At(u, Committing)'
  BY DEF At, Touches, UserIn, Committing
<1> QED BY <1>1, <1>2, <1>3 DEF Exact

LEMMA ExactNext ==
  ASSUME TypeInv, Within, ExactInv, [Next]_vars
  PROVE  ExactInv'
<1> USE DEF TypeInv
<1>1. SUFFICES ASSUME Calm', NEW u \in Users, u \notin overlapped'
               PROVE  Exact(u)'
  BY DEF ExactInv
<1>2. Calm /\ ~Spend("db") /\ ~Spend("crash")
  BY <1>1, WithinNext DEF Kinds, Calm
<1>3. u \notin overlapped
  BY <1>1 DEF Next, Step, Deliver, Check, RecordIgnored, ReadBalance, WriteBalance,
     SetMirror, IncrMirror, AppendUsage, Record, Crash, vars
<1>4. Exact(u)
  BY <1>2, <1>3 DEF ExactInv
<1>5. opening' = opening
  BY OpeningStays
<1>6. CASE UNCHANGED vars
  BY <1>4, <1>6 DEF Exact, Pays, Paid, Touches, At, UserIn, vars, handler, accounts, tables
<1>7. ASSUME NEW h \in Handlers, Step(h) \/ \E e \in Events : Deliver(h, e)
      PROVE  Exact(u)'
  <2>1. \A g \in Handlers \ {h} :
          pc'[g] = pc[g] /\ event'[g] = event[g] /\ seen'[g] = seen[g]
    BY <1>7, OnlyOne
  <2>2. CASE ~Touches(h, u) /\ ~Touches(h, u)'
    <3>1. pc[h] # "idle" => UserIn(h) # u /\ event[h] \in Events
      BY <2>2 DEF Touches, Sane
    <3>2. balance'[u] = balance[u]
      BY <1>7, <3>1 DEF Step, Deliver, Check, RecordIgnored, ReadBalance, WriteBalance,
         SetMirror, IncrMirror, AppendUsage, Record, accounts, TypeOK, Accounts
    <3>3. \A e \in recorded' \ recorded : UserOf[e] # u
      BY <1>7, <3>1 DEF Step, Deliver, Check, RecordIgnored, ReadBalance, WriteBalance,
         SetMirror, IncrMirror, AppendUsage, Record, tables, UserIn
    <3>4. \/ creditRows' = creditRows
          \/ pc[h] # "idle" /\ creditRows' = [creditRows EXCEPT ![event[h]] = @ + 1]
      BY <1>7 DEF Step, Deliver, Check, RecordIgnored, ReadBalance, WriteBalance,
         SetMirror, IncrMirror, AppendUsage, Record, tables
    <3>5. Credit(u, creditRows') = Credit(u, creditRows)
      <4>1. CASE creditRows' = creditRows
        BY <4>1
      <4>2. CASE pc[h] # "idle" /\ creditRows' = [creditRows EXCEPT ![event[h]] = @ + 1]
        <5>1. Credit(u, creditRows') = Credit(u, creditRows) + 0
          <6>1. creditRows \in [Events -> Nat] /\ event[h] \in Events /\ UserOf[event[h]] # u
            BY <3>1, <4>2 DEF TypeOK, UserIn
          <6>2. \A more : more = [creditRows EXCEPT ![event[h]] = @ + 1]
                   => Credit(u, more) = Credit(u, creditRows) + 0
            BY <6>1, CreditAdds
          <6> QED BY <4>2, <6>2
        <5> QED BY <5>1, CreditsFinite DEF TypeOK
      <4> QED BY <3>4, <4>1, <4>2
    <3>6. Paid(u)' = Paid(u)
      BY <1>5, <3>5 DEF Paid
    <3> QED BY <1>4, <2>1, <2>2, <3>2, <3>3, <3>6, ExactElsewhere
  <2>3. CASE \E e \in Events : Deliver(h, e)
    <3>1. PICK e \in Events : Deliver(h, e)
      BY <2>3
    <3>2. UserOf[e] = u => \A g \in Handlers : ~Touches(g, u)
      BY <1>1, <3>1 DEF Deliver, Accounts
    <3>3. /\ pc'[h] = "check" /\ event'[h] = e /\ pc[h] = "idle"
          /\ balance' = balance /\ recorded' = recorded /\ creditRows' = creditRows
      BY <3>1 DEF Deliver, Goto, TypeOK, accounts, tables
    <3>4. CASE UserOf[e] = u
      <4>1. \A g \in Handlers : Touches(g, u)' => g = h
        BY <2>1, <3>2, <3>4 DEF Touches, UserIn
      <4>2. Pays(h, u)'
        BY <3>3 DEF Pays, Committing
      <4>3. ~At(u, Committing)
        BY <3>2, <3>4 DEF At, Touches, Committing
      <4> QED BY <1>4, <1>5, <3>3, <4>1, <4>2, <4>3 DEF Exact, Paid
    <3>5. CASE UserOf[e] # u
      BY <2>2, <3>3, <3>5 DEF Touches, UserIn
    <3> QED BY <3>4, <3>5
  <2>4. CASE Step(h) /\ Touches(h, u)
    <3>1. /\ pc[h] # "idle" /\ UserIn(h) = u /\ event[h] \in Events
          /\ Pays(h, u)
          /\ \A g \in Handlers \ {h} : ~Touches(g, u)
      BY <1>4, <2>4 DEF Exact, Touches, Sane
    <3>2. \A g \in Handlers : Touches(g, u)' => g = h
      BY <2>1, <3>1 DEF Touches, UserIn
    <3>3. u # Unreadable /\ u \in Accounts
      BY PaymentConstantsOK DEF Accounts
    <3>4. At(u, Committing) <=> pc[h] \in Committing
      BY <3>1 DEF At, Touches, Committing
    <3>5. At(u, Committing)' <=> pc'[h] \in Committing /\ UserIn(h)' = u
      BY <2>1, <3>1 DEF At, Touches, UserIn, Committing
    <3>6. SUFFICES /\ Touches(h, u)' => Pays(h, u)'
                   /\ ~At(u, Committing)' => OrZero(balance'[u]) = Paid(u)'
      BY <3>2 DEF Exact
    <3>7. pc[h] \in Committing => OrZero(balance[u]) = Paid(u) + Award[event[h]]
      BY <3>1 DEF Pays
    <3>8. pc[h] \notin Committing => OrZero(balance[u]) = Paid(u)
      BY <1>4, <3>4 DEF Exact
    <3>9. creditRows' = creditRows => Paid(u)' = Paid(u)
      BY <1>5 DEF Paid
    <3>10. CASE Check(h) \/ RecordIgnored(h)
      <4>1. /\ balance' = balance /\ creditRows' = creditRows
            /\ pc[h] \notin Committing
        BY <3>10 DEF Check, RecordIgnored, accounts, tables, Committing
      <4>2. pc'[h] \in {"idle", "ignore", "read"}
        BY <1>2, <3>1, <3>3, <3>10 DEF Check, RecordIgnored, Answer, Refuse, Finish, Goto,
           Route, UserIn, TypeOK
      <4>3. pc'[h] = "read" => event'[h] = event[h] /\ event[h] \notin recorded
                               /\ recorded' = recorded
        BY <1>2, <3>10 DEF Check, RecordIgnored, Answer, Refuse, Finish, Goto, TypeOK, tables
      <4>4. Pays(h, u)' \/ pc'[h] = "idle"
        BY <4>2, <4>3 DEF Pays, Committing
      <4> QED BY <3>8, <3>9, <4>1, <4>4 DEF Touches
    <3>11. CASE ReadBalance(h)
      <4>1. /\ seen' = [seen EXCEPT ![h] = balance[u]] /\ pc'[h] = "write" /\ pc[h] = "read"
            /\ balance' = balance /\ recorded' = recorded /\ creditRows' = creditRows
            /\ event' = event
        BY <1>2, <3>1, <3>11 DEF ReadBalance, Goto, TypeOK, accounts, tables
      <4>2. seen'[h] = balance[u]
        BY <4>1 DEF TypeOK
      <4>3. pc[h] \notin Committing /\ event[h] \notin recorded
        BY <3>1, <4>1 DEF Committing, Pays
      <4> QED BY <3>8, <3>9, <4>1, <4>2, <4>3 DEF Pays, Committing
    <3>12. CASE WriteBalance(h)
      <4>1. seen[h] = balance[u] /\ pc[h] = "write" /\ event[h] \notin recorded
        BY <3>1, <3>12 DEF WriteBalance, Pays
      <4>2. MayWrite(h)
        BY <3>1, <4>1 DEF MayWrite
      <4>3. /\ balance' = [balance EXCEPT ![u] = NewBalance(h)] /\ pc'[h] = "set"
            /\ seen' = seen /\ event' = event /\ recorded' = recorded
            /\ creditRows' = creditRows
        BY <1>2, <3>1, <3>12, <4>2 DEF WriteBalance, Goto, TypeOK, tables
      <4>4. balance'[u] = NewBalance(h) /\ NewBalance(h) \in Nat
        BY <3>1, <4>3, NewBalanceType DEF TypeOK
      <4>5. OrZero(balance'[u]) = OrZero(balance[u]) + Award[event[h]]
        BY <4>1, <4>4, PaymentConstantsOK DEF OrZero, NewBalance
      <4>6. OrZero(balance[u]) = Paid(u)
        BY <3>8, <4>1 DEF Committing
      <4>7. OrZero(balance'[u]) = Paid(u)' + Award[event'[h]]
        BY <3>9, <4>3, <4>5, <4>6
      <4>8. Pays(h, u)' /\ At(u, Committing)'
        BY <3>1, <3>5, <4>1, <4>3, <4>7 DEF Pays, Committing, UserIn
      <4> QED BY <4>8
    <3>13. CASE SetMirror(h) \/ IncrMirror(h) \/ AppendUsage(h)
      <4>1. /\ balance' = balance /\ recorded' = recorded /\ creditRows' = creditRows
            /\ event' = event /\ pc[h] \in Committing
            /\ pc'[h] \in Committing
        BY <3>13 DEF SetMirror, IncrMirror, AppendUsage, Goto, accounts, tables, TypeOK,
                     Committing
      <4>2. event[h] \notin recorded /\ pc'[h] # "write"
        BY <3>1, <4>1 DEF Pays, Committing
      <4>3. OrZero(balance'[u]) = Paid(u)' + Award[event'[h]]
        BY <3>7, <3>9, <4>1
      <4>4. Pays(h, u)' /\ At(u, Committing)'
        BY <3>1, <3>5, <4>1, <4>2, <4>3 DEF Pays, UserIn
      <4> QED BY <4>4
    <3>14. CASE Record(h)
      <4>1. pc[h] = "record" /\ event[h] \notin recorded
        BY <3>1, <3>14 DEF Record, Pays, Committing
      <4>2. /\ creditRows' = [creditRows EXCEPT ![event[h]] = @ + 1]
            /\ balance' = balance /\ pc'[h] = "idle"
        <5>1. u \notin Strangers
          BY PaymentConstantsOK
        <5> QED
          BY <1>2, <3>1, <3>3, <3>14, <4>1, <5>1
             DEF Record, Answer, Finish, Goto, TypeOK, accounts
      <4>3. Credit(u, creditRows') = Credit(u, creditRows) + Award[event[h]]
        <5>1. creditRows \in [Events -> Nat] /\ UserOf[event[h]] = u
          BY <3>1 DEF TypeOK, UserIn
        <5>2. event[h] \in Events
          BY <3>1
        <5>3. \A more : more = [creditRows EXCEPT ![event[h]] = @ + 1]
                 => Credit(u, more) = Credit(u, creditRows) + Award[event[h]]
          BY <5>1, <5>2, CreditAdds
        <5> QED BY <4>2, <5>3
      <4>4. Credit(u, creditRows) \in Nat /\ Award[event[h]] \in Nat /\ opening[u] \in Nat
        BY <3>1, AwardType, CreditsFinite DEF TypeOK
      <4>5. Paid(u)' = Paid(u) + Award[event[h]]
        BY <1>5, <4>3, <4>4 DEF Paid
      <4> QED BY <3>7, <4>1, <4>2, <4>5 DEF Touches, Committing
    <3> QED BY <2>4, <3>10, <3>11, <3>12, <3>13, <3>14 DEF Step
  <2>5. CASE Step(h) /\ ~Touches(h, u)
    <3>1. pc'[h] # "idle" => pc[h] # "idle" /\ event'[h] = event[h]
      BY <2>5 DEF Step, Check, RecordIgnored, ReadBalance, WriteBalance, SetMirror,
         IncrMirror, AppendUsage, Record, Answer, Refuse, Finish, Goto, TypeOK
    <3> QED BY <2>2, <2>5, <3>1 DEF Touches, UserIn
  <2> QED BY <1>7, <2>3, <2>4, <2>5
<1> QED BY <1>2, <1>6, <1>7 DEF Next, Crash

\* An account whose payments never overlapped holds what it opened with and the awards
\* on record, unless a transaction or a process failed.
THEOREM SerialIsAlwaysExact == Spec => []SerialIsExact
<1>1. Init => TypeInv /\ Within /\ ExactInv
  <2> SUFFICES ASSUME Init PROVE TypeInv /\ Within /\ ExactInv
    OBVIOUS
  <2>1. TypeInv /\ Within
    BY TypeInit, WithinInit
  <2>2. \A u \in Users : Paid(u) = OrZero(balance[u])
    BY <2>1, NothingDue, PaidType DEF Init, Paid
  <2>3. \A h \in Handlers, u \in Users : ~Touches(h, u)
    BY DEF Init, Touches
  <2> QED BY <2>1, <2>2, <2>3 DEF ExactInv, Exact
<1>2. TypeInv /\ Within /\ ExactInv /\ [Next]_vars => (TypeInv /\ Within /\ ExactInv)'
  BY TypeNext, WithinNext, ExactNext
<1>3. ExactInv => SerialIsExact
  BY DEF ExactInv, Exact, Paid, Committing, SerialIsExact
<1> QED BY <1>1, <1>2, <1>3, PTL DEF Spec
=============================================================================
