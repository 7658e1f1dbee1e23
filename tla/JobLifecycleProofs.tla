------------------------- MODULE JobLifecycleProofs -------------------------
(***************************************************************************)
(* Theorems of JobLifecycle, for every set of jobs, threads and processes  *)
(* and every Budget: types, and what a completed job and a stopped run are *)
(* worth.  COMPLETED is always backed by a usage event and a stored        *)
(* output; answers never outnumber usage events; a run stopped in time     *)
(* starts no tool and completes nothing.                                   *)
(***************************************************************************)
EXTENDS JobLifecycle, FiniteSetTheorems, TLAPS

-----------------------------------------------------------------------------
\* What a step of a thread relies on beyond the types: the thread works on a
\* message, and it writes a terminal status.
Sane ==
  \A t \in Threads :
    /\ pc[t] # "idle" => msg[t] \in Messages
    /\ pc[t] \in {"commit1", "publish1", "commit2", "publish2"} => verdict[t] \in Terminal
    /\ unacked[t] => pc[t] # "idle"

\* What is left of the budget never exceeds it.
Within == \A e \in Events : budget[e] <= Budget[e]

TypeInv == TypeOK /\ Sane /\ Within

LEMMA UpdateType ==
  ASSUME NEW r \in Rows, NEW s \in Statuses
  PROVE  UpdateStatus(r, s) \in Rows /\ UpdateStatus(r, s).status = s
BY DEF Rows, UpdateStatus, Statuses, Terminal

LEMMA VerdictType ==
  ASSUME NEW r \in Rows, NEW s \in Statuses
  PROVE  WriteVerdict(r, s) \in Rows /\ WriteVerdict(r, s).status = s
<1>1. UpdateStatus(r, s) \in Rows /\ UpdateStatus(r, s).status = s
  BY UpdateType
<1>2. (r.output \/ s = "COMPLETED") \in BOOLEAN
  OBVIOUS
<1> QED
  BY <1>1, <1>2 DEF WriteVerdict, Rows

LEMMA SpendType ==
  ASSUME budget \in [Events -> Nat], Within, NEW e \in Events, Spend(e)
  PROVE  budget' \in [Events -> Nat] /\ Within'
<1>1. budget[e] - 1 \in Nat /\ budget[e] - 1 <= budget[e]
  BY DEF Spend
<1>2. budget' \in [Events -> Nat] /\ budget'[e] = budget[e] - 1
  BY <1>1 DEF Spend
<1>3. ASSUME NEW f \in Events PROVE budget'[f] <= Budget[f]
  <2>1. budget[f] <= Budget[f] /\ budget[f] \in Nat /\ Budget[f] \in Nat
    BY ConstantsOK DEF Within
  <2>2. CASE f = e
    BY <1>1, <1>2, <2>1, <2>2
  <2>3. CASE f # e
    BY <2>1, <2>3 DEF Spend
  <2> QED
    BY <2>2, <2>3
<1> QED
  BY <1>2, <1>3 DEF Within

LEMMA PublishType ==
  ASSUME TypeOK, Within, NEW j \in Jobs, NEW s \in Statuses, Publish(j, s)
  PROVE  budget' \in [Events -> Nat] /\ Within' /\ pub' \in [Jobs -> Statuses \cup {None}]
<1>1. "redis" \in Events
  BY DEF Events
<1> QED
  BY <1>1, SpendType DEF Publish, TypeOK, Within

LEMMA TypeInit == Init => TypeInv
<1> SUFFICES ASSUME Init PROVE TypeInv
  OBVIOUS
<1>1. TypeOK
  BY ConstantsOK DEF Init, TypeOK, Rows, Statuses, Terminal, Steps, InLoop, Orchestrating, NoCall, Messages
<1>2. Sane /\ Within
  BY ConstantsOK DEF Init, Sane, Within
<1> QED
  BY <1>1, <1>2 DEF TypeInv

LEMMA TypeApi ==
  ASSUME TypeInv, NEW j \in Jobs, Api(j)
  PROVE  TypeInv'
<1> USE DEF TypeInv, rows, api, worker, running
<1>1. CASE SubmitGoal(j)
  <2>1. [row[j] EXCEPT !.status = "QUEUED"] \in Rows
    BY DEF TypeOK, Rows, Statuses
  <2>2. row' \in [Jobs -> Rows]
    BY <1>1, <2>1 DEF SubmitGoal, TypeOK
  <2> QED
    BY <1>1, <2>2 DEF SubmitGoal, TypeOK, Sane, Within
<1>2. CASE Dispatch(j)
  <2>1. <<j, 0>> \in Messages
    BY ConstantsOK DEF Messages
  <2> QED
    BY <1>2, <2>1 DEF Dispatch, TypeOK, Sane, Within
<1>3. CASE DispatchFails(j)
  <2>1. "broker" \in Events
    BY DEF Events
  <2>2. budget' \in [Events -> Nat] /\ Within'
    BY <1>3, <2>1, SpendType DEF DispatchFails, TypeOK
  <2> QED
    BY <1>3, <2>2 DEF DispatchFails, TypeOK, Sane
<1>4. CASE CancelRead(j)
  <2>1. "cancel" \in Events
    BY DEF Events
  <2>2. budget' \in [Events -> Nat] /\ Within'
    BY <1>4, <2>1, SpendType DEF CancelRead, TypeOK
  <2>3. row[j].status \in Statuses
    BY <1>4 DEF CancelRead, TypeOK, Rows
  <2> QED
    BY <1>4, <2>2, <2>3 DEF CancelRead, TypeOK, Sane
<1>5. CASE CancelFlag(j)
  <2>1. "redis" \in Events
    BY DEF Events
  <2>2. budget' \in [Events -> Nat] /\ Within'
    BY <1>5, <2>1, SpendType DEF CancelFlag, TypeOK, Within
  <2>3. flag' \in [Jobs -> BOOLEAN] /\ stopped' \subseteq Threads
    BY <1>5 DEF CancelFlag, TypeOK
  <2>4. cancel' \in [Jobs -> [at : {"idle", "flag", "commit", "publish"},
                              seen : Statuses \cup {None}]]
    BY <1>5 DEF CancelFlag, TypeOK
  <2> QED
    BY <1>5, <2>2, <2>3, <2>4 DEF CancelFlag, TypeOK, Sane
<1>6. CASE CancelCommit(j)
  <2>1. "db" \in Events
    BY DEF Events
  <2>2. budget' \in [Events -> Nat] /\ Within'
    BY <1>6, <2>1, SpendType DEF CancelCommit, TypeOK, Within
  <2>3. UpdateStatus(row[j], "CANCELLED") \in Rows
    BY UpdateType DEF TypeOK, Statuses, Terminal
  <2>4. row' \in [Jobs -> Rows]
    BY <1>6, <2>3 DEF CancelCommit, TypeOK
  <2>5. cancel' \in [Jobs -> [at : {"idle", "flag", "commit", "publish"},
                              seen : Statuses \cup {None}]]
    BY <1>6 DEF CancelCommit, TypeOK
  <2> QED
    BY <1>6, <2>2, <2>4, <2>5 DEF CancelCommit, TypeOK, Sane
<1>7. CASE CancelPublish(j)
  <2>1. "CANCELLED" \in Statuses
    BY DEF Statuses, Terminal
  <2>2. budget' \in [Events -> Nat] /\ Within' /\ pub' \in [Jobs -> Statuses \cup {None}]
    BY <1>7, <2>1, PublishType DEF CancelPublish
  <2>3. cancel' \in [Jobs -> [at : {"idle", "flag", "commit", "publish"},
                              seen : Statuses \cup {None}]]
    BY <1>7 DEF CancelPublish, TypeOK, NoCall
  <2> QED
    BY <1>7, <2>2, <2>3 DEF CancelPublish, TypeOK, Sane
<1> QED
  BY <1>1, <1>2, <1>3, <1>4, <1>5, <1>6, <1>7 DEF Api

LEMMA TypeLeave ==
  ASSUME TypeInv, NEW t \in Threads, Leave(t)
  PROVE  /\ pc' \in [Threads -> Steps]
         /\ msg' \in [Threads -> Messages \cup {None}]
         /\ unacked' \in [Threads -> BOOLEAN]
         /\ loop' \in [Threads -> Threads \cup {None}]
         /\ verdict' \in [Threads -> Terminal \cup {None}]
         /\ stopped' \subseteq Threads
         /\ Sane'
<1> USE DEF TypeInv, TypeOK, Leave, Goto
<1>1. pc' \in [Threads -> Steps]
  BY DEF Steps
<1>2. Sane'
  BY DEF Sane
<1> QED
  BY <1>1, <1>2

Writing == {"commit1", "publish1", "commit2", "publish2"}

LEMMA TypeGo ==
  ASSUME TypeInv, NEW t \in Threads, NEW s \in Steps \ {"idle"}, pc[t] # "idle",
         Goto(t, s), UNCHANGED <<msg, unacked>>,
         \/ UNCHANGED verdict /\ (s \in Writing => verdict[t] \in Terminal)
         \/ \E v \in Terminal : Conclude(t, v)
  PROVE  /\ pc' \in [Threads -> Steps]
         /\ verdict' \in [Threads -> Terminal \cup {None}]
         /\ Sane'
<1> USE DEF TypeInv, TypeOK, Goto, Conclude
<1>1. pc' \in [Threads -> Steps] /\ pc'[t] = s
  OBVIOUS
<1>2. verdict' \in [Threads -> Terminal \cup {None}]
  OBVIOUS
<1>3. ASSUME NEW u \in Threads
      PROVE  /\ pc'[u] # "idle" => msg'[u] \in Messages
             /\ pc'[u] \in Writing => verdict'[u] \in Terminal
             /\ unacked'[u] => pc'[u] # "idle"
  <2>1. CASE u = t
    BY <1>1, <2>1 DEF Sane
  <2>2. CASE u # t
    BY <2>2 DEF Sane, Writing
  <2> QED
    BY <2>1, <2>2
<1> QED
  BY <1>1, <1>2, <1>3 DEF Sane, Writing

LEMMA TypeStep ==
  ASSUME TypeInv, NEW t \in Threads, Step(t)
  PROVE  TypeInv'
<1> USE DEF TypeInv, TypeOK, rows, api
<1>a. pc[t] # "idle" => msg[t] \in Messages /\ JobOf(t) \in Jobs
  BY DEF Messages, JobOf, Sane
<1>b. /\ {"RUNNING", "CANCELLED", "FAILED", "COMPLETED"} \subseteq Statuses
      /\ {"FAILED", "COMPLETED", "CANCELLED"} \subseteq Terminal
      /\ Terminal \subseteq Statuses
      /\ {"db", "redis"} \subseteq Events
  BY DEF Statuses, Terminal, Events
<1>c. ASSUME NEW s \in Statuses, pc[t] # "idle"
      PROVE  [row EXCEPT ![JobOf(t)] = UpdateStatus(@, s)] \in [Jobs -> Rows]
  BY <1>a, <1>c, UpdateType
<1>d. Steps \ {"idle"} = {"accepted", "newLoop", "trace", "tracing", "begin", "ack"} \cup Orchestrating
  BY DEF Steps, InLoop, Orchestrating
<1>e. pc[t] \in Writing => verdict[t] \in Terminal
  BY DEF Sane, Writing
<1>1. CASE TakeLoop(t)
  <2>1. pc' \in [Threads -> Steps] /\ Sane'
    BY <1>1, <1>d, TypeGo DEF TakeLoop, Writing
  <2>2. loop' \in [Threads -> Threads \cup {None}]
    BY <1>1, ConstantsOK DEF TakeLoop
  <2> QED
    BY <1>1, <2>1, <2>2 DEF TakeLoop, Within
<1>2. CASE StoreLoop(t)
  <2>1. pc' \in [Threads -> Steps] /\ Sane'
    BY <1>2, <1>d, TypeGo DEF StoreLoop, Writing
  <2>2. loopOf' \in [Processes -> Threads \cup {None}]
    BY <1>2, ConstantsOK DEF StoreLoop
  <2> QED
    BY <1>2, <2>1, <2>2 DEF StoreLoop, Within
<1>3. CASE TraceStart(t) \/ TraceEnd(t) \/ Begin(t)
  <2>1. pc[t] # "idle" /\ \E s \in {"begin", "tracing", "setRunning"} : Goto(t, s)
    BY <1>3 DEF TraceStart, TraceEnd, Begin
  <2>2. pc' \in [Threads -> Steps] /\ Sane'
    BY <1>3, <2>1, <1>d, TypeGo DEF TraceStart, TraceEnd, Begin, Writing, Orchestrating
  <2> QED
    BY <1>3, <2>2 DEF TraceStart, TraceEnd, Begin, Within
<1>6. CASE Refuse(t)
  <2>0. msg[t][2] < MaxRetries => <<msg[t][1], msg[t][2] + 1>> \in Messages
    BY <1>6, <1>a, ConstantsOK DEF Refuse, Messages
  <2>1. queue' \in [Messages -> Nat]
    BY <1>6, <2>0 DEF Refuse
  <2>2. Leave(t) /\ UNCHANGED <<rows, api, loopOf, budget>>
    BY <1>6 DEF Refuse
  <2> QED
    BY <2>1, <2>2, TypeLeave DEF Within
<1>7. CASE SetRunning(t)
  <2>1. row' \in [Jobs -> Rows]
    BY <1>7, <1>b, <1>c DEF SetRunning
  <2>2. budget' \in [Events -> Nat] /\ Within'
    BY <1>7, <1>b, SpendType DEF SetRunning, Within
  <2>3. pc[t] # "idle" /\ \E s \in {"pubRunning", "screen"} : Goto(t, s)
    BY <1>7 DEF SetRunning
  <2>4. pc' \in [Threads -> Steps] /\ Sane'
    BY <1>7, <2>3, <1>d, TypeGo DEF SetRunning, Writing, Orchestrating
  <2> QED
    BY <1>7, <2>1, <2>2, <2>4 DEF SetRunning
<1>8. CASE PublishRunning(t)
  <2>1. budget' \in [Events -> Nat] /\ Within' /\ pub' \in [Jobs -> Statuses \cup {None}]
    BY <1>8, <1>a, <1>b, PublishType DEF PublishRunning
  <2>2. pc' \in [Threads -> Steps] /\ Sane'
    BY <1>8, <1>d, TypeGo DEF PublishRunning, Writing, Orchestrating
  <2> QED
    BY <1>8, <2>1, <2>2 DEF PublishRunning
<1>9. CASE Screen(t) \/ RunTasks(t)
  <2>1. /\ pc[t] # "idle"
        /\ \/ \E s \in {"guard1", "guard4"} : Goto(t, s) /\ UNCHANGED verdict
           \/ Goto(t, "commit2") /\ Conclude(t, "FAILED")
        /\ UNCHANGED <<msg, unacked>>
    BY <1>9 DEF Screen, RunTasks
  <2>2. pc' \in [Threads -> Steps] /\ verdict' \in [Threads -> Terminal \cup {None}] /\ Sane'
    BY <2>1, <1>b, <1>d, TypeGo DEF Writing, Orchestrating
  <2> QED
    BY <1>9, <2>2 DEF Screen, RunTasks, Within
<1>10. CASE Guard1(t) \/ Guard2(t) \/ Guard3(t) \/ Guard4(t)
  <2>1. SeesFlag(JobOf(t)) \/ SeesNoFlag(JobOf(t))
    BY <1>10 DEF Guard1, Guard2, Guard3, Guard4, Halt
  <2>2. budget' \in [Events -> Nat] /\ Within'
    BY <2>1, <1>b, SpendType DEF SeesFlag, SeesNoFlag, Within
  <2>3. /\ pc[t] # "idle"
        /\ \/ Goto(t, "commit1") /\ Conclude(t, "CANCELLED")
           \/ \E s \in {"guard2", "guard3", "tasks", "charge"} : Goto(t, s) /\ UNCHANGED verdict
           \/ Goto(t, "commit2") /\ Conclude(t, "FAILED")
        /\ UNCHANGED <<rows, api, queue, msg, unacked, loop, loopOf, stopped>>
    BY <1>10 DEF Guard1, Guard2, Guard3, Guard4, Halt
  <2>4. pc' \in [Threads -> Steps] /\ verdict' \in [Threads -> Terminal \cup {None}] /\ Sane'
    BY <2>3, <1>b, <1>d, TypeGo DEF Writing, Orchestrating
  <2> QED
    BY <2>2, <2>3, <2>4
<1>12. CASE Charge(t)
  <2>0. \/ UNCHANGED <<ledger, budget>>
        \/ UNCHANGED budget /\ \E n \in 0..2 : AddEvents(t, n)
        \/ Spend("timeout") /\ \E n \in 0..2 : AddEvents(t, n)
    BY <1>12 DEF Charge
  <2>1. ledger' \in [Jobs -> Nat] /\ budget' \in [Events -> Nat] /\ Within'
    BY <2>0, <1>a, <1>b, SpendType DEF AddEvents, Within, Events
  <2>2. pc' \in [Threads -> Steps] /\ verdict' \in [Threads -> Terminal \cup {None}] /\ Sane'
    BY <1>12, <1>b, <1>d, TypeGo DEF Charge, Writing, Orchestrating
  <2> QED
    BY <1>12, <2>1, <2>2 DEF Charge
<1>13. CASE StopCommit(t)
  <2>1. row' \in [Jobs -> Rows]
    BY <1>13, <1>b, <1>c DEF StopCommit
  <2>2. budget' \in [Events -> Nat] /\ Within'
    BY <1>13, <1>b, SpendType DEF StopCommit, Within
  <2>3. pc[t] \in Writing /\ pc[t] # "idle" /\ \E s \in {"publish1", "commit2"} : Goto(t, s)
    BY <1>13 DEF StopCommit, Writing
  <2>4. pc' \in [Threads -> Steps] /\ Sane'
    BY <1>13, <2>3, <1>d, <1>e, TypeGo DEF StopCommit, Orchestrating
  <2> QED
    BY <1>13, <2>1, <2>2, <2>4 DEF StopCommit
<1>14. CASE StopPublish(t)
  <2>1. budget' \in [Events -> Nat] /\ Within' /\ pub' \in [Jobs -> Statuses \cup {None}]
    BY <1>14, <1>a, <1>b, PublishType DEF StopPublish
  <2>2. pc[t] \in Writing
    BY <1>14 DEF StopPublish, Writing
  <2>3. pc' \in [Threads -> Steps] /\ Sane'
    BY <1>14, <2>2, <1>d, <1>e, TypeGo DEF StopPublish, Orchestrating
  <2> QED
    BY <1>14, <2>1, <2>3 DEF StopPublish
<1>15. CASE FinalCommit(t)
  <2>1. verdict[t] \in Statuses /\ pc[t] # "idle"
    BY <1>15, <1>b, <1>e DEF FinalCommit, Writing
  <2>2. WriteVerdict(row[JobOf(t)], verdict[t]) \in Rows
    BY <1>a, <2>1, VerdictType
  <2>5. row' \in [Jobs -> Rows]
    BY <1>15, <1>a, <2>1, <2>2 DEF FinalCommit
  <2>6. budget' \in [Events -> Nat] /\ Within'
    BY <1>15, <1>b, SpendType DEF FinalCommit, Within
  <2>7. \E s \in {"publish2", "ack"} : Goto(t, s)
    BY <1>15 DEF FinalCommit
  <2>8. pc' \in [Threads -> Steps] /\ Sane'
    BY <1>15, <2>1, <2>7, <1>d, <1>e, TypeGo DEF FinalCommit, Orchestrating, Writing
  <2> QED
    BY <1>15, <2>5, <2>6, <2>8 DEF FinalCommit
<1>16. CASE FinalPublish(t)
  <2>1. verdict[t] \in Statuses /\ pc[t] # "idle"
    BY <1>16, <1>b, <1>e DEF FinalPublish, Writing
  <2>2. budget' \in [Events -> Nat] /\ Within' /\ pub' \in [Jobs -> Statuses \cup {None}]
    BY <1>16, <1>a, <2>1, PublishType DEF FinalPublish
  <2>3. posts' \in [Jobs -> Nat]
    BY <1>16, <1>a, <2>1 DEF FinalPublish
  <2>4. pc' \in [Threads -> Steps] /\ Sane'
    BY <1>16, <2>1, <1>d, TypeGo DEF FinalPublish, Writing
  <2> QED
    BY <1>16, <2>2, <2>3, <2>4 DEF FinalPublish
<1>17. CASE Ack(t)
  <2>1. Leave(t) /\ UNCHANGED <<rows, api, queue, loopOf, budget>>
    BY <1>17 DEF Ack
  <2> QED
    BY <2>1, TypeLeave DEF Within
<1> QED
  BY <1>1, <1>2, <1>3, <1>6, <1>7, <1>8, <1>9, <1>10, <1>12, <1>13, <1>14, <1>15,
     <1>16, <1>17 DEF Step

LEMMA TypeReceive ==
  ASSUME TypeInv, NEW t \in Threads, NEW m \in Messages, Receive(t, m)
  PROVE  TypeInv'
<1> USE DEF TypeInv, TypeOK, rows, api, Goto, Receive
<1>1. queue' \in [Messages -> Nat]
  OBVIOUS
<1>2. pc' \in [Threads -> Steps]
  BY DEF Steps
<1>3. Sane'
  BY DEF Sane
<1> QED
  BY <1>1, <1>2, <1>3 DEF Within

LEMMA TypeRedeliver ==
  ASSUME TypeInv, NEW t \in Threads, Redeliver(t)
  PROVE  TypeInv'
<1> USE DEF TypeInv, TypeOK, rows, api, Redeliver, Sane
<1>1. "redeliver" \in Events
  BY DEF Events
<1>2. budget' \in [Events -> Nat] /\ Within'
  BY <1>1, SpendType
<1>3. queue' \in [Messages -> Nat]
  OBVIOUS
<1> QED
  BY <1>2, <1>3

\* What a crash gives back to the queue is a number, and not zero for a message
\* that a dead thread held unacknowledged.
LEMMA LostType ==
  ASSUME NEW p \in Processes, NEW m \in Messages
  PROVE  /\ LostCopies(p, m) \in Nat
         /\ (\E t \in Threads : ProcessOf[t] = p /\ unacked[t] /\ msg[t] = m)
              => LostCopies(p, m) > 0
<1> DEFINE S == {t \in Threads : ProcessOf[t] = p /\ unacked[t] /\ msg[t] = m}
<1>1. IsFiniteSet(S)
  BY ConstantsOK, FS_Subset
<1>2. Cardinality(S) \in Nat /\ (Cardinality(S) = 0 <=> S = {})
  BY <1>1, FS_CardinalityType, FS_EmptySet
<1>3. (\E t \in Threads : ProcessOf[t] = p /\ unacked[t] /\ msg[t] = m) => S # {}
  OBVIOUS
<1> HIDE DEF S
<1>4. Cardinality(S) \in Nat /\ (S # {} => Cardinality(S) > 0)
  BY <1>2
<1>5. LostCopies(p, m) = Cardinality(S)
  BY DEF LostCopies, S
<1> QED
  BY <1>3, <1>4, <1>5

LEMMA TypeCrash ==
  ASSUME TypeInv, NEW p \in Processes, Crash(p)
  PROVE  TypeInv'
<1> USE DEF TypeInv, TypeOK, rows, api, Crash
<1>1. "crash" \in Events
  BY DEF Events
<1>2. budget' \in [Events -> Nat] /\ Within'
  BY <1>1, SpendType
<1>3. queue' \in [Messages -> Nat]
  BY LostType
<1>4. pc' \in [Threads -> Steps]
  BY DEF Steps
<1>5. Sane'
  BY DEF Sane
<1> QED
  BY <1>2, <1>3, <1>4, <1>5

LEMMA TypeExpires ==
  ASSUME TypeInv, NEW j \in Jobs, FlagExpires(j)
  PROVE  TypeInv'
<1>1. "expire" \in Events
  BY DEF Events
<1>2. budget' \in [Events -> Nat] /\ Within'
  BY <1>1, SpendType DEF FlagExpires, TypeInv, TypeOK
<1> QED
  BY <1>2 DEF FlagExpires, TypeInv, TypeOK, Sane, api, worker, running

LEMMA TypeNext == TypeInv /\ [Next]_vars => TypeInv'
<1> SUFFICES ASSUME TypeInv, [Next]_vars PROVE TypeInv'
  OBVIOUS
<1>1. CASE UNCHANGED vars
  BY <1>1 DEF vars, TypeInv, TypeOK, Sane, Within
<1>2. CASE Rest
  BY <1>2 DEF Rest, vars, TypeInv, TypeOK, Sane, Within
<1>3. CASE \E j \in Jobs : Api(j) \/ FlagExpires(j)
  BY <1>3, TypeApi, TypeExpires
<1>4. CASE \E t \in Threads : Step(t) \/ Redeliver(t) \/ \E m \in Messages : Receive(t, m)
  BY <1>4, TypeStep, TypeRedeliver, TypeReceive
<1>5. CASE \E p \in Processes : Crash(p)
  BY <1>5, TypeCrash
<1> QED
  BY <1>1, <1>2, <1>3, <1>4, <1>5 DEF Next

\* Type correctness: every variable keeps its type, so no thread ever works
\* without a message or writes a status it never decided on.
THEOREM TypeCorrect == Spec => []TypeOK
<1>1. TypeInv => TypeOK
  BY DEF TypeInv
<1> QED
  BY TypeInit, TypeNext, <1>1, PTL DEF Spec
-----------------------------------------------------------------------------
\* What no step does: touch another thread, refill the budget, take a usage event
\* or a stored output back.

LEMMA StepIsLocal ==
  ASSUME TypeOK, NEW t \in Threads, Step(t), NEW u \in Threads, u # t
  PROVE  /\ pc'[u] = pc[u] /\ msg'[u] = msg[u] /\ verdict'[u] = verdict[u]
         /\ unacked'[u] = unacked[u] /\ loop'[u] = loop[u]
         /\ u \in stopped' <=> u \in stopped
BY DEF TypeOK, Step, TakeLoop, StoreLoop, TraceStart, TraceEnd, Begin, Refuse, SetRunning,
       PublishRunning, Screen, Guard1, Guard2, Guard3, RunTasks, Guard4, Charge,
       StopCommit, StopPublish, FinalCommit, FinalPublish, Ack, Leave, Halt, Goto, Conclude

LEMMA SpendFalls ==
  ASSUME budget \in [Events -> Nat], NEW e \in Events, Spend(e), NEW f \in Events
  PROVE  budget'[f] <= budget[f] /\ budget'[e] < budget[e]
BY DEF Spend

LEMMA BudgetFalls ==
  ASSUME TypeOK, [Next]_vars, NEW e \in Events
  PROVE  budget'[e] <= budget[e]
<1>1. budget' = budget \/ \E f \in Events : Spend(f)
  <2>1. ASSUME NEW j \in Jobs, Api(j) \/ FlagExpires(j)
        PROVE  budget' = budget \/ \E f \in Events : Spend(f)
    BY <2>1 DEF Api, SubmitGoal, Dispatch, DispatchFails, CancelRead, CancelFlag,
                CancelCommit, CancelPublish, FlagExpires, Publish, Events
  <2>2. ASSUME NEW t \in Threads, Step(t)
        PROVE  budget' = budget \/ \E f \in Events : Spend(f)
    BY <2>2 DEF Step, TakeLoop, StoreLoop, TraceStart, TraceEnd, Begin, Refuse, SetRunning,
                PublishRunning, Screen, Guard1, Guard2, Guard3, RunTasks, Guard4, Charge,
                StopCommit, StopPublish, FinalCommit, FinalPublish, Ack, Halt, Publish,
                SeesFlag, SeesNoFlag, Events
  <2>3. ASSUME NEW t \in Threads, Redeliver(t) \/ \E m \in Messages : Receive(t, m)
        PROVE  budget' = budget \/ \E f \in Events : Spend(f)
    BY <2>3 DEF Redeliver, Receive, Events
  <2>4. ASSUME NEW p \in Processes, Crash(p)
        PROVE  \E f \in Events : Spend(f)
    BY <2>4 DEF Crash, Events
  <2>5. CASE UNCHANGED vars \/ Rest
    BY <2>5 DEF vars, Rest
  <2> QED
    BY <2>1, <2>2, <2>3, <2>4, <2>5 DEF Next
<1>2. budget \in [Events -> Nat]
  BY DEF TypeOK
<1>3. CASE budget' = budget
  BY <1>2, <1>3
<1>4. CASE \E f \in Events : Spend(f)
  BY <1>2, <1>4, SpendFalls
<1> QED
  BY <1>1, <1>3, <1>4

\* A kind of event that did not happen up to now did not happen before.
LEMMA UnusedStays ==
  ASSUME TypeInv, TypeInv', [Next]_vars, NEW e \in Events, Used(e)' = 0
  PROVE  Used(e) = 0 /\ ~Spend(e)
<1>1. budget[e] \in Nat /\ budget'[e] \in Nat /\ Budget[e] \in Nat /\ budget[e] <= Budget[e]
  BY ConstantsOK DEF TypeInv, TypeOK, Within
<1>2. budget'[e] = Budget[e] /\ budget'[e] <= budget[e]
  BY <1>1, BudgetFalls DEF Used, TypeInv
<1>3. budget[e] = Budget[e]
  BY <1>1, <1>2
<1>4. Used(e) = 0
  BY <1>1, <1>3 DEF Used
<1>5. ~Spend(e)
  BY <1>1, <1>2, <1>3, SpendFalls DEF TypeInv, TypeOK
<1> QED
  BY <1>4, <1>5

-----------------------------------------------------------------------------
(* What a completed job and a stopped run are worth, whatever fails. *)

\* The verdict COMPLETED is reached behind the last guard, by the charge.
Late == \A t \in Threads :
          verdict[t] = "COMPLETED" => pc[t] \in {"commit2", "publish2", "ack"}

\* It stands for a usage event and, once written, for a stored output.
Earned ==
  \A t \in Threads :
    verdict[t] = "COMPLETED" =>
      /\ ledger[JobOf(t)] > 0
      /\ pc[t] = "publish2" => row[JobOf(t)].output

\* A stopped run still works on a job whose flag is up, and has not passed the
\* last guard.
Stopped ==
  FlagReliable =>
    \A t \in stopped :
      pc[t] \notin {"idle", "charge"} /\ flag[JobOf(t)] /\ verdict[t] # "COMPLETED"

BillInv == TypeInv /\ Late /\ Earned /\ CompletedIsBilled
StopInv == TypeInv /\ Late /\ Stopped

-----------------------------------------------------------------------------
\* The steps of a thread between two verdicts leave these facts alone.

LEMMA LateNext ==
  ASSUME TypeInv, Late, [Next]_vars
  PROVE  Late'
<1>1. ASSUME NEW t \in Threads, Step(t)
      PROVE  Late'
  <2>1. ASSUME NEW u \in Threads, u # t
        PROVE  verdict'[u] = "COMPLETED" => pc'[u] \in {"commit2", "publish2", "ack"}
    BY <1>1, <2>1, StepIsLocal DEF TypeInv, Late
  <2>2. verdict'[t] = "COMPLETED" => pc'[t] \in {"commit2", "publish2", "ack"}
    <3> USE DEF TypeInv, TypeOK, Late, Goto, Conclude
    <3>1. CASE TakeLoop(t) \/ StoreLoop(t) \/ TraceStart(t) \/ TraceEnd(t) \/ Begin(t)
      BY <3>1 DEF TakeLoop, StoreLoop, TraceStart, TraceEnd, Begin
    <3>2. CASE Refuse(t) \/ Ack(t)
      <4>1. verdict'[t] = None
        BY <3>2 DEF Refuse, Ack, Leave
      <4> QED
        BY <4>1, ConstantsOK DEF Statuses, Terminal
    <3>3. CASE SetRunning(t) \/ PublishRunning(t) \/ Screen(t) \/ RunTasks(t)
      BY <3>3 DEF SetRunning, PublishRunning, Screen, RunTasks
    <3>4. CASE Guard1(t) \/ Guard2(t) \/ Guard3(t) \/ Guard4(t)
      BY <3>4 DEF Guard1, Guard2, Guard3, Guard4, Halt
    <3>5. CASE Charge(t) \/ StopCommit(t) \/ StopPublish(t) \/ FinalCommit(t) \/ FinalPublish(t)
      BY <3>5 DEF Charge, StopCommit, StopPublish, FinalCommit, FinalPublish
    <3> QED
      BY <1>1, <3>1, <3>2, <3>3, <3>4, <3>5 DEF Step
  <2> QED
    BY <2>1, <2>2 DEF Late
<1>2. ASSUME NEW t \in Threads, NEW m \in Messages, Receive(t, m)
      PROVE  Late'
  <2>1. pc[t] = "idle" /\ verdict' = verdict /\ \A u \in Threads : u # t => pc'[u] = pc[u]
    BY <1>2 DEF TypeInv, TypeOK, Receive, Goto
  <2> QED
    BY <2>1 DEF Late
<1>3. ASSUME NEW p \in Processes, Crash(p)
      PROVE  Late'
  BY <1>3, ConstantsOK DEF TypeInv, TypeOK, Late, Crash, Statuses, Terminal
<1>4. ASSUME NEW j \in Jobs, Api(j) \/ FlagExpires(j)
      PROVE  Late'
  BY <1>4 DEF Late, Api, SubmitGoal, Dispatch, DispatchFails, CancelRead, CancelFlag,
              CancelCommit, CancelPublish, FlagExpires, worker, running
<1>5. ASSUME NEW t \in Threads, Redeliver(t)
      PROVE  Late'
  BY <1>5 DEF Late, Redeliver
<1>6. CASE UNCHANGED vars \/ Rest
  BY <1>6 DEF vars, Rest, Late
<1> QED
  BY <1>1, <1>2, <1>3, <1>4, <1>5, <1>6 DEF Next

\* No step takes a usage event back, nor a stored output.
LEMMA NothingLost ==
  ASSUME TypeInv, [Next]_vars, NEW j \in Jobs
  PROVE  ledger'[j] >= ledger[j] /\ (row[j].output => row'[j].output)
<1> USE DEF TypeInv, TypeOK
<1>a. ledger[j] \in Nat /\ ledger[j] + 1 >= ledger[j] /\ row[j] \in Rows
  OBVIOUS
<1>b. ASSUME NEW r \in Rows, NEW s
      PROVE  UpdateStatus(r, s).output = r.output
  BY DEF UpdateStatus, Rows
<1>1. ASSUME NEW t \in Threads, Step(t)
      PROVE  ledger'[j] >= ledger[j] /\ (row[j].output => row'[j].output)
  <2>1. CASE Charge(t)
    <3>1. row' = row /\ (ledger' = ledger \/ \E n \in 0..2 : AddEvents(t, n))
      BY <2>1 DEF Charge
    <3> QED
      BY <3>1, <1>a DEF AddEvents
  <2>2. CASE SetRunning(t) \/ StopCommit(t)
    BY <2>2, <1>a, <1>b DEF SetRunning, StopCommit
  <2>3. CASE FinalCommit(t)
    <3>1. ASSUME NEW s PROVE row[j].output => WriteVerdict(row[j], s).output
      <4>1. UpdateStatus(row[j], s) = [UpdateStatus(row[j], s) EXCEPT !.output = row[j].output]
        BY <1>a DEF UpdateStatus, Rows
      <4> QED
        BY <1>a DEF WriteVerdict, UpdateStatus, Rows
    <3> QED
      BY <2>3, <1>a, <3>1 DEF FinalCommit
  <2>4. CASE ledger' = ledger /\ row' = row
    BY <2>4, <1>a
  <2>5. ~(Charge(t) \/ SetRunning(t) \/ StopCommit(t) \/ FinalCommit(t))
          => ledger' = ledger /\ row' = row
    BY <1>1 DEF Step, TakeLoop, StoreLoop, TraceStart, TraceEnd, Begin, Refuse,
                PublishRunning, Screen, Guard1, Guard2, Guard3, RunTasks, Guard4,
                StopPublish, FinalPublish, Ack, rows
  <2> QED
    BY <2>1, <2>2, <2>3, <2>4, <2>5
<1>2. ASSUME NEW i \in Jobs, Api(i) \/ FlagExpires(i)
      PROVE  ledger'[j] >= ledger[j] /\ (row[j].output => row'[j].output)
  <2>1. ledger' = ledger
    BY <1>2 DEF Api, SubmitGoal, Dispatch, DispatchFails, CancelRead, CancelFlag,
                CancelCommit, CancelPublish, FlagExpires, rows
  <2>2. \/ row' = row
        \/ row' = [row EXCEPT ![i].status = "QUEUED"]
        \/ row' = [row EXCEPT ![i] = UpdateStatus(@, "CANCELLED")]
    BY <1>2 DEF Api, SubmitGoal, Dispatch, DispatchFails, CancelRead, CancelFlag,
                CancelCommit, CancelPublish, FlagExpires, rows
  <2>3. CASE row' = [row EXCEPT ![i].status = "QUEUED"]
    <3>1. [row[j] EXCEPT !.status = "QUEUED"].output = row[j].output
      BY <1>a DEF Rows
    <3> QED
      BY <2>1, <2>3, <3>1, <1>a
  <2>4. CASE row' = [row EXCEPT ![i] = UpdateStatus(@, "CANCELLED")]
    BY <2>1, <2>4, <1>a, <1>b
  <2> QED
    BY <2>1, <2>2, <2>3, <2>4, <1>a
<1>3. ASSUME NEW t \in Threads, Redeliver(t) \/ \E m \in Messages : Receive(t, m)
      PROVE  ledger' = ledger /\ row' = row
  BY <1>3 DEF Redeliver, Receive, rows
<1>4. ASSUME NEW p \in Processes, Crash(p)
      PROVE  ledger' = ledger /\ row' = row
  BY <1>4 DEF Crash, rows
<1>5. CASE UNCHANGED vars \/ Rest
  BY <1>5, <1>a DEF vars, Rest
<1> QED
  BY <1>1, <1>2, <1>3, <1>4, <1>5, <1>a DEF Next

\* A run that has the verdict COMPLETED keeps its job, and the output it wrote.
LEMMA EarnedNext ==
  ASSUME TypeInv, Late, Earned, [Next]_vars
  PROVE  Earned'
<1> USE DEF TypeInv, TypeOK
<1>1. SUFFICES ASSUME NEW t \in Threads, verdict'[t] = "COMPLETED"
               PROVE  /\ ledger'[JobOf(t)'] > 0
                      /\ pc'[t] = "publish2" => row'[JobOf(t)'].output
  BY DEF Earned
<1>a. ASSUME pc[t] # "idle"
      PROVE  JobOf(t) \in Jobs /\ ledger[JobOf(t)] \in Nat
  BY <1>a DEF JobOf, Messages, Sane
<1>b. ASSUME pc[t] # "idle"
      PROVE  /\ ledger'[JobOf(t)] >= ledger[JobOf(t)] /\ ledger'[JobOf(t)] \in Nat
             /\ row[JobOf(t)].output => row'[JobOf(t)].output
  BY <1>a, <1>b, NothingLost, TypeNext
<1>2. CASE /\ verdict'[t] = verdict[t] /\ msg'[t] = msg[t]
           /\ pc'[t] = "publish2" => pc[t] = "publish2"
  <2>1. pc[t] # "idle" /\ JobOf(t)' = JobOf(t)
    BY <1>1, <1>2 DEF Late, JobOf
  <2>2. ledger[JobOf(t)] > 0 /\ (pc[t] = "publish2" => row[JobOf(t)].output)
    BY <1>1, <1>2 DEF Earned
  <2> QED
    BY <1>2, <1>a, <1>b, <2>1, <2>2
<1>3. CASE Charge(t)
  <2>1. pc[t] # "idle" /\ JobOf(t)' = JobOf(t) /\ pc'[t] = "commit2"
    BY <1>3 DEF Charge, JobOf, Goto
  <2>2. \E n \in {1, 2} : AddEvents(t, n)
    BY <1>1, <1>3 DEF Charge, Conclude
  <2> QED
    BY <1>a, <2>1, <2>2 DEF AddEvents
<1>4. CASE FinalCommit(t)
  <2>1. pc[t] # "idle" /\ JobOf(t)' = JobOf(t) /\ verdict[t] = "COMPLETED"
    BY <1>1, <1>4 DEF FinalCommit, JobOf
  <2>2. ledger[JobOf(t)] > 0
    BY <2>1 DEF Earned
  <2>3. pc'[t] = "publish2" => row' = [row EXCEPT ![JobOf(t)] = WriteVerdict(@, verdict[t])]
    BY <1>4 DEF FinalCommit, Goto
  <2>4. WriteVerdict(row[JobOf(t)], verdict[t]).output
    <3>1. UpdateStatus(row[JobOf(t)], verdict[t]) \in Rows
      BY <1>a, <2>1, UpdateType DEF Statuses, Terminal
    <3> QED
      BY <2>1, <3>1 DEF WriteVerdict, Rows
  <2> QED
    BY <1>a, <1>b, <2>1, <2>2, <2>3, <2>4
<1>5. ASSUME NEW u \in Threads, Step(u)
      PROVE  \/ /\ verdict'[t] = verdict[t] /\ msg'[t] = msg[t]
                /\ pc'[t] = "publish2" => pc[t] = "publish2"
             \/ Charge(t) \/ FinalCommit(t)
  <2>1. CASE u # t
    BY <1>5, <2>1, StepIsLocal
  <2>2. CASE u = t
    <3> USE <2>2 DEF Goto, Conclude
    <3>1. CASE TakeLoop(u) \/ StoreLoop(u) \/ TraceStart(u) \/ TraceEnd(u) \/ Begin(u)
      BY <3>1 DEF TakeLoop, StoreLoop, TraceStart, TraceEnd, Begin
    <3>2. CASE Refuse(u) \/ Ack(u)
      <4>1. verdict'[t] = None
        BY <3>2 DEF Refuse, Ack, Leave
      <4> QED
        BY <1>1, <4>1, ConstantsOK DEF Statuses, Terminal
    <3>3. CASE SetRunning(u) \/ PublishRunning(u) \/ Screen(u) \/ RunTasks(u)
      BY <1>1, <3>3 DEF SetRunning, PublishRunning, Screen, RunTasks
    <3>4. CASE Guard1(u) \/ Guard2(u) \/ Guard3(u) \/ Guard4(u)
      BY <1>1, <3>4 DEF Guard1, Guard2, Guard3, Guard4, Halt
    <3>5. CASE Charge(u) \/ FinalCommit(u)
      BY <3>5
    <3>6. CASE StopCommit(u) \/ StopPublish(u) \/ FinalPublish(u)
      BY <3>6 DEF StopCommit, StopPublish, FinalPublish
    <3> QED
      BY <1>5, <3>1, <3>2, <3>3, <3>4, <3>5, <3>6 DEF Step
  <2> QED
    BY <2>1, <2>2
<1>6. ASSUME NEW j \in Jobs, Api(j) \/ FlagExpires(j)
      PROVE  verdict'[t] = verdict[t] /\ msg'[t] = msg[t] /\ pc'[t] = pc[t]
  BY <1>6 DEF Api, SubmitGoal, Dispatch, DispatchFails, CancelRead, CancelFlag,
              CancelCommit, CancelPublish, FlagExpires, worker, running
<1>7. ASSUME NEW u \in Threads, NEW m \in Messages, Receive(u, m)
      PROVE  verdict'[t] = verdict[t] /\ msg'[t] = msg[t] /\ pc'[t] = pc[t]
  <2>1. pc[u] = "idle" /\ verdict' = verdict
    BY <1>7 DEF Receive
  <2>2. u # t
    BY <1>1, <2>1 DEF Late
  <2> QED
    BY <1>7, <2>1, <2>2 DEF Receive, Goto
<1>8. ASSUME NEW u \in Threads, Redeliver(u)
      PROVE  verdict'[t] = verdict[t] /\ msg'[t] = msg[t] /\ pc'[t] = pc[t]
  BY <1>8 DEF Redeliver
<1>9. ASSUME NEW p \in Processes, Crash(p)
      PROVE  verdict'[t] = verdict[t] /\ msg'[t] = msg[t] /\ pc'[t] = pc[t]
  <2>1. None # "COMPLETED"
    BY ConstantsOK DEF Statuses, Terminal
  <2> QED
    BY <1>1, <1>9, <2>1 DEF Crash
<1>10. CASE UNCHANGED vars \/ Rest
  BY <1>2, <1>10 DEF vars, Rest
<1> QED
  BY <1>2, <1>3, <1>4, <1>5, <1>6, <1>7, <1>8, <1>9, <1>10 DEF Next

\* COMPLETED gets into a row or on a channel from a verdict and from nowhere else.
LEMMA OnlyVerdictsComplete ==
  ASSUME TypeInv, [Next]_vars, NEW j \in Jobs, "COMPLETED" \in {row'[j].status, pub'[j]}
  PROVE  \/ "COMPLETED" \in {row[j].status, pub[j]}
         \/ \E t \in Threads :
              /\ JobOf(t) = j /\ verdict[t] = "COMPLETED" /\ pc[t] # "idle"
              /\ pc[t] = "publish2" \/ row'[j].output
<1> USE DEF TypeInv, TypeOK
<1>0. ASSUME NEW r \in Rows, NEW s
      PROVE  UpdateStatus(r, s).status = s
  BY DEF UpdateStatus, Rows
<1>1. ASSUME NEW t \in Threads, Step(t)
      PROVE  \/ row'[j].status = row[j].status /\ pub'[j] = pub[j]
             \/ JobOf(t) = j /\ verdict[t] = "COMPLETED" /\ pc[t] = "publish2"
             \/ JobOf(t) = j /\ verdict[t] = "COMPLETED" /\ pc[t] = "commit2" /\ row'[j].output
             \/ row'[j].status # "COMPLETED" /\ pub'[j] = pub[j]
             \/ row'[j].status = row[j].status /\ pub'[j] # "COMPLETED"
  <2>1. CASE SetRunning(t) \/ StopCommit(t)
    BY <2>1, <1>0 DEF SetRunning, StopCommit
  <2>2. CASE PublishRunning(t) \/ StopPublish(t) \/ FinalPublish(t)
    BY <2>2 DEF PublishRunning, StopPublish, FinalPublish, Publish
  <2>3. CASE FinalCommit(t)
    <3>1. verdict[t] \in Statuses /\ pc[t] = "commit2"
      BY <2>3 DEF FinalCommit, Sane, Statuses
    <3>2. UpdateStatus(row[j], verdict[t]) \in Rows /\ WriteVerdict(row[j], verdict[t]).status = verdict[t]
      BY <3>1, UpdateType, VerdictType
    <3>3. verdict[t] = "COMPLETED" => WriteVerdict(row[j], verdict[t]).output
      BY <3>2 DEF WriteVerdict, Rows
    <3> QED
      BY <2>3, <3>1, <3>2, <3>3 DEF FinalCommit
  <2>4. ~(SetRunning(t) \/ StopCommit(t) \/ PublishRunning(t) \/ StopPublish(t)
          \/ FinalPublish(t) \/ FinalCommit(t)) => row' = row /\ pub' = pub
    BY <1>1 DEF Step, TakeLoop, StoreLoop, TraceStart, TraceEnd, Begin, Refuse, Screen,
                Guard1, Guard2, Guard3, RunTasks, Guard4, Charge, Ack, rows
  <2> QED
    BY <2>1, <2>2, <2>3, <2>4
<1>2. ASSUME NEW i \in Jobs, Api(i) \/ FlagExpires(i)
      PROVE  "COMPLETED" \in {row[j].status, pub[j]}
  <2>1. /\ \/ row' = row
           \/ row' = [row EXCEPT ![i].status = "QUEUED"]
           \/ row' = [row EXCEPT ![i] = UpdateStatus(@, "CANCELLED")]
        /\ pub' = pub \/ pub' = [pub EXCEPT ![i] = "CANCELLED"]
    BY <1>2 DEF Api, SubmitGoal, Dispatch, DispatchFails, CancelRead, CancelFlag,
                CancelCommit, CancelPublish, FlagExpires, Publish, rows
  <2>2. pub'[j] = "COMPLETED" => pub[j] = "COMPLETED"
    BY <2>1
  <2>3. [row[j] EXCEPT !.status = "QUEUED"].status = "QUEUED"
    BY DEF Rows
  <2>4. row'[j].status = "COMPLETED" => row[j].status = "COMPLETED"
    <3>1. row'[j] = row[j] \/ row'[j] = [row[j] EXCEPT !.status = "QUEUED"]
          \/ row'[j] = UpdateStatus(row[j], "CANCELLED")
      BY <2>1
    <3>2. row[j] \in Rows
      OBVIOUS
    <3>3. UpdateStatus(row[j], "CANCELLED").status = "CANCELLED"
      BY <3>2, <1>0
    <3>4. CASE row'[j] = [row[j] EXCEPT !.status = "QUEUED"]
      BY <3>4, <2>3
    <3>5. CASE row'[j] = UpdateStatus(row[j], "CANCELLED")
      BY <3>5, <3>3
    <3> QED
      BY <3>1, <3>4, <3>5
  <2> QED
    BY <2>2, <2>4
<1>3. ASSUME NEW t \in Threads, Redeliver(t) \/ \E m \in Messages : Receive(t, m)
      PROVE  row' = row /\ pub' = pub
  BY <1>3 DEF Redeliver, Receive, rows
<1>4. ASSUME NEW p \in Processes, Crash(p)
      PROVE  row' = row /\ pub' = pub
  BY <1>4 DEF Crash, rows
<1>5. CASE UNCHANGED vars \/ Rest
  BY <1>5 DEF vars, Rest
<1> QED
  BY <1>1, <1>2, <1>3, <1>4, <1>5 DEF Next

LEMMA BillNext == BillInv /\ [Next]_vars => BillInv'
<1> SUFFICES ASSUME BillInv, [Next]_vars PROVE BillInv'
  OBVIOUS
<1>1. TypeInv' /\ Late' /\ Earned'
  BY TypeNext, LateNext, EarnedNext DEF BillInv
<1>2. ASSUME NEW j \in Jobs, "COMPLETED" \in {row'[j].status, pub'[j]}
      PROVE  ledger'[j] > 0 /\ row'[j].output
  <2>1. ledger'[j] >= ledger[j] /\ (row[j].output => row'[j].output)
    BY NothingLost DEF BillInv
  <2>2. ledger[j] \in Nat /\ ledger'[j] \in Nat
    BY <1>1 DEF BillInv, TypeInv, TypeOK
  <2>3. CASE "COMPLETED" \in {row[j].status, pub[j]}
    BY <2>1, <2>2, <2>3 DEF BillInv, CompletedIsBilled
  <2>4. ASSUME NEW t \in Threads, JobOf(t) = j, verdict[t] = "COMPLETED",
               pc[t] = "publish2" \/ row'[j].output
        PROVE  ledger'[j] > 0 /\ row'[j].output
    BY <2>1, <2>2, <2>4 DEF BillInv, Earned
  <2> QED
    BY <1>2, <2>3, <2>4, OnlyVerdictsComplete DEF BillInv
<1> QED
  BY <1>1, <1>2 DEF BillInv, CompletedIsBilled

\* COMPLETED, in the row or on the channel, always stands for a usage event in
\* the ledger and a stored output: no crash, redelivery, cancellation or failed
\* write can bring about a completed job that is unbilled or has lost its result.
THEOREM CompletedIsAlwaysBilled == Spec => []CompletedIsBilled
<1>1. Init => BillInv
  <2> SUFFICES ASSUME Init PROVE BillInv
    OBVIOUS
  <2>1. None # "COMPLETED"
    BY ConstantsOK DEF Statuses, Terminal
  <2>2. Late /\ Earned
    BY <2>1 DEF Init, Late, Earned
  <2>3. CompletedIsBilled
    BY <2>1 DEF Init, CompletedIsBilled
  <2> QED
    BY <2>1, <2>2, <2>3, TypeInit DEF BillInv
<1>2. BillInv => CompletedIsBilled
  BY DEF BillInv
<1> QED
  BY <1>1, <1>2, BillNext, PTL DEF Spec

-----------------------------------------------------------------------------
\* A guard that a reliable flag is up for lets no run pass.
LEMMA FlagHolds ==
  ASSUME TypeInv, TypeInv', [Next]_vars, FlagReliable'
  PROVE  /\ FlagReliable
         /\ ~Spend("expire") /\ ~Spend("redis")
         /\ \A j \in Jobs : SeesNoFlag(j) => ~flag[j]
<1>1. "expire" \in Events /\ "redis" \in Events
  BY DEF Events
<1>2. Used("expire")' = 0 /\ Used("redis")' = 0
  BY DEF FlagReliable
<1>3. Used("expire") = 0 /\ ~Spend("expire") /\ Used("redis") = 0 /\ ~Spend("redis")
  BY <1>1, <1>2, UnusedStays
<1> QED
  BY <1>3 DEF FlagReliable, SeesNoFlag

LEMMA StopNext == StopInv /\ [Next]_vars => StopInv'
<1> SUFFICES ASSUME StopInv, [Next]_vars PROVE StopInv'
  OBVIOUS
<1> USE DEF StopInv
<1>1. TypeInv' /\ Late'
  BY TypeNext, LateNext
<1>2. SUFFICES ASSUME FlagReliable', NEW t \in Threads, t \in stopped'
               PROVE  pc'[t] \notin {"idle", "charge"} /\ flag'[JobOf(t)'] /\ verdict'[t] # "COMPLETED"
  BY <1>1 DEF Stopped, TypeInv, TypeOK
<1>3. FlagReliable /\ ~Spend("expire") /\ \A j \in Jobs : SeesNoFlag(j) => ~flag[j]
  BY <1>1, <1>2, FlagHolds
<1>4. t \in stopped =>
        pc[t] \notin {"idle", "charge"} /\ flag[JobOf(t)] /\ verdict[t] # "COMPLETED"
  BY <1>3 DEF Stopped
<1>a. pc[t] # "idle" => JobOf(t) \in Jobs
  BY DEF TypeInv, Sane, JobOf, Messages
<1>5. ASSUME NEW u \in Threads, Step(u)
      PROVE  pc'[t] \notin {"idle", "charge"} /\ flag'[JobOf(t)'] /\ verdict'[t] # "COMPLETED"
  <2>1. flag' = flag
    BY <1>5 DEF Step, TakeLoop, StoreLoop, TraceStart, TraceEnd, Begin, Refuse, SetRunning,
                PublishRunning, Screen, Guard1, Guard2, Guard3, RunTasks, Guard4, Charge,
                StopCommit, StopPublish, FinalCommit, FinalPublish, Ack, rows
  <2>2. CASE u # t
    BY <1>2, <1>4, <1>5, <2>1, <2>2, StepIsLocal DEF TypeInv, JobOf
  <2>3. CASE u = t
    <3> USE <2>3 DEF TypeInv, TypeOK, Goto, Conclude
    <3>1. CASE Refuse(u) \/ Ack(u)
      BY <1>2, <3>1 DEF Refuse, Ack, Leave
    <3>2. ASSUME stopped' = stopped, msg' = msg,
                 pc'[t] \notin {"idle", "charge"}, verdict'[t] # "COMPLETED"
          PROVE  pc'[t] \notin {"idle", "charge"} /\ flag'[JobOf(t)'] /\ verdict'[t] # "COMPLETED"
      BY <1>2, <1>4, <2>1, <3>2 DEF JobOf
    <3>3. CASE TakeLoop(u) \/ StoreLoop(u) \/ TraceStart(u) \/ TraceEnd(u) \/ Begin(u)
      BY <1>2, <1>4, <3>3, <3>2 DEF TakeLoop, StoreLoop, TraceStart, TraceEnd, Begin
    <3>4. CASE SetRunning(u) \/ PublishRunning(u) \/ Screen(u) \/ RunTasks(u)
      BY <1>2, <1>4, <3>4, <3>2 DEF SetRunning, PublishRunning, Screen, RunTasks
    <3>5. CASE Guard1(u) \/ Guard2(u) \/ Guard3(u)
      BY <1>2, <1>4, <3>5, <3>2 DEF Guard1, Guard2, Guard3, Halt
    <3>6. CASE Guard4(u)
      <4>1. t \in stopped /\ pc[t] # "idle"
        BY <1>2, <3>6 DEF Guard4
      <4>2. ~SeesNoFlag(JobOf(t))
        BY <1>3, <1>4, <1>a, <4>1
      <4> QED
        BY <1>2, <1>4, <3>6, <4>1, <4>2, <3>2 DEF Guard4, Halt
    <3>7. CASE Charge(u)
      BY <1>2, <1>4, <3>7 DEF Charge
    <3>8. CASE StopCommit(u) \/ StopPublish(u) \/ FinalCommit(u) \/ FinalPublish(u)
      BY <1>2, <1>4, <3>8, <3>2 DEF StopCommit, StopPublish, FinalCommit, FinalPublish
    <3> QED
      BY <1>5, <3>1, <3>3, <3>4, <3>5, <3>6, <3>7, <3>8 DEF Step
  <2> QED
    BY <2>2, <2>3
<1>6. ASSUME NEW j \in Jobs, CancelFlag(j)
      PROVE  pc'[t] \notin {"idle", "charge"} /\ flag'[JobOf(t)'] /\ verdict'[t] # "COMPLETED"
  <2>1. pc' = pc /\ msg' = msg /\ verdict' = verdict
    BY <1>6 DEF CancelFlag, running
  <2>2. \A i \in Jobs : flag[i] => flag'[i]
    BY <1>6 DEF CancelFlag, TypeInv, TypeOK
  <2>3. CASE t \in stopped
    BY <1>4, <1>a, <2>1, <2>2, <2>3 DEF JobOf
  <2>4. CASE t \notin stopped
    <3>1. pc[t] \in GuardAhead /\ JobOf(t) = j /\ flag'[j]
      BY <1>2, <1>6, <2>4 DEF CancelFlag, TypeInv, TypeOK
    <3> QED
      BY <2>1, <3>1 DEF GuardAhead, Late, JobOf
  <2> QED
    BY <2>3, <2>4
<1>7. ASSUME NEW j \in Jobs,
             FlagExpires(j) \/ SubmitGoal(j) \/ Dispatch(j) \/ DispatchFails(j)
             \/ CancelRead(j) \/ CancelCommit(j) \/ CancelPublish(j)
      PROVE  pc'[t] \notin {"idle", "charge"} /\ flag'[JobOf(t)'] /\ verdict'[t] # "COMPLETED"
  BY <1>2, <1>3, <1>4, <1>7
     DEF SubmitGoal, Dispatch, DispatchFails, CancelRead, CancelCommit, CancelPublish,
         FlagExpires, rows, worker, running, JobOf
<1>8. ASSUME NEW u \in Threads, NEW m \in Messages, Receive(u, m)
      PROVE  pc'[t] \notin {"idle", "charge"} /\ flag'[JobOf(t)'] /\ verdict'[t] # "COMPLETED"
  <2>1. CASE u = t
    BY <1>2, <1>4, <1>8, <2>1 DEF Receive, Goto, TypeInv, TypeOK, rows, JobOf, Late
  <2>2. CASE u # t
    BY <1>2, <1>4, <1>8, <2>2 DEF Receive, Goto, TypeInv, TypeOK, rows, JobOf
  <2> QED
    BY <2>1, <2>2
<1>9. ASSUME NEW u \in Threads, Redeliver(u)
      PROVE  pc'[t] \notin {"idle", "charge"} /\ flag'[JobOf(t)'] /\ verdict'[t] # "COMPLETED"
  BY <1>2, <1>4, <1>9 DEF Redeliver, rows, JobOf
<1>10. ASSUME NEW p \in Processes, Crash(p)
       PROVE  pc'[t] \notin {"idle", "charge"} /\ flag'[JobOf(t)'] /\ verdict'[t] # "COMPLETED"
  BY <1>2, <1>4, <1>10 DEF Crash, rows, JobOf
<1>11. CASE UNCHANGED vars \/ Rest
  BY <1>2, <1>4, <1>11 DEF vars, Rest, JobOf
<1> QED
  BY <1>5, <1>6, <1>7, <1>8, <1>9, <1>10, <1>11 DEF Next, Api

LEMMA StopInit == Init => StopInv
<1> SUFFICES ASSUME Init PROVE StopInv
  OBVIOUS
<1>1. None # "COMPLETED"
  BY ConstantsOK DEF Statuses, Terminal
<1> QED
  BY <1>1, TypeInit DEF Init, StopInv, Late, Stopped

\* A run that was stopped while it had a look at the flag ahead of it is never
\* billed and never completes, unless the flag expired or Redis failed.
THEOREM StopIsAlwaysObeyed == Spec => []StopIsObeyed
<1>1. StopInv => StopIsObeyed
  BY DEF StopInv, Stopped, StopIsObeyed
<1> QED
  BY <1>1, StopInit, StopNext, PTL DEF Spec

\* Nor does any such run start the team tasks: no step of the system takes a
\* stopped run into its tools.
THEOREM NoWorkIsStarted == Spec => NoWorkAfterStop
<1>1. StopInv /\ [Next]_vars =>
        [\A t \in stopped : FlagReliable' /\ pc'[t] = "tasks" => pc[t] = "tasks"]_vars
  <2> SUFFICES ASSUME StopInv, [Next]_vars, NEW t \in stopped,
                      FlagReliable', pc'[t] = "tasks", pc[t] # "tasks"
               PROVE  FALSE
    OBVIOUS
  <2> USE DEF StopInv, TypeInv, TypeOK
  <2>1. FlagReliable /\ \A j \in Jobs : SeesNoFlag(j) => ~flag[j]
    BY FlagHolds, StopNext
  <2>2. t \in Threads /\ flag[JobOf(t)] /\ pc[t] # "idle"
    BY <2>1 DEF Stopped
  <2>3. JobOf(t) \in Jobs
    BY <2>2 DEF Sane, JobOf, Messages
  <2>4. ~Guard3(t)
    BY <2>1, <2>2, <2>3 DEF Guard3, Halt, Goto
  <2>5. ASSUME NEW u \in Threads, Step(u) PROVE FALSE
    <3>1. u = t
      BY <2>2, <2>5, StepIsLocal
    <3> QED
      BY <2>2, <2>4, <2>5, <3>1
         DEF Step, TakeLoop, StoreLoop, TraceStart, TraceEnd, Begin, Refuse, SetRunning,
             PublishRunning, Screen, Guard1, Guard2, RunTasks, Guard4, Charge, Halt,
             StopCommit, StopPublish, FinalCommit, FinalPublish, Ack, Leave, Goto
  <2>6. ASSUME NEW j \in Jobs, Api(j) \/ FlagExpires(j) PROVE pc' = pc
    BY <2>6 DEF Api, SubmitGoal, Dispatch, DispatchFails, CancelRead, CancelFlag,
                CancelCommit, CancelPublish, FlagExpires, worker, running
  <2>7. ASSUME NEW u \in Threads, NEW m \in Messages, Receive(u, m) PROVE FALSE
    BY <2>2, <2>7 DEF Receive, Goto
  <2>8. ASSUME NEW u \in Threads, Redeliver(u) PROVE pc' = pc
    BY <2>8 DEF Redeliver
  <2>9. ASSUME NEW p \in Processes, Crash(p) PROVE FALSE
    BY <2>2, <2>9 DEF Crash
  <2>10. CASE UNCHANGED vars \/ Rest
    BY <2>10 DEF vars, Rest
  <2> QED
    BY <2>5, <2>6, <2>7, <2>8, <2>9, <2>10 DEF Next
<1> QED
  BY <1>1, StopInit, StopNext, PTL DEF Spec, NoWorkAfterStop
-----------------------------------------------------------------------------
(* Counting threads. *)

LEMMA CountType ==
  ASSUME NEW S \in SUBSET Threads
  PROVE  IsFiniteSet(S) /\ Cardinality(S) \in Nat
BY ConstantsOK, FS_Subset, FS_CardinalityType

LEMMA CountShrinks ==
  ASSUME NEW T \in SUBSET Threads, NEW S \in SUBSET T
  PROVE  Cardinality(S) <= Cardinality(T)
BY CountType, FS_Subset

LEMMA CountGrows ==
  ASSUME NEW T \in SUBSET Threads, NEW t \in Threads, NEW S \in SUBSET (T \cup {t})
  PROVE  Cardinality(S) <= Cardinality(T) + 1
<1>1. IsFiniteSet(T) /\ Cardinality(T) \in Nat
  BY CountType
<1>2. IsFiniteSet(T \cup {t}) /\ Cardinality(T \cup {t}) <= Cardinality(T) + 1
  BY <1>1, FS_AddElement
<1>3. Cardinality(S) \in Nat /\ Cardinality(T \cup {t}) \in Nat
  BY CountType
<1>4. Cardinality(S) <= Cardinality(T \cup {t})
  BY <1>2, FS_Subset
<1> QED
  BY <1>1, <1>2, <1>3, <1>4

LEMMA CountLoses ==
  ASSUME NEW T \in SUBSET Threads, NEW t \in T, NEW S \in SUBSET (T \ {t})
  PROVE  Cardinality(S) + 1 <= Cardinality(T)
<1>1. IsFiniteSet(T) /\ Cardinality(T) \in Nat
  BY CountType
<1>2. IsFiniteSet(T \ {t}) /\ Cardinality(T \ {t}) = Cardinality(T) - 1
  BY <1>1, FS_RemoveElement
<1>3. Cardinality(S) \in Nat
  BY CountType
<1>4. Cardinality(S) <= Cardinality(T \ {t})
  BY <1>2, FS_Subset
<1> QED
  BY <1>1, <1>2, <1>3, <1>4

-----------------------------------------------------------------------------
(* Answers and usage events. *)

\* The runs of a job that may still post an answer.
Answering(j) ==
  {t \in Threads : /\ verdict[t] = "COMPLETED"
                   /\ pc[t] \in {"commit2", "publish2"}
                   /\ JobOf(t) = j}

\* Each of them has appended a usage event that no answer stands for yet.
Answers == \A j \in Jobs : posts[j] + Cardinality(Answering(j)) <= ledger[j]

AnswerInv == TypeInv /\ Late /\ Answers

\* A run can answer only if it could before, or has just been charged for.
LEMMA AnsweringStep ==
  ASSUME TypeInv, Late, NEW t \in Threads, Step(t), NEW j \in Jobs
  PROVE  \/ /\ Answering(j)' \subseteq Answering(j)
            /\ posts' = posts
         \/ /\ Charge(t) /\ JobOf(t) = j /\ verdict'[t] = "COMPLETED"
            /\ Answering(j)' \subseteq Answering(j) \cup {t}
            /\ posts' = posts
         \/ /\ FinalPublish(t)
            /\ Answering(j)' \subseteq Answering(j) \ {t}
            /\ \/ posts'[j] = posts[j]
               \/ t \in Answering(j) /\ posts'[j] = posts[j] + 1
<1> USE DEF TypeInv, TypeOK
<1>a. ASSUME NEW u \in Threads, u # t
      PROVE  u \in Answering(j)' <=> u \in Answering(j)
  BY <1>a, StepIsLocal DEF Answering, JobOf
<1>b. pc[t] # "idle" => JobOf(t) \in Jobs
  BY DEF Sane, JobOf, Messages
<1>1. CASE Charge(t)
  <2>1. posts' = posts /\ msg' = msg /\ JobOf(t)' = JobOf(t)
    BY <1>1 DEF Charge, JobOf
  <2>2. t \in Answering(j)' => JobOf(t) = j /\ verdict'[t] = "COMPLETED"
    BY <2>1 DEF Answering
  <2>3. CASE t \in Answering(j)'
    BY <1>1, <1>a, <2>1, <2>2, <2>3 DEF Answering
  <2>4. CASE t \notin Answering(j)'
    BY <1>a, <2>1, <2>4 DEF Answering
  <2> QED
    BY <2>3, <2>4
<1>2. CASE FinalPublish(t)
  <2>1. pc'[t] = "ack" /\ pc[t] = "publish2"
    BY <1>2 DEF FinalPublish, Goto
  <2>2. t \notin Answering(j)'
    BY <2>1 DEF Answering
  <2>3. \/ posts'[j] = posts[j]
        \/ verdict[t] = "COMPLETED" /\ JobOf(t) = j /\ posts'[j] = posts[j] + 1
    BY <1>2 DEF FinalPublish
  <2>4. posts'[j] = posts[j] \/ (t \in Answering(j) /\ posts'[j] = posts[j] + 1)
    BY <2>1, <2>3 DEF Answering
  <2>5. Answering(j)' \subseteq Answering(j) \ {t}
    BY <1>a, <2>2 DEF Answering
  <2> QED
    BY <1>2, <2>4, <2>5
<1>3. CASE ~Charge(t) /\ ~FinalPublish(t)
  <2>1. posts' = posts
    BY <1>3 DEF Step, TakeLoop, StoreLoop, TraceStart, TraceEnd, Begin, Refuse, SetRunning,
                PublishRunning, Screen, Guard1, Guard2, Guard3, RunTasks, Guard4,
                StopCommit, StopPublish, FinalCommit, Ack, rows
  <2>2. t \in Answering(j)' => t \in Answering(j)
    <3> SUFFICES ASSUME verdict'[t] = "COMPLETED", pc'[t] \in {"commit2", "publish2"}
                 PROVE  verdict[t] = "COMPLETED" /\ pc[t] \in {"commit2", "publish2"}
                        /\ msg' = msg
      BY DEF Answering, JobOf
    <3> USE DEF Goto, Conclude
    <3>1. CASE TakeLoop(t) \/ StoreLoop(t) \/ TraceStart(t) \/ TraceEnd(t) \/ Begin(t)
      BY <3>1 DEF TakeLoop, StoreLoop, TraceStart, TraceEnd, Begin
    <3>2. CASE Refuse(t) \/ Ack(t)
      BY <3>2 DEF Refuse, Ack, Leave
    <3>3. CASE SetRunning(t) \/ PublishRunning(t) \/ Screen(t) \/ RunTasks(t)
      BY <3>3 DEF SetRunning, PublishRunning, Screen, RunTasks, Late
    <3>4. CASE Guard1(t) \/ Guard2(t) \/ Guard3(t) \/ Guard4(t)
      BY <3>4 DEF Guard1, Guard2, Guard3, Guard4, Halt, Late
    <3>5. CASE StopCommit(t) \/ StopPublish(t) \/ FinalCommit(t)
      BY <3>5 DEF StopCommit, StopPublish, FinalCommit, Late
    <3> QED
      BY <1>3, <3>1, <3>2, <3>3, <3>4, <3>5 DEF Step
  <2> QED
    BY <1>a, <2>1, <2>2 DEF Answering
<1> QED
  BY <1>1, <1>2, <1>3

LEMMA AnswersNext ==
  ASSUME AnswerInv, [Next]_vars
  PROVE  AnswerInv'
<1> USE DEF AnswerInv
<1>1. TypeInv' /\ Late'
  BY TypeNext, LateNext
<1>2. SUFFICES ASSUME NEW j \in Jobs
               PROVE  posts'[j] + Cardinality(Answering(j)') <= ledger'[j]
  BY <1>1 DEF Answers
<1>3. /\ posts[j] \in Nat /\ posts'[j] \in Nat /\ ledger[j] \in Nat /\ ledger'[j] \in Nat
      /\ ledger'[j] >= ledger[j]
  BY <1>1, NothingLost DEF TypeInv, TypeOK
<1>4. /\ Answering(j) \in SUBSET Threads /\ Answering(j)' \in SUBSET Threads
      /\ Cardinality(Answering(j)) \in Nat /\ Cardinality(Answering(j)') \in Nat
  <2>1. Answering(j) \in SUBSET Threads /\ Answering(j)' \in SUBSET Threads
    BY DEF Answering
  <2> QED
    BY <2>1, CountType
<1>5. posts[j] + Cardinality(Answering(j)) <= ledger[j]
  BY DEF Answers
<1>6. CASE Answering(j)' \subseteq Answering(j) /\ posts' = posts
  <2>1. Cardinality(Answering(j)') <= Cardinality(Answering(j))
    BY <1>4, <1>6, CountShrinks
  <2> QED
    BY <1>3, <1>4, <1>5, <1>6, <2>1
<1>7. ASSUME NEW t \in Threads, Step(t)
      PROVE  posts'[j] + Cardinality(Answering(j)') <= ledger'[j]
  <2>1. CASE /\ Charge(t) /\ JobOf(t) = j /\ verdict'[t] = "COMPLETED"
             /\ Answering(j)' \subseteq Answering(j) \cup {t}
             /\ posts' = posts
    <3>1. Cardinality(Answering(j)') <= Cardinality(Answering(j)) + 1
      BY <1>4, <2>1, CountGrows
    <3>2. pc[t] = "charge" /\ \E n \in {1, 2} : AddEvents(t, n)
      BY <2>1 DEF Charge, Conclude, TypeInv, TypeOK
    <3>3. ledger'[j] >= ledger[j] + 1
      BY <2>1, <3>2 DEF AddEvents, TypeInv, TypeOK
    <3> QED
      BY <1>3, <1>4, <1>5, <2>1, <3>1, <3>3
  <2>2. CASE /\ Answering(j)' \subseteq Answering(j) \ {t}
             /\ \/ posts'[j] = posts[j]
                \/ t \in Answering(j) /\ posts'[j] = posts[j] + 1
    <3>1. CASE posts'[j] = posts[j]
      <4>1. Cardinality(Answering(j)') <= Cardinality(Answering(j))
        BY <1>4, <2>2, CountShrinks
      <4> QED
        BY <1>3, <1>4, <1>5, <3>1, <4>1
    <3>2. CASE t \in Answering(j) /\ posts'[j] = posts[j] + 1
      <4>1. Cardinality(Answering(j)') + 1 <= Cardinality(Answering(j))
        BY <1>4, <2>2, <3>2, CountLoses
      <4> QED
        BY <1>3, <1>4, <1>5, <3>2, <4>1
    <3> QED
      BY <2>2, <3>1, <3>2
  <2> QED
    BY <1>6, <1>7, <2>1, <2>2, AnsweringStep
<1>8. ASSUME NEW i \in Jobs, Api(i) \/ FlagExpires(i)
      PROVE  Answering(j)' \subseteq Answering(j) /\ posts' = posts
  BY <1>8 DEF Api, SubmitGoal, Dispatch, DispatchFails, CancelRead, CancelFlag, CancelCommit,
              CancelPublish, FlagExpires, worker, running, rows, Answering, JobOf
<1>9. ASSUME NEW t \in Threads, NEW m \in Messages, Receive(t, m)
      PROVE  Answering(j)' \subseteq Answering(j) /\ posts' = posts
  <2>1. verdict[t] # "COMPLETED" /\ verdict' = verdict /\ posts' = posts
        /\ \A u \in Threads : u # t => pc'[u] = pc[u] /\ msg'[u] = msg[u]
    BY <1>9 DEF Receive, Late, Goto, rows, TypeInv, TypeOK
  <2> QED
    BY <2>1 DEF Answering, JobOf
<1>10. ASSUME NEW t \in Threads, Redeliver(t)
       PROVE  Answering(j)' \subseteq Answering(j) /\ posts' = posts
  BY <1>10 DEF Redeliver, rows, Answering, JobOf
<1>11. ASSUME NEW p \in Processes, Crash(p)
       PROVE  Answering(j)' \subseteq Answering(j) /\ posts' = posts
  BY <1>11 DEF Crash, rows, Answering, JobOf
<1>12. CASE UNCHANGED vars \/ Rest
  BY <1>6, <1>12 DEF vars, Rest, Answering, JobOf
<1> QED
  BY <1>6, <1>7, <1>8, <1>9, <1>10, <1>11, <1>12 DEF Next

\* No job's thread ever gets more answers than runs of the job were billed: each
\* answer is posted by a run whose usage event is in the ledger, and by no other.
THEOREM AnswersAreAlwaysBilled == Spec => []AnswersAreBilled
<1>1. Init => AnswerInv
  <2> SUFFICES ASSUME Init PROVE AnswerInv
    OBVIOUS
  <2>1. None # "COMPLETED"
    BY ConstantsOK DEF Statuses, Terminal
  <2>2. Late /\ \A j \in Jobs : Answering(j) = {}
    BY <2>1 DEF Init, Late, Answering
  <2>3. Answers
    <3> SUFFICES ASSUME NEW j \in Jobs
                 PROVE  posts[j] + Cardinality(Answering(j)) <= ledger[j]
      BY DEF Answers
    <3>1. Cardinality(Answering(j)) = 0
      BY <2>2, FS_EmptySet
    <3>2. posts[j] = 0 /\ ledger[j] = 0
      BY DEF Init
    <3> QED
      BY <3>1, <3>2
  <2> QED
    BY <2>2, <2>3, TypeInit DEF AnswerInv
<1>2. AnswerInv => AnswersAreBilled
  <2> SUFFICES ASSUME AnswerInv, NEW j \in Jobs PROVE posts[j] <= ledger[j]
    BY DEF AnswersAreBilled
  <2>1. Cardinality(Answering(j)) \in Nat
    BY CountType DEF Answering
  <2> QED
    BY <2>1 DEF AnswerInv, Answers, TypeInv, TypeOK
<1> QED
  BY <1>1, <1>2, AnswersNext, PTL DEF Spec
=============================================================================
