-------------------------- MODULE JobCustodyProofs --------------------------
(***************************************************************************)
(* The path of a job between the API, the broker and the workers, for any  *)
(* number of jobs, processes and threads and every Budget that each        *)
(* theorem names.                                                          *)
(*                                                                         *)
(*  - Late acknowledgement loses no job when no two threads share a        *)
(*    process.  (The JobsStranded run shows a job lost when they do.)      *)
(*  - A job is billed no more often than it is delivered.                  *)
(*  - The program implements JobFlow, the documented status flow.          *)
(*  - At rest the subscribers of every job heard its final status last.    *)
(***************************************************************************)
EXTENDS JobLifecycleProofs

\* Each worker process runs one task at a time: the prefork pool.
Solo == \A t, u \in Threads : ProcessOf[t] = ProcessOf[u] => t = u

\* A loop belongs to the process of the threads that hold it.
LoopInv ==
  /\ \A t \in Threads : loop[t] # None => ProcessOf[loop[t]] = ProcessOf[t]
  /\ \A t \in Threads : pc[t] \notin {"idle", "accepted"} => loop[t] # None
  /\ \A p \in Processes : loopOf[p] # None => ProcessOf[loopOf[p]] = p

\* Until a message is redelivered, each busy thread's is still the broker's to
\* restore.
Backed == Used("redeliver") = 0 => \A t \in Threads : pc[t] # "idle" => unacked[t]

\* A thread that is going to write a terminal status.
Owes(t) == pc[t] \notin {"idle", "publish2", "ack"}

Covered ==
  Dependable =>
    \A j \in Jobs :
      call[j] = "dispatched" /\ row[j].status \notin Terminal =>
        Waiting(j) \/ \E t \in Threads : Owes(t) /\ JobOf(t) = j

CustodyInv == TypeInv /\ LoopInv /\ Backed /\ Covered

-----------------------------------------------------------------------------
\* A thread that has left "accepted" holds a loop of its own process, so with one
\* thread to a process nobody else can be running on it.

LEMMA LoopNext ==
  ASSUME TypeInv, LoopInv, [Next]_vars
  PROVE  LoopInv'
<1> USE DEF TypeInv, TypeOK
<1>1. ASSUME NEW t \in Threads, Step(t)
      PROVE  LoopInv'
  <2>1. ASSUME NEW u \in Threads, u # t
        PROVE  pc'[u] = pc[u] /\ loop'[u] = loop[u]
    BY <1>1, <2>1, StepIsLocal
  <2>2. CASE TakeLoop(t)
    <3>1. /\ loopOf' = loopOf /\ loop'[t] # None /\ ProcessOf[loop'[t]] = ProcessOf[t]
      BY <2>2, ConstantsOK DEF TakeLoop, LoopInv
    <3> QED
      BY <2>1, <3>1 DEF LoopInv
  <2>3. CASE StoreLoop(t)
    <3>1. loop' = loop /\ loop[t] # None /\ ProcessOf[loop[t]] = ProcessOf[t]
      BY <2>3 DEF StoreLoop, LoopInv
    <3>2. \A p \in Processes : loopOf'[p] # None => ProcessOf[loopOf'[p]] = p
      BY <2>3, <3>1, ConstantsOK DEF StoreLoop, LoopInv
    <3>3. pc'[t] \notin {"idle", "accepted"} => loop[t] # None
      BY <3>1
    <3> QED
      BY <2>1, <3>1, <3>2, <3>3 DEF LoopInv
  <2>4. CASE Refuse(t) \/ Ack(t)
    <3>1. pc'[t] = "idle" /\ loop'[t] = None /\ loopOf' = loopOf
      BY <2>4 DEF Refuse, Ack, Leave, Goto
    <3> QED
      BY <2>1, <3>1 DEF LoopInv
  <2>5. CASE loop' = loop /\ loopOf' = loopOf /\ pc[t] \notin {"idle", "accepted"}
    BY <2>1, <2>5 DEF LoopInv
  <2>6. ~(TakeLoop(t) \/ StoreLoop(t) \/ Refuse(t) \/ Ack(t))
          => loop' = loop /\ loopOf' = loopOf /\ pc[t] \notin {"idle", "accepted"}
    BY <1>1 DEF Step, TraceStart, TraceEnd, Begin, SetRunning, PublishRunning, Screen,
                Guard1, Guard2, Guard3, RunTasks, Guard4, Charge, StopCommit, StopPublish,
                FinalCommit, FinalPublish
  <2> QED
    BY <2>2, <2>3, <2>4, <2>5, <2>6
<1>2. ASSUME NEW t \in Threads, NEW m \in Messages, Receive(t, m)
      PROVE  LoopInv'
  <2>1. loop' = loop /\ loopOf' = loopOf /\ pc'[t] = "accepted"
        /\ \A u \in Threads : u # t => pc'[u] = pc[u]
    BY <1>2 DEF Receive, Goto
  <2> QED
    BY <2>1 DEF LoopInv
<1>3. ASSUME NEW p \in Processes, Crash(p)
      PROVE  LoopInv'
  <2>1. \A t \in Threads : \/ pc'[t] = "idle" /\ loop'[t] = None
                           \/ pc'[t] = pc[t] /\ loop'[t] = loop[t]
    BY <1>3 DEF Crash
  <2>2. \A q \in Processes : loopOf'[q] = None \/ loopOf'[q] = loopOf[q]
    BY <1>3 DEF Crash
  <2> QED
    BY <2>1, <2>2 DEF LoopInv
<1>4. ASSUME NEW j \in Jobs, Api(j) \/ FlagExpires(j)
      PROVE  loop' = loop /\ loopOf' = loopOf /\ pc' = pc
  BY <1>4 DEF Api, SubmitGoal, Dispatch, DispatchFails, CancelRead, CancelFlag,
              CancelCommit, CancelPublish, FlagExpires, worker, running
<1>5. ASSUME NEW t \in Threads, Redeliver(t)
      PROVE  loop' = loop /\ loopOf' = loopOf /\ pc' = pc
  BY <1>5 DEF Redeliver
<1>6. CASE UNCHANGED vars \/ Rest
  BY <1>6 DEF vars, Rest, LoopInv
<1> QED
  BY <1>1, <1>2, <1>3, <1>4, <1>5, <1>6 DEF Next, LoopInv

LEMMA NoRefusal ==
  ASSUME Solo, TypeInv, LoopInv, NEW t \in Threads
  PROVE  ~Refuse(t)
<1> SUFFICES ASSUME Refuse(t) PROVE FALSE
  OBVIOUS
<1>1. pc[t] = "begin" /\ Busy(loop[t])
  BY DEF Refuse
<1>2. PICK u \in Threads : loop[u] = loop[t] /\ pc[u] \in InLoop
  BY <1>1 DEF Busy
<1>3. pc[u] # "begin" /\ pc[u] \notin {"idle", "accepted"}
  BY <1>2 DEF InLoop, Orchestrating
<1>4. ProcessOf[u] = ProcessOf[t]
  BY <1>1, <1>2, <1>3 DEF LoopInv
<1> QED
  BY <1>1, <1>3, <1>4 DEF Solo

-----------------------------------------------------------------------------
\* The broker can restore every message in work until it has restored one.

LEMMA BackedNext ==
  ASSUME TypeInv, Backed, [Next]_vars
  PROVE  Backed'
<1> USE DEF TypeInv, TypeOK
<1>1. SUFFICES ASSUME Used("redeliver")' = 0, NEW t \in Threads, pc'[t] # "idle"
               PROVE  unacked'[t]
  BY DEF Backed
<1>2. /\ ~Spend("redeliver")
      /\ pc[t] # "idle" => unacked[t]
  BY <1>1, UnusedStays, TypeNext DEF Backed, Events
<1>3. ASSUME NEW u \in Threads, Step(u)
      PROVE  unacked'[t]
  <2>1. CASE u # t
    BY <1>1, <1>2, <1>3, <2>1, StepIsLocal
  <2>2. CASE u = t
    <3>1. ~Refuse(t) /\ ~Ack(t)
      BY <1>1 DEF Refuse, Ack, Leave, Goto
    <3>2. unacked' = unacked /\ pc[t] # "idle"
      BY <1>3, <2>2, <3>1
         DEF Step, TakeLoop, StoreLoop, TraceStart, TraceEnd, Begin, SetRunning,
             PublishRunning, Screen, Guard1, Guard2, Guard3, RunTasks, Guard4, Charge,
             StopCommit, StopPublish, FinalCommit, FinalPublish
    <3> QED
      BY <1>2, <3>2
  <2> QED
    BY <2>1, <2>2
<1>4. ASSUME NEW u \in Threads, NEW m \in Messages, Receive(u, m)
      PROVE  unacked'[t]
  BY <1>1, <1>2, <1>4 DEF Receive, Goto
<1>5. ASSUME NEW u \in Threads, Redeliver(u)
      PROVE  unacked'[t]
  BY <1>2, <1>5 DEF Redeliver
<1>6. ASSUME NEW p \in Processes, Crash(p)
      PROVE  unacked'[t]
  BY <1>1, <1>2, <1>6 DEF Crash
<1>7. ASSUME NEW j \in Jobs, Api(j) \/ FlagExpires(j)
      PROVE  pc' = pc /\ unacked' = unacked
  BY <1>7 DEF Api, SubmitGoal, Dispatch, DispatchFails, CancelRead, CancelFlag,
              CancelCommit, CancelPublish, FlagExpires, worker, running
<1>8. CASE UNCHANGED vars \/ Rest
  BY <1>1, <1>2, <1>8 DEF vars, Rest
<1> QED
  BY <1>1, <1>2, <1>3, <1>4, <1>5, <1>6, <1>7, <1>8 DEF Next

\* A job left dispatched and unfinished was so before, or is being dispatched, or a
\* worker has just written RUNNING over whatever its row held.
LEMMA UnfinishedBefore ==
  ASSUME TypeInv, [Next]_vars, NEW j \in Jobs,
         call'[j] = "dispatched", row'[j].status \notin Terminal
  PROVE  \/ call[j] = "dispatched" /\ row[j].status \notin Terminal
         \/ queue'[<<j, 0>>] > 0
         \/ \E t \in Threads : SetRunning(t) /\ JobOf(t) = j
<1> USE DEF TypeInv, TypeOK
<1>0. ASSUME NEW r \in Rows, NEW s \in Terminal
      PROVE  /\ UpdateStatus(r, s).status \in Terminal
             /\ WriteVerdict(r, s).status \in Terminal
  <2>1. s \in Statuses
    BY DEF Statuses
  <2> QED
    BY <2>1, UpdateType, VerdictType
<1>1. ASSUME NEW t \in Threads, Step(t)
      PROVE  \/ call[j] = "dispatched" /\ row[j].status \notin Terminal
             \/ SetRunning(t) /\ JobOf(t) = j
  <2>1. call' = call
    BY <1>1 DEF Step, TakeLoop, StoreLoop, TraceStart, TraceEnd, Begin, Refuse, SetRunning,
                PublishRunning, Screen, Guard1, Guard2, Guard3, RunTasks, Guard4, Charge,
                StopCommit, StopPublish, FinalCommit, FinalPublish, Ack, api
  <2>2. CASE row'[j] = row[j]
    BY <2>1, <2>2
  <2>3. CASE row'[j] # row[j]
    <3>1. SetRunning(t) \/ StopCommit(t) \/ FinalCommit(t)
      BY <1>1, <2>3 DEF Step, TakeLoop, StoreLoop, TraceStart, TraceEnd, Begin, Refuse,
                  PublishRunning, Screen, Guard1, Guard2, Guard3, RunTasks, Guard4, Charge,
                  StopPublish, FinalPublish, Ack, rows
    <3>2. CASE SetRunning(t)
      <4>1. JobOf(t) = j
        BY <2>3, <3>2 DEF SetRunning
      <4> QED
        BY <3>2, <4>1
    <3>3. CASE StopCommit(t)
      <4>1. row'[j] = UpdateStatus(row[j], "CANCELLED")
        BY <2>3, <3>3 DEF StopCommit
      <4> QED
        BY <4>1, <1>0 DEF Terminal
    <3>4. CASE FinalCommit(t)
      <4>1. row'[j] = WriteVerdict(row[j], verdict[t])
        BY <2>3, <3>4 DEF FinalCommit
      <4>2. verdict[t] \in Terminal
        BY <3>4 DEF FinalCommit, Sane
      <4> QED
        BY <4>1, <4>2, <1>0
    <3> QED
      BY <3>1, <3>2, <3>3, <3>4
  <2> QED
    BY <2>2, <2>3
<1>2. ASSUME NEW i \in Jobs, Api(i) \/ FlagExpires(i)
      PROVE  \/ call[j] = "dispatched" /\ row[j].status \notin Terminal
             \/ queue'[<<j, 0>>] > 0
  <2>1. CASE SubmitGoal(i)
    BY <2>1 DEF SubmitGoal
  <2>2. CASE Dispatch(i)
    <3>1. <<j, 0>> \in Messages
      BY ConstantsOK DEF Messages
    <3>2. CASE i = j
      BY <2>2, <3>1, <3>2 DEF Dispatch
    <3>3. CASE i # j
      BY <2>2, <3>3 DEF Dispatch, rows
    <3> QED
      BY <3>2, <3>3
  <2>3. CASE CancelCommit(i)
    <3>1. row'[j] = row[j] \/ row'[j] = UpdateStatus(row[j], "CANCELLED")
      BY <2>3 DEF CancelCommit
    <3>2. "CANCELLED" \in Terminal /\ row[j] \in Rows
      BY DEF Terminal
    <3>3. row'[j] = row[j]
      BY <3>1, <3>2, <1>0
    <3> QED
      BY <2>3, <3>3 DEF CancelCommit
  <2>4. CASE DispatchFails(i) \/ CancelRead(i) \/ CancelFlag(i) \/ CancelPublish(i) \/ FlagExpires(i)
    <3>1. row' = row /\ (call' = call \/ call' = [call EXCEPT ![i] = "error"])
      BY <2>4 DEF DispatchFails, CancelRead, CancelFlag, CancelPublish, FlagExpires, rows, api
    <3> QED
      BY <3>1
  <2> QED
    BY <1>2, <2>1, <2>2, <2>3, <2>4 DEF Api
<1>3. ASSUME NEW t \in Threads, Redeliver(t) \/ \E m \in Messages : Receive(t, m)
      PROVE  row' = row /\ call' = call
  BY <1>3 DEF Redeliver, Receive, rows, api
<1>4. ASSUME NEW p \in Processes, Crash(p)
      PROVE  row' = row /\ call' = call
  BY <1>4 DEF Crash, rows, api
<1>5. CASE UNCHANGED vars \/ Rest
  BY <1>5 DEF vars, Rest
<1> QED
  BY <1>1, <1>2, <1>3, <1>4, <1>5 DEF Next

LEMMA WaitingMeans ==
  ASSUME NEW j \in Jobs, NEW m \in Messages, m[1] = j, queue[m] > 0
  PROVE  Waiting(j)
<1>1. m = <<j, m[2]>> /\ m[2] \in 0..MaxRetries
  BY DEF Messages
<1> QED
  BY <1>1 DEF Waiting

\* What was waiting is waiting still, or a thread has just accepted it.
LEMMA WaitingPasses ==
  ASSUME TypeInv, [Next]_vars, NEW j \in Jobs, Waiting(j)
  PROVE  Waiting(j)' \/ \E t \in Threads : pc'[t] = "accepted" /\ JobOf(t)' = j
<1> USE DEF TypeInv, TypeOK
<1>1. PICK n \in 0..MaxRetries : queue[<<j, n>>] > 0
  BY DEF Waiting
<1>2. <<j, n>> \in Messages
  BY DEF Messages
<1>3. SUFFICES \/ queue'[<<j, n>>] >= queue[<<j, n>>]
               \/ \E t \in Threads : pc'[t] = "accepted" /\ JobOf(t)' = j
  <2>1. queue'[<<j, n>>] \in Nat /\ queue[<<j, n>>] \in Nat
    BY <1>2, TypeNext
  <2>2. ASSUME queue'[<<j, n>>] >= queue[<<j, n>>]
        PROVE  Waiting(j)'
    <3>1. queue'[<<j, n>>] > 0
      BY <1>1, <2>1, <2>2
    <3> QED
      BY <3>1 DEF Waiting
  <2> QED
    BY <2>2
<1>4. ASSUME queue' = queue
      PROVE  queue'[<<j, n>>] >= queue[<<j, n>>]
  BY <1>2, <1>4
<1>5. ASSUME NEW m \in Messages, queue' = [queue EXCEPT ![m] = @ + 1]
      PROVE  queue'[<<j, n>>] >= queue[<<j, n>>]
  <2>1. queue[<<j, n>>] \in Nat /\ queue[m] \in Nat
    BY <1>2
  <2>2. CASE m = <<j, n>>
    BY <1>5, <2>1, <2>2
  <2>3. CASE m # <<j, n>>
    BY <1>2, <1>5, <2>1, <2>3
  <2> QED
    BY <2>2, <2>3
<1>6. ASSUME NEW t \in Threads, Step(t)
      PROVE  queue'[<<j, n>>] >= queue[<<j, n>>]
  <2>1. CASE Refuse(t)
    <3>1. msg[t] \in Messages
      BY <2>1 DEF Refuse, Sane
    <3>2. msg[t][2] < MaxRetries => <<msg[t][1], msg[t][2] + 1>> \in Messages
      BY <3>1, ConstantsOK DEF Messages
    <3> QED
      BY <2>1, <3>2, <1>4, <1>5 DEF Refuse
  <2>2. ~Refuse(t) => queue' = queue
    BY <1>6 DEF Step, TakeLoop, StoreLoop, TraceStart, TraceEnd, Begin, SetRunning,
                PublishRunning, Screen, Guard1, Guard2, Guard3, RunTasks, Guard4, Charge,
                StopCommit, StopPublish, FinalCommit, FinalPublish, Ack
  <2> QED
    BY <2>1, <2>2, <1>4
<1>7. ASSUME NEW t \in Threads, NEW m \in Messages, Receive(t, m)
      PROVE  \/ queue'[<<j, n>>] >= queue[<<j, n>>]
             \/ \E u \in Threads : pc'[u] = "accepted" /\ JobOf(u)' = j
  <2>1. CASE m = <<j, n>>
    BY <1>7, <2>1 DEF Receive, Goto, JobOf
  <2>2. CASE m # <<j, n>>
    BY <1>2, <1>7, <2>2 DEF Receive
  <2> QED
    BY <2>1, <2>2
<1>8. ASSUME NEW t \in Threads, Redeliver(t)
      PROVE  queue'[<<j, n>>] >= queue[<<j, n>>]
  <2>1. msg[t] \in Messages
    BY <1>8 DEF Redeliver, Sane
  <2> QED
    BY <1>5, <1>8, <2>1 DEF Redeliver
<1>9. ASSUME NEW p \in Processes, Crash(p)
      PROVE  queue'[<<j, n>>] >= queue[<<j, n>>]
  <2>1. queue'[<<j, n>>] = queue[<<j, n>>] + LostCopies(p, <<j, n>>)
    BY <1>2, <1>9 DEF Crash
  <2> QED
    BY <1>2, <2>1, LostType
<1>10. ASSUME NEW i \in Jobs, Api(i) \/ FlagExpires(i)
       PROVE  queue'[<<j, n>>] >= queue[<<j, n>>]
  <2>1. <<i, 0>> \in Messages
    BY ConstantsOK DEF Messages
  <2>2. queue' = queue \/ queue' = [queue EXCEPT ![<<i, 0>>] = @ + 1]
    BY <1>10 DEF Api, SubmitGoal, Dispatch, DispatchFails, CancelRead, CancelFlag,
                 CancelCommit, CancelPublish, FlagExpires
  <2> QED
    BY <2>1, <2>2, <1>4, <1>5
<1>11. CASE UNCHANGED vars \/ Rest
  BY <1>4, <1>11 DEF vars, Rest
<1> QED
  BY <1>6, <1>7, <1>8, <1>9, <1>10, <1>11 DEF Next

-----------------------------------------------------------------------------
\* A thread that owes a status goes on owing it, or has written it and is going to
\* publish it, or the broker has its message back.

LEMMA CrashRestores ==
  ASSUME TypeInv, NEW p \in Processes, Crash(p), NEW t \in Threads,
         ProcessOf[t] = p, unacked[t], msg[t] \in Messages, NEW j \in Jobs, JobOf(t) = j
  PROVE  Waiting(j)'
<1>1. LostCopies(p, msg[t]) > 0 /\ LostCopies(p, msg[t]) \in Nat
  BY LostType
<1>2. queue'[msg[t]] = queue[msg[t]] + LostCopies(p, msg[t]) /\ queue[msg[t]] \in Nat
  BY DEF Crash, TypeInv, TypeOK
<1>3. queue'[msg[t]] > 0
  BY <1>1, <1>2
<1>4. msg[t] = <<j, msg[t][2]>> /\ msg[t][2] \in 0..MaxRetries
  BY DEF Messages, JobOf
<1> QED
  BY <1>3, <1>4 DEF Waiting

LEMMA OwesPasses ==
  ASSUME Solo, TypeInv, LoopInv, Backed, [Next]_vars, Dependable',
         NEW t \in Threads, NEW j \in Jobs, Owes(t), JobOf(t) = j
  PROVE  \/ Owes(t)' /\ JobOf(t)' = j
         \/ Waiting(j)'
         \/ row'[j].status \in Terminal /\ pc'[t] = "publish2" /\ JobOf(t)' = j
<1> USE DEF TypeInv, TypeOK, Owes
<1>a. pc[t] # "idle" /\ msg[t] \in Messages /\ msg[t][1] = j
  BY DEF Sane, JobOf
<1>b. TypeInv'
  BY TypeNext
<1>1. ASSUME NEW u \in Threads, Step(u)
      PROVE  \/ Owes(t)' /\ JobOf(t)' = j
             \/ row'[j].status \in Terminal /\ pc'[t] = "publish2" /\ JobOf(t)' = j
  <2>1. CASE u # t
    BY <1>1, <2>1, StepIsLocal DEF JobOf
  <2>2. CASE u = t
    <3> USE <2>2 DEF Goto
    <3>1. ~Refuse(t) /\ ~Ack(t)
      BY NoRefusal DEF Ack
    <3>2. CASE FinalCommit(t)
      <4>1. "db" \in Events /\ Used("db")' = 0
        BY DEF Events, Dependable
      <4>2. ~Spend("db")
        BY <1>b, <4>1, UnusedStays
      <4>3. /\ row'[j] = WriteVerdict(row[j], verdict[t]) /\ pc'[t] = "publish2"
            /\ JobOf(t)' = j
        BY <3>2, <4>2 DEF FinalCommit, JobOf
      <4>4. verdict[t] \in Terminal /\ verdict[t] \in Statuses
        BY <3>2 DEF FinalCommit, Sane, Statuses
      <4> QED
        BY <4>3, <4>4, VerdictType
    <3>3. CASE FinalPublish(t)
      BY <3>3 DEF FinalPublish
    <3>4. ~(FinalCommit(t) \/ FinalPublish(t)) => Owes(t)' /\ msg' = msg
      BY <1>1, <3>1
         DEF Step, TakeLoop, StoreLoop, TraceStart, TraceEnd, Begin, SetRunning,
             PublishRunning, Screen, Guard1, Guard2, Guard3, RunTasks, Guard4, Halt,
             Charge, StopCommit, StopPublish
    <3> QED
      BY <3>2, <3>3, <3>4 DEF JobOf
  <2> QED
    BY <2>1, <2>2
<1>2. ASSUME NEW u \in Threads, NEW m \in Messages, Receive(u, m)
      PROVE  Owes(t)' /\ JobOf(t)' = j
  BY <1>a, <1>2 DEF Receive, Goto, JobOf
<1>3. ASSUME NEW p \in Processes, Crash(p)
      PROVE  (Owes(t)' /\ JobOf(t)' = j) \/ Waiting(j)'
  <2>1. CASE ProcessOf[t] # p
    BY <1>3, <2>1 DEF Crash, JobOf
  <2>2. CASE ProcessOf[t] = p
    <3>1. Used("redeliver")' = 0
      <4>1. "crash" \in Events /\ Spend("crash")
        BY <1>3 DEF Crash, Events
      <4>2. Used("crash")' # 0
        BY <1>b, <4>1, UnusedStays
      <4> QED
        BY <4>2 DEF Dependable
    <3>2. unacked[t]
      BY <1>a, <1>b, <3>1, UnusedStays DEF Backed, Events
    <3> QED
      BY <1>a, <1>3, <2>2, <3>2, CrashRestores
  <2> QED
    BY <2>1, <2>2
<1>4. ASSUME NEW i \in Jobs, Api(i) \/ FlagExpires(i)
      PROVE  pc' = pc /\ msg' = msg
  BY <1>4 DEF Api, SubmitGoal, Dispatch, DispatchFails, CancelRead, CancelFlag,
              CancelCommit, CancelPublish, FlagExpires, worker, running
<1>5. ASSUME NEW u \in Threads, Redeliver(u)
      PROVE  pc' = pc /\ msg' = msg
  BY <1>5 DEF Redeliver
<1>6. CASE UNCHANGED vars \/ Rest
  BY <1>6 DEF vars, Rest, JobOf
<1> QED
  BY <1>1, <1>2, <1>3, <1>4, <1>5, <1>6 DEF Next, JobOf

LEMMA CustodyNext ==
  ASSUME Solo
  PROVE  CustodyInv /\ [Next]_vars => CustodyInv'
<1> SUFFICES ASSUME CustodyInv, [Next]_vars PROVE CustodyInv'
  OBVIOUS
<1> USE DEF CustodyInv
<1>1. TypeInv' /\ LoopInv' /\ Backed'
  BY TypeNext, LoopNext, BackedNext
<1>2. ASSUME Dependable', NEW j \in Jobs, call'[j] = "dispatched", row'[j].status \notin Terminal
      PROVE  Waiting(j)' \/ \E t \in Threads : Owes(t)' /\ JobOf(t)' = j
  <2>1. Dependable
    BY <1>1, <1>2, UnusedStays DEF Dependable, Events
  <2>2. CASE call[j] = "dispatched" /\ row[j].status \notin Terminal
    <3>1. Waiting(j) \/ \E t \in Threads : Owes(t) /\ JobOf(t) = j
      BY <2>1, <2>2 DEF Covered
    <3>2. CASE Waiting(j)
      BY <3>2, WaitingPasses DEF Owes
    <3>3. CASE \E t \in Threads : Owes(t) /\ JobOf(t) = j
      BY <1>2, <3>3, OwesPasses
    <3> QED
      BY <3>1, <3>2, <3>3
  <2>3. CASE queue'[<<j, 0>>] > 0
    BY <2>3, ConstantsOK DEF Waiting
  <2>4. ASSUME NEW t \in Threads, SetRunning(t), JobOf(t) = j
        PROVE  Owes(t)' /\ JobOf(t)' = j
    BY <2>4 DEF SetRunning, Goto, Owes, JobOf, TypeInv, TypeOK
  <2> QED
    BY <1>2, <2>2, <2>3, <2>4, UnfinishedBefore
<1>3. Covered'
  BY <1>2 DEF Covered
<1> QED
  BY <1>1, <1>3

\* With one thread to a process no job is ever stranded: as long as writes reach
\* the database and no worker crashes besides redeliveries, a dispatched job
\* without a terminal status is in the queue or in the hands of a worker.
THEOREM NoJobIsStranded ==
  ASSUME Solo
  PROVE  Spec => []NotStranded
<1>1. Init => CustodyInv
  <2> SUFFICES ASSUME Init PROVE CustodyInv
    OBVIOUS
  <2> QED
    BY TypeInit DEF Init, CustodyInv, LoopInv, Backed, Covered
<1>2. CustodyInv => NotStranded
  BY DEF CustodyInv, Covered, NotStranded, Owes, Held
<1>3. CustodyInv /\ [Next]_vars => CustodyInv'
  BY CustodyNext
<1> QED
  BY <1>1, <1>2, <1>3, PTL DEF Spec

-----------------------------------------------------------------------------
(* One delivery at a time: how often a job is billed. *)

\* A job is in one place at most: one message in the queue, or one thread whose
\* message the broker would restore.
Single ==
  /\ \A t \in Threads, m \in Messages : unacked[t] /\ queue[m] > 0 => JobOf(t) # m[1]
  /\ \A t, u \in Threads : unacked[t] /\ unacked[u] /\ JobOf(t) = JobOf(u) => t = u
  /\ \A m, k \in Messages : queue[m] > 0 /\ queue[k] > 0 /\ m[1] = k[1] => m = k
  /\ \A m \in Messages : queue[m] <= 1

\* A job that was not dispatched is nowhere, and was not billed.
Fresh ==
  \A j \in Jobs :
    call[j] # "dispatched" =>
      /\ ledger[j] = 0
      /\ \A m \in Messages : queue[m] > 0 => m[1] # j
      /\ \A t \in Threads : pc[t] # "idle" => JobOf(t) # j

\* The deliveries of a job that may still bill it: those in work and before the
\* append, and the one that waits.
Chargers(j) == {t \in Threads : pc[t] \in GuardAhead \cup {"charge"} /\ JobOf(t) = j}
Pending(j) == IF Waiting(j) THEN 1 ELSE 0

Faults == Used("crash") + Used("redeliver") + Used("timeout")

Counted ==
  \A j \in Jobs : ledger[j] + Cardinality(Chargers(j)) + Pending(j) <= 1 + Faults

SingleInv == TypeInv /\ LoopInv /\ Backed /\ Fresh /\ Single
DeliveryInv == SingleInv /\ Counted

\* What a crash gives back was held by some thread, and is one copy at most of a
\* message that one thread at most held.
LEMMA LostBound ==
  ASSUME NEW p \in Processes, NEW m \in Messages
  PROVE  /\ LostCopies(p, m) > 0
              => \E t \in Threads : ProcessOf[t] = p /\ unacked[t] /\ msg[t] = m
         /\ (\A t, u \in Threads : unacked[t] /\ unacked[u] /\ msg[t] = m /\ msg[u] = m => t = u)
              => LostCopies(p, m) <= 1
<1> DEFINE S == {t \in Threads : ProcessOf[t] = p /\ unacked[t] /\ msg[t] = m}
<1>1. LostCopies(p, m) = Cardinality(S) /\ S \in SUBSET Threads
  BY DEF LostCopies
<1>2. CASE S = {}
  <2>1. LostCopies(p, m) = 0
    BY <1>1, <1>2, FS_EmptySet
  <2> QED
    BY <2>1
<1>3. CASE S # {}
  <2>1. PICK t \in S : TRUE
    BY <1>3
  <2>2. ASSUME \A u, v \in Threads :
                 unacked[u] /\ unacked[v] /\ msg[u] = m /\ msg[v] = m => u = v
        PROVE  LostCopies(p, m) <= 1
    <3>1. S \in SUBSET ({} \cup {t})
      BY <2>1, <2>2
    <3>2. Cardinality(S) <= Cardinality({}) + 1
      BY <2>1, <3>1, CountGrows
    <3> QED
      BY <1>1, <3>2, FS_EmptySet
  <2> QED
    BY <2>1, <2>2
<1> QED
  BY <1>2, <1>3

\* A refused message is still the broker's to restore: with a process for each
\* thread none is refused, and without redelivery every message is backed.
LEMMA RefusedIsHeld ==
  ASSUME Solo \/ Budget["redeliver"] = 0, TypeInv, LoopInv, Backed,
         NEW t \in Threads, Refuse(t)
  PROVE  unacked[t]
<1>1. CASE Solo
  BY <1>1, NoRefusal
<1>2. CASE Budget["redeliver"] = 0
  <2>1. "redeliver" \in Events /\ budget["redeliver"] \in Nat /\ budget["redeliver"] <= 0
    BY <1>2 DEF Events, TypeInv, TypeOK, Within
  <2>2. Used("redeliver") = 0
    BY <1>2, <2>1 DEF Used
  <2> QED
    BY <2>2 DEF Refuse, Backed
<1> QED
  BY <1>1, <1>2

\* What a thread's step does to the queue and to what is held.
LEMMA StepMoves ==
  ASSUME TypeInv, NEW t \in Threads, Step(t)
  PROVE  \/ /\ queue' = queue /\ unacked' = unacked /\ msg' = msg
         \/ /\ Refuse(t) \/ Ack(t)
            /\ unacked'[t] = FALSE /\ pc'[t] = "idle"
            /\ \A u \in Threads : u # t => unacked'[u] = unacked[u] /\ msg'[u] = msg[u]
            /\ \/ queue' = queue
               \/ /\ Refuse(t)
                  /\ \E m \in Messages : m[1] = JobOf(t) /\ queue' = [queue EXCEPT ![m] = @ + 1]
<1> USE DEF TypeInv, TypeOK
<1>1. CASE Ack(t)
  BY <1>1 DEF Ack, Leave, Goto
<1>2. CASE Refuse(t)
  <2>1. msg[t] \in Messages
    BY <1>2 DEF Refuse, Sane
  <2>2. msg[t][2] < MaxRetries => <<msg[t][1], msg[t][2] + 1>> \in Messages
    BY <2>1, ConstantsOK DEF Messages
  <2>3. \/ queue' = queue
        \/ \E m \in Messages : m[1] = JobOf(t) /\ queue' = [queue EXCEPT ![m] = @ + 1]
    BY <1>2, <2>2 DEF Refuse, JobOf
  <2> QED
    BY <1>2, <2>3 DEF Refuse, Leave, Goto
<1>3. CASE ~Ack(t) /\ ~Refuse(t)
  BY <1>3 DEF Step, TakeLoop, StoreLoop, TraceStart, TraceEnd, Begin, SetRunning,
              PublishRunning, Screen, Guard1, Guard2, Guard3, RunTasks, Guard4, Charge,
              StopCommit, StopPublish, FinalCommit, FinalPublish
<1> QED
  BY <1>1, <1>2, <1>3

LEMMA FreshNext ==
  ASSUME TypeInv, Fresh, [Next]_vars
  PROVE  Fresh'
<1> USE DEF TypeInv, TypeOK
<1>1. SUFFICES ASSUME NEW j \in Jobs, call'[j] # "dispatched"
               PROVE  /\ ledger'[j] = 0
                      /\ \A m \in Messages : queue'[m] > 0 => m[1] # j
                      /\ \A t \in Threads : pc'[t] # "idle" => JobOf(t)' # j
  BY DEF Fresh
<1>2. call[j] # "dispatched"
    => /\ ledger[j] = 0
       /\ \A m \in Messages : queue[m] > 0 => m[1] # j
       /\ \A t \in Threads : pc[t] # "idle" => JobOf(t) # j
  BY DEF Fresh
<1>3. ASSUME NEW t \in Threads, Step(t)
      PROVE  /\ ledger'[j] = 0
             /\ \A m \in Messages : queue'[m] > 0 => m[1] # j
             /\ \A u \in Threads : pc'[u] # "idle" => JobOf(u)' # j
  <2>1. call' = call /\ pc[t] # "idle"
    BY <1>3 DEF Step, TakeLoop, StoreLoop, TraceStart, TraceEnd, Begin, Refuse, SetRunning,
                PublishRunning, Screen, Guard1, Guard2, Guard3, RunTasks, Guard4, Charge,
                StopCommit, StopPublish, FinalCommit, FinalPublish, Ack, api
  <2>2. JobOf(t) # j
    BY <1>1, <1>2, <2>1
  <2>3. ledger'[j] = ledger[j]
    BY <1>3, <2>2
       DEF Step, TakeLoop, StoreLoop, TraceStart, TraceEnd, Begin, Refuse, SetRunning,
           PublishRunning, Screen, Guard1, Guard2, Guard3, RunTasks, Guard4, Charge, AddEvents,
           StopCommit, StopPublish, FinalCommit, FinalPublish, Ack, rows
  <2>4. \A m \in Messages : queue'[m] > 0 => m[1] # j
    BY <1>1, <1>2, <1>3, <2>1, <2>2, StepMoves
  <2>5. \A u \in Threads : pc'[u] # "idle" => JobOf(u)' # j
    <3>1. ASSUME NEW u \in Threads, u # t
          PROVE  pc'[u] = pc[u] /\ msg'[u] = msg[u]
      BY <1>3, <3>1, StepIsLocal
    <3>2. pc'[t] # "idle" => msg'[t] = msg[t]
      BY <1>3, StepMoves
    <3> QED
      BY <1>1, <1>2, <2>1, <2>2, <3>1, <3>2 DEF JobOf
  <2> QED
    BY <1>1, <1>2, <2>1, <2>3, <2>4, <2>5
<1>4. ASSUME NEW t \in Threads, NEW m \in Messages, Receive(t, m)
      PROVE  /\ ledger'[j] = 0
             /\ \A k \in Messages : queue'[k] > 0 => k[1] # j
             /\ \A u \in Threads : pc'[u] # "idle" => JobOf(u)' # j
  <2>1. /\ call' = call /\ ledger' = ledger /\ m[1] # j
        /\ msg'[t] = m
        /\ \A u \in Threads : u # t => pc'[u] = pc[u] /\ msg'[u] = msg[u]
    BY <1>1, <1>2, <1>4 DEF Receive, Goto, rows, api
  <2>2. \A k \in Messages : queue'[k] > 0 => queue[k] > 0
    BY <1>4 DEF Receive
  <2> QED
    BY <1>1, <1>2, <2>1, <2>2 DEF JobOf
<1>5. ASSUME NEW t \in Threads, Redeliver(t)
      PROVE  /\ ledger'[j] = 0
             /\ \A k \in Messages : queue'[k] > 0 => k[1] # j
             /\ \A u \in Threads : pc'[u] # "idle" => JobOf(u)' # j
  <2>1. /\ call' = call /\ ledger' = ledger /\ pc' = pc /\ msg' = msg
        /\ pc[t] # "idle" /\ msg[t] \in Messages /\ unacked[t]
        /\ queue' = [queue EXCEPT ![msg[t]] = @ + 1]
    BY <1>5 DEF Redeliver, Sane, rows, api
  <2>2. msg[t][1] # j
    BY <1>1, <1>2, <2>1 DEF JobOf
  <2> QED
    BY <1>1, <1>2, <2>1, <2>2 DEF JobOf
<1>6. ASSUME NEW p \in Processes, Crash(p)
      PROVE  /\ ledger'[j] = 0
             /\ \A k \in Messages : queue'[k] > 0 => k[1] # j
             /\ \A u \in Threads : pc'[u] # "idle" => JobOf(u)' # j
  <2>1. /\ call' = call /\ ledger' = ledger
        /\ \A u \in Threads : pc'[u] # "idle" => pc[u] # "idle" /\ msg'[u] = msg[u]
        /\ \A k \in Messages : queue'[k] = queue[k] + LostCopies(p, k)
    BY <1>6 DEF Crash, rows, api
  <2>2. ASSUME NEW k \in Messages, queue'[k] > 0
        PROVE  k[1] # j
    <3>1. CASE LostCopies(p, k) > 0
      <4>1. PICK t \in Threads : unacked[t] /\ msg[t] = k
        BY <3>1, LostBound
      <4> QED
        BY <1>1, <1>2, <2>1, <4>1 DEF Sane, JobOf
    <3>2. CASE ~(LostCopies(p, k) > 0)
      <4>1. queue[k] > 0
        BY <2>1, <2>2, <3>2, LostType
      <4> QED
        BY <1>1, <1>2, <2>1, <4>1
    <3> QED
      BY <3>1, <3>2
  <2> QED
    BY <1>1, <1>2, <2>1, <2>2 DEF JobOf
<1>7. ASSUME NEW i \in Jobs, Api(i) \/ FlagExpires(i)
      PROVE  /\ call[j] # "dispatched" /\ ledger' = ledger /\ pc' = pc /\ msg' = msg
             /\ \A k \in Messages : queue'[k] > 0 => queue[k] > 0 \/ k[1] # j
  <2>1. /\ call[j] # "dispatched" /\ ledger' = ledger /\ pc' = pc /\ msg' = msg
        /\ queue' = queue \/ Dispatch(i)
    BY <1>1, <1>7 DEF Api, SubmitGoal, Dispatch, DispatchFails, CancelRead, CancelFlag,
                CancelCommit, CancelPublish, FlagExpires, worker, running, rows, api
  <2>2. CASE Dispatch(i)
    <3>1. i # j /\ queue' = [queue EXCEPT ![<<i, 0>>] = @ + 1]
      BY <1>1, <2>2 DEF Dispatch
    <3> QED
      BY <2>1, <3>1
  <2> QED
    BY <2>1, <2>2
<1>8. CASE UNCHANGED vars \/ Rest
  BY <1>1, <1>2, <1>8 DEF vars, Rest, JobOf
<1> QED
  BY <1>1, <1>2, <1>3, <1>4, <1>5, <1>6, <1>7, <1>8 DEF Next, JobOf

\* One more copy of a message that is in no other place.
LEMMA OneMoreCopy ==
  ASSUME TypeInv, Single, NEW m \in Messages, queue' = [queue EXCEPT ![m] = @ + 1],
         \A k \in Messages : queue[k] > 0 => k[1] # m[1],
         \A u \in Threads : unacked'[u] => unacked[u] /\ msg'[u] = msg[u] /\ JobOf(u) # m[1]
  PROVE  Single'
<1> USE DEF TypeInv, TypeOK
<1>1. queue[m] = 0 /\ queue'[m] = 1
  BY DEF Single
<1>2. \A k \in Messages : k # m => queue'[k] = queue[k]
  OBVIOUS
<1>3. \A u \in Threads : unacked'[u] => unacked[u] /\ JobOf(u)' = JobOf(u) /\ JobOf(u) # m[1]
  BY DEF JobOf
<1> QED
  BY <1>1, <1>2, <1>3 DEF Single

LEMMA SingleNext ==
  ASSUME Solo \/ Budget["redeliver"] = 0, SingleInv, [Next]_vars
  PROVE  SingleInv'
<1> USE DEF SingleInv
<1>1. TypeInv' /\ LoopInv' /\ Backed' /\ Fresh'
  BY TypeNext, LoopNext, BackedNext, FreshNext
<1>2. ASSUME queue' = queue,
             \A u \in Threads : unacked'[u] => unacked[u] /\ msg'[u] = msg[u]
      PROVE  Single'
  <2>1. \A u \in Threads : unacked'[u] => unacked[u] /\ JobOf(u)' = JobOf(u)
    BY <1>2 DEF JobOf
  <2> QED
    BY <1>2, <2>1 DEF Single
<1>3. ASSUME NEW t \in Threads, Step(t)
      PROVE  Single'
  <2>1. CASE queue' = queue /\ unacked' = unacked /\ msg' = msg
    BY <1>2, <2>1
  <2>2. CASE /\ unacked'[t] = FALSE
             /\ \A u \in Threads : u # t => unacked'[u] = unacked[u] /\ msg'[u] = msg[u]
             /\ queue' = queue
    BY <1>2, <2>2
  <2>3. ASSUME Refuse(t), unacked'[t] = FALSE,
               \A u \in Threads : u # t => unacked'[u] = unacked[u] /\ msg'[u] = msg[u],
               NEW m \in Messages, m[1] = JobOf(t), queue' = [queue EXCEPT ![m] = @ + 1]
        PROVE  Single'
    <3>1. unacked[t]
      BY <2>3, RefusedIsHeld
    <3>2. \A k \in Messages : queue[k] > 0 => k[1] # m[1]
      BY <2>3, <3>1 DEF Single
    <3>3. \A u \in Threads : unacked'[u] => unacked[u] /\ msg'[u] = msg[u] /\ JobOf(u) # m[1]
      BY <2>3, <3>1 DEF Single
    <3> QED
      BY <2>3, <3>2, <3>3, OneMoreCopy
  <2> QED
    BY <1>3, <2>1, <2>2, <2>3, StepMoves
<1>4. ASSUME NEW t \in Threads, NEW m \in Messages, Receive(t, m)
      PROVE  Single'
  <2> USE DEF TypeInv, TypeOK
  <2>1. /\ queue[m] = 1 /\ queue'[m] = 0
        /\ \A k \in Messages : k # m => queue'[k] = queue[k]
        /\ msg'[t] = m
        /\ \A u \in Threads : u # t => unacked'[u] = unacked[u] /\ msg'[u] = msg[u]
    BY <1>4 DEF Receive, Single
  <2>2. \A k \in Messages : queue'[k] > 0 => queue[k] > 0 /\ k[1] # m[1]
    BY <2>1 DEF Single
  <2>3. JobOf(t)' = m[1]
        /\ \A u \in Threads : u # t /\ unacked'[u] =>
                                unacked[u] /\ JobOf(u)' = JobOf(u) /\ JobOf(u) # m[1]
    BY <2>1 DEF JobOf, Single
  <2>4. \A k \in Messages : queue'[k] <= 1
    BY <2>1 DEF Single
  <2>5. \A u \in Threads, k \in Messages : unacked'[u] /\ queue'[k] > 0 => JobOf(u)' # k[1]
    BY <2>2, <2>3 DEF Single
  <2>6. \A u, v \in Threads : unacked'[u] /\ unacked'[v] /\ JobOf(u)' = JobOf(v)' => u = v
    BY <2>3 DEF Single
  <2>7. \A k, n \in Messages : queue'[k] > 0 /\ queue'[n] > 0 /\ k[1] = n[1] => k = n
    BY <2>2 DEF Single
  <2> QED
    BY <2>4, <2>5, <2>6, <2>7 DEF Single
<1>5. ASSUME NEW t \in Threads, Redeliver(t)
      PROVE  Single'
  <2> USE DEF TypeInv, TypeOK
  <2>1. /\ unacked[t] /\ unacked'[t] = FALSE /\ msg[t] \in Messages /\ msg' = msg
        /\ queue' = [queue EXCEPT ![msg[t]] = @ + 1]
        /\ \A u \in Threads : u # t => unacked'[u] = unacked[u]
    BY <1>5 DEF Redeliver, Sane
  <2>2. \A k \in Messages : queue[k] > 0 => k[1] # msg[t][1]
    BY <2>1 DEF Single, JobOf
  <2>3. \A u \in Threads : unacked'[u] => unacked[u] /\ msg'[u] = msg[u] /\ JobOf(u) # msg[t][1]
    BY <2>1 DEF Single, JobOf
  <2> QED
    BY <2>1, <2>2, <2>3, OneMoreCopy
<1>6. ASSUME NEW p \in Processes, Crash(p)
      PROVE  Single'
  <2> USE DEF TypeInv, TypeOK
  <2>1. /\ \A u \in Threads : unacked'[u] => /\ unacked[u] /\ msg'[u] = msg[u]
                                             /\ ProcessOf[u] # p /\ JobOf(u)' = JobOf(u)
        /\ \A k \in Messages : queue'[k] = queue[k] + LostCopies(p, k)
    BY <1>6 DEF Crash, JobOf
  <2>2. ASSUME NEW k \in Messages
        PROVE  /\ LostCopies(p, k) \in Nat /\ LostCopies(p, k) <= 1
               /\ LostCopies(p, k) > 0 =>
                    \E t \in Threads : ProcessOf[t] = p /\ unacked[t] /\ msg[t] = k
    <3>1. \A t, u \in Threads : unacked[t] /\ unacked[u] /\ msg[t] = k /\ msg[u] = k => t = u
      BY DEF Single, JobOf
    <3> QED
      BY <3>1, LostType, LostBound
  <2>3. ASSUME NEW k \in Messages, queue'[k] > 0
        PROVE  \/ queue[k] > 0
               \/ \E t \in Threads : ProcessOf[t] = p /\ unacked[t] /\ msg[t] = k
    BY <2>1, <2>2, <2>3
  <2>4. \A k \in Messages : queue'[k] <= 1
    <3> SUFFICES ASSUME NEW k \in Messages PROVE queue'[k] <= 1
      OBVIOUS
    <3>1. CASE LostCopies(p, k) > 0
      <4>1. queue[k] = 0
        BY <2>2, <3>1 DEF Single, JobOf
      <4> QED
        BY <2>1, <2>2, <4>1
    <3>2. CASE ~(LostCopies(p, k) > 0)
      BY <2>1, <2>2, <3>2 DEF Single
    <3> QED
      BY <3>1, <3>2
  <2>5. \A u \in Threads, k \in Messages : unacked'[u] /\ queue'[k] > 0 => JobOf(u)' # k[1]
    BY <2>1, <2>3 DEF Single, JobOf
  <2>6. \A u, v \in Threads : unacked'[u] /\ unacked'[v] /\ JobOf(u)' = JobOf(v)' => u = v
    BY <2>1 DEF Single
  <2>7. \A k, n \in Messages : queue'[k] > 0 /\ queue'[n] > 0 /\ k[1] = n[1] => k = n
    BY <2>3 DEF Single, JobOf
  <2> QED
    BY <2>4, <2>5, <2>6, <2>7 DEF Single
<1>7. ASSUME NEW j \in Jobs, Api(j) \/ FlagExpires(j)
      PROVE  Single'
  <2>1. CASE Dispatch(j)
    <3>1. /\ <<j, 0>> \in Messages /\ queue' = [queue EXCEPT ![<<j, 0>>] = @ + 1]
          /\ unacked' = unacked /\ msg' = msg /\ call[j] = "committed"
      BY <2>1, ConstantsOK DEF Dispatch, Messages, worker, running
    <3>2. \A k \in Messages : queue[k] > 0 => k[1] # j
      BY <3>1 DEF Fresh
    <3>3. \A u \in Threads : unacked'[u] => unacked[u] /\ msg'[u] = msg[u] /\ JobOf(u) # j
      BY <3>1 DEF Fresh, TypeInv, Sane
    <3>4. <<j, 0>>[1] = j
      OBVIOUS
    <3> QED
      BY <3>1, <3>2, <3>3, <3>4, OneMoreCopy
  <2>2. ~Dispatch(j) => queue' = queue /\ unacked' = unacked /\ msg' = msg
    BY <1>7 DEF Api, SubmitGoal, DispatchFails, CancelRead, CancelFlag, CancelCommit,
                CancelPublish, FlagExpires, worker, running
  <2> QED
    BY <1>2, <2>1, <2>2
<1>8. ASSUME UNCHANGED vars \/ Rest
      PROVE  Single'
  BY <1>2, <1>8 DEF vars, Rest
<1>9. Single'
  BY <1>3, <1>4, <1>5, <1>6, <1>7, <1>8 DEF Next
<1> QED
  BY <1>1, <1>9

LEMMA SingleInit == Init => SingleInv
<1> SUFFICES ASSUME Init PROVE SingleInv
  OBVIOUS
<1>1. Fresh /\ Single
  BY DEF Init, Fresh, Single
<1> QED
  BY <1>1, TypeInit DEF Init, SingleInv, LoopInv, Backed

LEMMA FaultsGrow ==
  ASSUME TypeInv, TypeInv', [Next]_vars
  PROVE  /\ Faults \in Nat /\ Faults' \in Nat /\ Faults' >= Faults
         /\ Spend("crash") \/ Spend("redeliver") \/ Spend("timeout") => Faults' >= Faults + 1
<1>1. {"crash", "redeliver", "timeout"} \subseteq Events
  BY DEF Events
<1>2. ASSUME NEW e \in Events
      PROVE  /\ Used(e) \in Nat /\ Used(e)' \in Nat /\ Used(e)' >= Used(e)
             /\ Spend(e) => Used(e)' >= Used(e) + 1
  <2>1. /\ budget[e] \in Nat /\ budget'[e] \in Nat /\ Budget[e] \in Nat
        /\ budget[e] <= Budget[e] /\ budget'[e] <= Budget[e] /\ budget'[e] <= budget[e]
    BY BudgetFalls, ConstantsOK DEF TypeInv, TypeOK, Within
  <2>2. Spend(e) => budget'[e] = budget[e] - 1
    BY DEF Spend, TypeInv, TypeOK
  <2> QED
    BY <2>1, <2>2 DEF Used
<1> HIDE DEF Used, Spend
<1>3. /\ Used("crash") \in Nat /\ Used("crash")' \in Nat /\ Used("crash")' >= Used("crash")
      /\ Spend("crash") => Used("crash")' >= Used("crash") + 1
  BY <1>1, <1>2
<1>4. /\ Used("redeliver") \in Nat /\ Used("redeliver")' \in Nat
      /\ Used("redeliver")' >= Used("redeliver")
      /\ Spend("redeliver") => Used("redeliver")' >= Used("redeliver") + 1
  BY <1>1, <1>2
<1>5. /\ Used("timeout") \in Nat /\ Used("timeout")' \in Nat /\ Used("timeout")' >= Used("timeout")
      /\ Spend("timeout") => Used("timeout")' >= Used("timeout") + 1
  BY <1>1, <1>2
<1> QED
  BY <1>3, <1>4, <1>5 DEF Faults

LEMMA PendingRange ==
  ASSUME NEW j \in Jobs
  PROVE  /\ Pending(j) \in 0..1 /\ Pending(j)' \in 0..1
         /\ (Waiting(j)' => Waiting(j)) => Pending(j)' <= Pending(j)
BY DEF Pending

LEMMA ChargersType ==
  ASSUME NEW j \in Jobs
  PROVE  /\ Chargers(j) \in SUBSET Threads /\ Cardinality(Chargers(j)) \in Nat
         /\ Chargers(j)' \in SUBSET Threads /\ Cardinality(Chargers(j)') \in Nat
<1>1. Chargers(j) \in SUBSET Threads /\ Chargers(j)' \in SUBSET Threads
  BY DEF Chargers
<1> QED
  BY <1>1, CountType

\* No step but Receive brings a thread before the append, and the append and a
\* refusal take it away.
LEMMA ChargersStep ==
  ASSUME TypeInv, NEW t \in Threads, Step(t), NEW j \in Jobs
  PROVE  /\ Chargers(j)' \subseteq Chargers(j)
         /\ (Charge(t) \/ Refuse(t)) /\ JobOf(t) = j
              => t \in Chargers(j) /\ Chargers(j)' \subseteq Chargers(j) \ {t}
<1> USE DEF TypeInv, TypeOK
<1>0. Chargers(j) \subseteq Threads /\ Chargers(j)' \subseteq Threads
  BY DEF Chargers
<1>1. ASSUME NEW u \in Threads, u # t
      PROVE  u \in Chargers(j)' <=> u \in Chargers(j)
  BY <1>1, StepIsLocal DEF Chargers, JobOf
<1>2. CASE Refuse(t) \/ Ack(t)
  <2>1. pc'[t] = "idle"
    BY <1>2 DEF Refuse, Ack, Leave, Goto
  <2>2. t \notin Chargers(j)'
    BY <2>1 DEF Chargers, GuardAhead
  <2>3. Refuse(t) /\ JobOf(t) = j => t \in Chargers(j)
    BY DEF Refuse, Chargers, GuardAhead
  <2>4. Ack(t) => ~Charge(t)
    BY DEF Ack, Charge
  <2>5. Refuse(t) => ~Charge(t)
    BY DEF Refuse, Charge
  <2> QED
    BY <1>0, <1>1, <1>2, <2>2, <2>3, <2>4, <2>5
<1>3. CASE Charge(t)
  <2>1. pc'[t] = "commit2" /\ pc[t] = "charge"
    BY <1>3 DEF Charge, Goto
  <2>2. t \notin Chargers(j)' /\ ~Refuse(t)
    BY <2>1 DEF Chargers, GuardAhead, Refuse
  <2>3. JobOf(t) = j => t \in Chargers(j)
    BY <2>1 DEF Chargers
  <2> QED
    BY <1>0, <1>1, <1>3, <2>2, <2>3
<1>4. CASE ~Refuse(t) /\ ~Ack(t) /\ ~Charge(t)
  <2>1. msg' = msg
        /\ (pc'[t] \in GuardAhead \cup {"charge"} => pc[t] \in GuardAhead \cup {"charge"})
    BY <1>4 DEF Step, TakeLoop, StoreLoop, TraceStart, TraceEnd, Begin, SetRunning,
                PublishRunning, Screen, Guard1, Guard2, Guard3, RunTasks, Guard4, Halt,
                StopCommit, StopPublish, FinalCommit, FinalPublish, Goto, GuardAhead
  <2>2. t \in Chargers(j)' => t \in Chargers(j)
    BY <2>1 DEF Chargers, JobOf
  <2> QED
    BY <1>0, <1>1, <1>4, <2>2
<1> QED
  BY <1>2, <1>3, <1>4

\* A job waits after a step of a thread if it waited before, or was refused.
LEMMA WaitingStep ==
  ASSUME TypeInv, NEW t \in Threads, Step(t), NEW j \in Jobs, Waiting(j)'
  PROVE  Waiting(j) \/ (Refuse(t) /\ JobOf(t) = j)
<1> USE DEF TypeInv, TypeOK
<1>1. PICK n \in 0..MaxRetries : queue'[<<j, n>>] > 0
  BY DEF Waiting
<1>2. <<j, n>> \in Messages /\ <<j, n>>[1] = j
  BY DEF Messages
<1>3. CASE queue' = queue
  BY <1>1, <1>3 DEF Waiting
<1>4. ASSUME Refuse(t), NEW m \in Messages, m[1] = JobOf(t), queue' = [queue EXCEPT ![m] = @ + 1]
      PROVE  Waiting(j) \/ (Refuse(t) /\ JobOf(t) = j)
  <2>1. CASE m = <<j, n>>
    BY <1>2, <1>4, <2>1
  <2>2. CASE m # <<j, n>>
    <3>1. queue[<<j, n>>] > 0
      BY <1>1, <1>2, <1>4, <2>2
    <3> QED
      BY <3>1 DEF Waiting
  <2> QED
    BY <2>1, <2>2
<1> QED
  BY <1>3, <1>4, StepMoves

LEMMA CountedNext ==
  ASSUME Solo \/ Budget["redeliver"] = 0, DeliveryInv, [Next]_vars
  PROVE  DeliveryInv'
<1> USE DEF DeliveryInv
<1>1. SingleInv' /\ TypeInv /\ TypeInv'
  BY SingleNext DEF SingleInv
<1>2. SUFFICES ASSUME NEW j \in Jobs
               PROVE  ledger'[j] + Cardinality(Chargers(j)') + Pending(j)' <= 1 + Faults'
  BY <1>1 DEF Counted
<1> DEFINE B == ledger[j] + Cardinality(Chargers(j)) + Pending(j)
           A == ledger'[j] + Cardinality(Chargers(j)') + Pending(j)'
<1>3. B <= 1 + Faults
  BY DEF Counted
<1>4. /\ Faults \in Nat /\ Faults' \in Nat /\ Faults' >= Faults
      /\ Spend("crash") \/ Spend("redeliver") \/ Spend("timeout") => Faults' >= Faults + 1
  BY <1>1, FaultsGrow
<1>5. /\ ledger[j] \in Nat /\ ledger'[j] \in Nat
      /\ Chargers(j) \in SUBSET Threads /\ Cardinality(Chargers(j)) \in Nat
      /\ Chargers(j)' \in SUBSET Threads /\ Cardinality(Chargers(j)') \in Nat
      /\ Pending(j) \in 0..1 /\ Pending(j)' \in 0..1
      /\ (Waiting(j)' => Waiting(j)) => Pending(j)' <= Pending(j)
  BY <1>1, ChargersType, PendingRange DEF TypeInv, TypeOK
<1>6. Chargers(j)' \subseteq Chargers(j) => Cardinality(Chargers(j)') <= Cardinality(Chargers(j))
  BY <1>5, CountShrinks
<1>7. ASSUME NEW t \in Threads, Step(t)
      PROVE  A <= 1 + Faults'
  <2>1. /\ Chargers(j)' \subseteq Chargers(j)
        /\ (Charge(t) \/ Refuse(t)) /\ JobOf(t) = j
             => Cardinality(Chargers(j)') + 1 <= Cardinality(Chargers(j))
    BY <1>1, <1>5, <1>7, ChargersStep, CountLoses
  <2>2. CASE Charge(t)
    <3>1. Pending(j)' <= Pending(j)
      BY <1>5, <2>2 DEF Charge, Waiting
    <3>2. CASE JobOf(t) = j
      <4>1. \/ ledger'[j] <= ledger[j] + 1
            \/ ledger'[j] <= ledger[j] + 2 /\ Spend("timeout")
        BY <1>1, <2>2, <3>2 DEF Charge, AddEvents, TypeInv, TypeOK
      <4> QED
        BY <1>3, <1>4, <1>5, <2>1, <2>2, <3>1, <3>2, <4>1
    <3>3. CASE JobOf(t) # j
      <4>1. ledger'[j] = ledger[j]
        BY <1>1, <2>2, <3>3 DEF Charge, AddEvents, TypeInv, TypeOK
      <4> QED
        BY <1>3, <1>4, <1>5, <1>6, <2>1, <3>1, <4>1
    <3> QED
      BY <3>2, <3>3
  <2>3. CASE ~Charge(t)
    <3>1. ledger' = ledger
      BY <1>7, <2>3
         DEF Step, TakeLoop, StoreLoop, TraceStart, TraceEnd, Begin, Refuse, SetRunning,
             PublishRunning, Screen, Guard1, Guard2, Guard3, RunTasks, Guard4,
             StopCommit, StopPublish, FinalCommit, FinalPublish, Ack, rows
    <3>2. CASE Refuse(t) /\ JobOf(t) = j
      BY <1>3, <1>4, <1>5, <2>1, <3>1, <3>2
    <3>3. CASE ~(Refuse(t) /\ JobOf(t) = j)
      <4>1. Pending(j)' <= Pending(j)
        BY <1>1, <1>5, <1>7, <3>3, WaitingStep
      <4> QED
        BY <1>3, <1>4, <1>5, <1>6, <2>1, <3>1, <4>1
    <3> QED
      BY <3>2, <3>3
  <2> QED
    BY <2>2, <2>3
<1>8. ASSUME NEW t \in Threads, NEW m \in Messages, Receive(t, m)
      PROVE  A <= 1 + Faults'
  <2> USE DEF TypeInv, TypeOK, SingleInv
  <2>1. /\ ledger' = ledger /\ msg'[t] = m /\ pc[t] = "idle"
        /\ \A u \in Threads : u # t => pc'[u] = pc[u] /\ msg'[u] = msg[u]
        /\ queue[m] = 1 /\ queue'[m] = 0
        /\ \A k \in Messages : k # m => queue'[k] = queue[k]
    BY <1>8 DEF Receive, Goto, rows, Single
  <2>2. JobOf(t)' = m[1]
        /\ \A u \in Threads : u # t => (u \in Chargers(j)' <=> u \in Chargers(j))
    BY <2>1 DEF JobOf, Chargers
  <2>3. CASE m[1] = j
    <3>1. Cardinality(Chargers(j)') <= Cardinality(Chargers(j)) + 1
      <4>1. Chargers(j)' \in SUBSET (Chargers(j) \cup {t})
        BY <1>5, <2>2
      <4> QED
        BY <1>5, <4>1, CountGrows
    <3>2. Waiting(j)
      BY <2>1, <2>3, WaitingMeans
    <3>3. ~Waiting(j)'
      <4>1. ASSUME NEW k \in Messages, queue'[k] > 0
            PROVE  k[1] # j
        <5>1. k # m /\ queue[k] > 0
          BY <2>1, <4>1
        <5> QED
          BY <2>1, <2>3, <5>1 DEF Single
      <4>2. ASSUME NEW n \in 0..MaxRetries
            PROVE  <<j, n>> \in Messages /\ <<j, n>>[1] = j
        BY DEF Messages
      <4> QED
        BY <4>1, <4>2 DEF Waiting
    <3>4. Pending(j) = 1 /\ Pending(j)' = 0
      BY <3>2, <3>3 DEF Pending
    <3> QED
      BY <1>3, <1>4, <1>5, <2>1, <3>1, <3>4
  <2>4. CASE m[1] # j
    <3>1. Chargers(j)' \subseteq Chargers(j)
      <4>1. t \notin Chargers(j)'
        BY <2>2, <2>4 DEF Chargers
      <4> QED
        BY <1>5, <2>2, <4>1
    <3>2. Waiting(j)' => Waiting(j)
      <4>1. \A k \in Messages : queue'[k] > 0 => queue[k] > 0
        BY <2>1
      <4> QED
        BY <4>1 DEF Waiting, Messages
    <3> QED
      BY <1>3, <1>4, <1>5, <1>6, <2>1, <3>1, <3>2
  <2> QED
    BY <2>3, <2>4
<1>9. ASSUME NEW t \in Threads, Redeliver(t)
      PROVE  A <= 1 + Faults'
  <2>1. ledger' = ledger /\ pc' = pc /\ msg' = msg /\ Spend("redeliver")
    BY <1>9 DEF Redeliver, rows
  <2>2. Chargers(j)' = Chargers(j)
    BY <2>1 DEF Chargers, JobOf
  <2> QED
    BY <1>3, <1>4, <1>5, <1>6, <2>1, <2>2
<1>10. ASSUME NEW p \in Processes, Crash(p)
       PROVE  A <= 1 + Faults'
  <2>1. ledger' = ledger /\ Spend("crash")
        /\ \A u \in Threads : pc'[u] = "idle" \/ (pc'[u] = pc[u] /\ msg'[u] = msg[u])
    BY <1>10 DEF Crash, rows
  <2>2. Chargers(j)' \subseteq Chargers(j)
    BY <2>1 DEF Chargers, JobOf, GuardAhead
  <2> QED
    BY <1>3, <1>4, <1>5, <1>6, <2>1, <2>2
<1>11. ASSUME NEW i \in Jobs, Api(i) \/ FlagExpires(i)
       PROVE  A <= 1 + Faults'
  <2>1. ledger' = ledger /\ pc' = pc /\ msg' = msg /\ (queue' = queue \/ Dispatch(i))
    BY <1>11 DEF Api, SubmitGoal, Dispatch, DispatchFails, CancelRead, CancelFlag,
                 CancelCommit, CancelPublish, FlagExpires, worker, running, rows
  <2>2. Chargers(j)' = Chargers(j)
    BY <2>1 DEF Chargers, JobOf
  <2>3. CASE Dispatch(i) /\ i = j
    <3>1. call[j] = "committed"
      BY <2>3 DEF Dispatch
    <3>2. ledger[j] = 0 /\ \A t \in Threads : pc[t] # "idle" => JobOf(t) # j
      BY <3>1 DEF SingleInv, Fresh
    <3>3. Chargers(j) = {}
      BY <3>2 DEF Chargers, GuardAhead
    <3>4. Cardinality(Chargers(j)) = 0
      BY <3>3, FS_EmptySet
    <3> QED
      BY <1>4, <1>5, <1>6, <2>1, <2>2, <3>2, <3>4
  <2>4. CASE ~(Dispatch(i) /\ i = j)
    <3>1. Waiting(j)' => Waiting(j)
      <4> SUFFICES ASSUME NEW n \in 0..MaxRetries, queue'[<<j, n>>] > 0
                   PROVE  queue[<<j, n>>] > 0
        BY DEF Waiting
      <4>1. CASE queue' = queue
        BY <4>1
      <4>2. CASE Dispatch(i)
        BY <2>4, <4>2 DEF Dispatch
      <4> QED
        BY <2>1, <4>1, <4>2
    <3> QED
      BY <1>3, <1>4, <1>5, <1>6, <2>1, <2>2, <3>1
  <2> QED
    BY <2>3, <2>4
<1>12. ASSUME UNCHANGED vars \/ Rest
       PROVE  A <= 1 + Faults'
  <2>1. ledger' = ledger /\ Chargers(j)' = Chargers(j) /\ (Waiting(j)' => Waiting(j))
    BY <1>12 DEF vars, Rest, Chargers, JobOf, Waiting
  <2> QED
    BY <1>3, <1>4, <1>5, <1>6, <2>1
<1> QED
  BY <1>7, <1>8, <1>9, <1>10, <1>11, <1>12 DEF Next

\* However often workers crash, appends time out and the broker redelivers, a job
\* is billed no more often than it was delivered, plus once for each append that
\* timed out.  In a pool of threads this takes a broker that redelivers nothing.
THEOREM DeliveriesBoundTheBill ==
  ASSUME Solo \/ Budget["redeliver"] = 0
  PROVE  Spec => []BilledPerDelivery
<1>1. Init => DeliveryInv
  <2> SUFFICES ASSUME Init PROVE DeliveryInv
    OBVIOUS
  <2>1. SingleInv
    BY SingleInit
  <2>2. ASSUME NEW j \in Jobs
        PROVE  ledger[j] + Cardinality(Chargers(j)) + Pending(j) <= 1 + Faults
    <3>0. ASSUME NEW n \in 0..MaxRetries
          PROVE  ~(queue[<<j, n>>] > 0)
      <4>1. <<j, n>> \in Messages
        BY DEF Messages
      <4>2. queue[<<j, n>>] = 0
        BY <4>1 DEF Init
      <4> QED
        BY <4>2
    <3>a. Chargers(j) = {} /\ ledger[j] = 0
      BY DEF Init, Chargers, GuardAhead
    <3>b. ~Waiting(j)
      BY <3>0 DEF Waiting
    <3>1. Chargers(j) = {} /\ ~Waiting(j) /\ ledger[j] = 0
      BY <3>a, <3>b
    <3>2. Cardinality(Chargers(j)) = 0 /\ Pending(j) = 0
      BY <3>1, FS_EmptySet DEF Pending
    <3>3. \A e \in Events : Used(e) = 0
      BY ConstantsOK DEF Init, Used
    <3>4. Faults = 0
      BY <3>3 DEF Faults, Events
    <3> QED
      BY <3>1, <3>2, <3>4
  <2> QED
    BY <2>1, <2>2 DEF DeliveryInv, Counted
<1>2. DeliveryInv => BilledPerDelivery
  <2> SUFFICES ASSUME DeliveryInv, NEW j \in Jobs
               PROVE  ledger[j] <= 1 + Used("crash") + Used("redeliver") + Used("timeout")
    BY DEF BilledPerDelivery
  <2>1. ledger[j] + Cardinality(Chargers(j)) + Pending(j) <= 1 + Faults
    BY DEF DeliveryInv, Counted
  <2>2. ledger[j] \in Nat /\ Cardinality(Chargers(j)) \in Nat /\ Pending(j) \in 0..1
    BY ChargersType, PendingRange DEF DeliveryInv, SingleInv, TypeInv, TypeOK
  <2>3. \A e \in Events : Used(e) \in Nat
    BY ConstantsOK DEF DeliveryInv, SingleInv, TypeInv, TypeOK, Within, Used
  <2>4. Used("crash") \in Nat /\ Used("redeliver") \in Nat /\ Used("timeout") \in Nat
    BY <2>3 DEF Events
  <2> QED
    BY <2>1, <2>2, <2>4 DEF Faults
<1>3. DeliveryInv /\ [Next]_vars => DeliveryInv'
  BY CountedNext
<1> QED
  BY <1>1, <1>2, <1>3, PTL DEF Spec

-----------------------------------------------------------------------------
(* When nobody cancels and nothing is redelivered, one thread at a time works on *)
(* a job, and it alone writes the job's row.                                     *)

NoCancel ==
  /\ \A j \in Jobs : cancel[j].at = "idle" /\ ~flag[j]
  /\ \A t \in Threads : pc[t] \notin {"commit1", "publish1"}

LEMMA NeverSpent ==
  ASSUME TypeInv, NEW e \in Events, Budget[e] = 0
  PROVE  Used(e) = 0 /\ ~Spend(e)
<1>1. budget[e] = 0
  BY DEF TypeInv, TypeOK, Within
<1> QED
  BY <1>1 DEF Used, Spend

LEMMA AllHeld ==
  ASSUME Budget["redeliver"] = 0, SingleInv, NEW t \in Threads, pc[t] # "idle"
  PROVE  /\ unacked[t] /\ msg[t] \in Messages /\ JobOf(t) \in Jobs
         /\ \A u \in Threads : pc[u] # "idle" /\ JobOf(u) = JobOf(t) => u = t
         /\ \A m \in Messages : queue[m] > 0 => m[1] # JobOf(t)
<1>1. \A u \in Threads : pc[u] # "idle" => unacked[u]
  BY NeverSpent DEF SingleInv, Backed, Events
<1>2. msg[t] \in Messages /\ JobOf(t) \in Jobs
  BY DEF SingleInv, TypeInv, Sane, JobOf, Messages
<1> QED
  BY <1>1, <1>2 DEF SingleInv, Single

\* What is left of the API then.
LEMMA ApiUncancelled ==
  ASSUME TypeInv, Budget["cancel"] = 0, NoCancel, NEW j \in Jobs, Api(j) \/ FlagExpires(j)
  PROVE  /\ SubmitGoal(j) \/ Dispatch(j) \/ DispatchFails(j)
         /\ UNCHANGED <<flag, cancel, worker, pub>>
<1>1. ~Spend("cancel")
  BY NeverSpent DEF Events
<1>2. ~(CancelRead(j) \/ CancelFlag(j) \/ CancelCommit(j) \/ CancelPublish(j) \/ FlagExpires(j))
  BY <1>1 DEF NoCancel, CancelRead, CancelFlag, CancelCommit, CancelPublish, FlagExpires
<1> QED
  BY <1>2 DEF Api, SubmitGoal, Dispatch, DispatchFails, rows

LEMMA NoCancelNext ==
  ASSUME Budget["cancel"] = 0, TypeInv, NoCancel, [Next]_vars
  PROVE  NoCancel'
<1>0. \A t \in Threads : pc[t] \notin {"commit1", "publish1"}
  BY DEF NoCancel
<1>1. ASSUME NEW j \in Jobs, Api(j) \/ FlagExpires(j)
      PROVE  cancel' = cancel /\ flag' = flag /\ pc' = pc
  BY <1>1, ApiUncancelled DEF worker, running
<1>2. ASSUME NEW t \in Threads, Step(t)
      PROVE  /\ cancel' = cancel /\ flag' = flag
             /\ \A u \in Threads : pc'[u] \notin {"commit1", "publish1"}
  <2>1. cancel' = cancel /\ flag' = flag
    BY <1>2
       DEF Step, TakeLoop, StoreLoop, TraceStart, TraceEnd, Begin, Refuse, SetRunning,
           PublishRunning, Screen, Guard1, Guard2, Guard3, RunTasks, Guard4, Charge,
           StopCommit, StopPublish, FinalCommit, FinalPublish, Ack, rows, api
  <2>2. ASSUME NEW u \in Threads, u # t
        PROVE  pc'[u] \notin {"commit1", "publish1"}
    BY <1>0, <1>2, <2>2, StepIsLocal DEF TypeInv
  <2>3. pc'[t] \notin {"commit1", "publish1"}
    <3> USE DEF TypeInv, TypeOK, Goto
    <3>1. CASE Refuse(t) \/ Ack(t)
      BY <3>1 DEF Refuse, Ack, Leave
    <3>2. CASE Guard1(t) \/ Guard2(t) \/ Guard3(t) \/ Guard4(t)
      <4>1. msg[t] \in Messages /\ JobOf(t) \in Jobs
        BY <3>2 DEF Guard1, Guard2, Guard3, Guard4, Sane, JobOf, Messages
      <4>2. ~Halt(t)
        BY <4>1 DEF NoCancel, Halt, SeesFlag
      <4> QED
        BY <3>2, <4>2 DEF Guard1, Guard2, Guard3, Guard4
    <3>3. CASE StopCommit(t) \/ StopPublish(t)
      BY <1>0, <3>3 DEF StopCommit, StopPublish
    <3>4. CASE ~(\/ Refuse(t) \/ Ack(t) \/ Guard1(t) \/ Guard2(t) \/ Guard3(t) \/ Guard4(t)
                 \/ StopCommit(t) \/ StopPublish(t))
      BY <1>2, <3>4 DEF Step, TakeLoop, StoreLoop, TraceStart, TraceEnd, Begin, SetRunning,
                        PublishRunning, Screen, RunTasks, Charge, FinalCommit, FinalPublish
    <3> QED
      BY <3>1, <3>2, <3>3, <3>4
  <2> QED
    BY <2>1, <2>2, <2>3
<1>3. ASSUME NEW t \in Threads, Redeliver(t) \/ \E m \in Messages : Receive(t, m)
      PROVE  /\ cancel' = cancel /\ flag' = flag
             /\ \A u \in Threads : pc'[u] \notin {"commit1", "publish1"}
  BY <1>0, <1>3 DEF Redeliver, Receive, Goto, rows, api, TypeInv, TypeOK
<1>4. ASSUME NEW p \in Processes, Crash(p)
      PROVE  /\ cancel' = cancel /\ flag' = flag
             /\ \A u \in Threads : pc'[u] \notin {"commit1", "publish1"}
  BY <1>0, <1>4 DEF Crash, rows, api
<1>5. ASSUME UNCHANGED vars \/ Rest
      PROVE  cancel' = cancel /\ flag' = flag /\ pc' = pc
  BY <1>5 DEF vars, Rest
<1>6. /\ cancel' = cancel /\ flag' = flag
      /\ \A u \in Threads : pc'[u] \notin {"commit1", "publish1"}
  BY <1>0, <1>1, <1>2, <1>3, <1>4, <1>5 DEF Next
<1> QED
  BY <1>6 DEF NoCancel

\* The only steps of a thread that write a row, and the row is its job's.
LEMMA StepWrites ==
  ASSUME TypeInv, NEW t \in Threads, Step(t)
  PROVE  \/ row' = row
         \/ /\ SetRunning(t)
            /\ row' = [row EXCEPT ![JobOf(t)] = UpdateStatus(@, "RUNNING")]
            /\ pc'[t] = "pubRunning"
         \/ /\ StopCommit(t)
            /\ row' = [row EXCEPT ![JobOf(t)] = UpdateStatus(@, "CANCELLED")]
            /\ pc'[t] = "publish1"
         \/ /\ FinalCommit(t)
            /\ row' = [row EXCEPT ![JobOf(t)] = WriteVerdict(@, verdict[t])]
            /\ pc'[t] = "publish2" /\ verdict' = verdict
<1> USE DEF TypeInv, TypeOK, Goto
<1>1. CASE SetRunning(t)
  BY <1>1 DEF SetRunning
<1>2. CASE StopCommit(t)
  BY <1>2 DEF StopCommit
<1>3. CASE FinalCommit(t)
  BY <1>3 DEF FinalCommit
<1>4. CASE ~SetRunning(t) /\ ~StopCommit(t) /\ ~FinalCommit(t)
  BY <1>4 DEF Step, TakeLoop, StoreLoop, TraceStart, TraceEnd, Begin, Refuse,
              PublishRunning, Screen, Guard1, Guard2, Guard3, RunTasks, Guard4, Charge,
              StopPublish, FinalPublish, Ack, rows
<1> QED
  BY <1>1, <1>2, <1>3, <1>4

-----------------------------------------------------------------------------
(* The documented flow is implemented when nobody cancels, no worker is lost, *)
(* nothing is redelivered and writes reach the database.                      *)

Orderly == Budget["cancel"] = 0 /\ Budget["crash"] = 0 /\ Budget["redeliver"] = 0 /\ Budget["db"] = 0

\* The statuses a job's row may have while its thread is at a step.
Due(step) ==
  IF step \in {"accepted", "newLoop", "trace", "tracing", "begin", "setRunning"} THEN {"QUEUED"}
  ELSE IF step \in {"publish2", "ack"} THEN Terminal ELSE {"RUNNING"}

\* The steps of a run between the two.
Middle == {"pubRunning", "screen", "guard1", "guard2", "guard3", "tasks", "guard4", "charge",
           "commit2"}

\* The row follows the call, the queue and the thread.
Followed ==
  /\ \A j \in Jobs :
       /\ row[j].status = "ABSENT" <=> call[j] = "none"
       /\ call[j] \in {"committed", "error"} => row[j].status = "QUEUED"
  /\ \A m \in Messages : queue[m] > 0 => row[m[1]].status = "QUEUED"
  /\ \A t \in Threads : pc[t] # "idle" => row[JobOf(t)].status \in Due(pc[t])

FlowInv == SingleInv /\ NoCancel /\ Followed

Status == [j \in Jobs |-> row[j].status]

LEMMA RowMoves ==
  ASSUME TypeInv, NEW j \in Jobs, NEW r \in Rows, row' = [row EXCEPT ![j] = r]
  PROVE  /\ Status' = [Status EXCEPT ![j] = r.status]
         /\ row'[j].status = r.status
         /\ \A i \in Jobs : i # j => row'[i] = row[i]
BY DEF TypeInv, TypeOK, Status

\* One step of a thread: its row is written from what the last status was due to.
LEMMA FlowStep ==
  ASSUME Orderly, FlowInv, NEW t \in Threads, Step(t)
  PROVE  /\ JobOf(t) \in Jobs /\ pc[t] # "idle"
         /\ \/ /\ row' = row
               /\ pc'[t] # "idle" => msg' = msg /\ Due(pc'[t]) = Due(pc[t])
            \/ /\ pc'[t] = "pubRunning" /\ msg' = msg
               /\ row[JobOf(t)].status = "QUEUED" /\ row'[JobOf(t)].status = "RUNNING"
               /\ Status' = [Status EXCEPT ![JobOf(t)] = "RUNNING"]
               /\ \A i \in Jobs : i # JobOf(t) => row'[i] = row[i]
            \/ /\ pc'[t] = "publish2" /\ msg' = msg
               /\ row[JobOf(t)].status = "RUNNING" /\ row'[JobOf(t)].status \in Terminal
               /\ Status' = [Status EXCEPT ![JobOf(t)] = row'[JobOf(t)].status]
               /\ \A i \in Jobs : i # JobOf(t) => row'[i] = row[i]
<1> USE DEF FlowInv, SingleInv, Orderly
<1>1. pc[t] # "idle" /\ JobOf(t) \in Jobs /\ row[JobOf(t)] \in Rows
  <2>1. pc[t] # "idle"
    BY DEF Step, TakeLoop, StoreLoop, TraceStart, TraceEnd, Begin, Refuse, SetRunning,
           PublishRunning, Screen, Guard1, Guard2, Guard3, RunTasks, Guard4, Charge,
           StopCommit, StopPublish, FinalCommit, FinalPublish, Ack
  <2> QED
    BY <2>1, AllHeld DEF TypeInv, TypeOK
<1>2. ~Spend("db")
  BY NeverSpent DEF Events
<1>3. ~SeesFlag(JobOf(t))
  BY <1>1 DEF NoCancel, SeesFlag
<1>4. row[JobOf(t)].status \in Due(pc[t])
  BY <1>1 DEF Followed
<1>5. CASE SetRunning(t)
  <2>1. /\ row' = [row EXCEPT ![JobOf(t)] = UpdateStatus(row[JobOf(t)], "RUNNING")]
        /\ pc'[t] = "pubRunning" /\ msg' = msg /\ pc[t] = "setRunning"
    BY <1>2, <1>5 DEF SetRunning, Goto, TypeInv, TypeOK
  <2>2. /\ UpdateStatus(row[JobOf(t)], "RUNNING") \in Rows
        /\ UpdateStatus(row[JobOf(t)], "RUNNING").status = "RUNNING"
    BY <1>1, UpdateType DEF Statuses
  <2>3. row[JobOf(t)].status = "QUEUED"
    BY <1>4, <2>1 DEF Due
  <2>4. /\ Status' = [Status EXCEPT ![JobOf(t)] = "RUNNING"]
        /\ row'[JobOf(t)].status = "RUNNING"
        /\ \A i \in Jobs : i # JobOf(t) => row'[i] = row[i]
    BY <1>1, <2>1, <2>2, RowMoves
  <2> QED
    BY <1>1, <2>1, <2>3, <2>4
<1>6. CASE FinalCommit(t)
  <2>1. /\ row' = [row EXCEPT ![JobOf(t)] = WriteVerdict(row[JobOf(t)], verdict[t])]
        /\ pc'[t] = "publish2" /\ msg' = msg /\ pc[t] = "commit2" /\ verdict[t] \in Terminal
    BY <1>2, <1>6 DEF FinalCommit, Goto, TypeInv, TypeOK, Sane
  <2>2. /\ WriteVerdict(row[JobOf(t)], verdict[t]) \in Rows
        /\ WriteVerdict(row[JobOf(t)], verdict[t]).status = verdict[t]
    BY <1>1, <2>1, VerdictType DEF Statuses
  <2>3. row[JobOf(t)].status = "RUNNING"
    BY <1>4, <2>1 DEF Due
  <2>4. /\ Status' = [Status EXCEPT ![JobOf(t)] = verdict[t]]
        /\ row'[JobOf(t)].status = verdict[t]
        /\ \A i \in Jobs : i # JobOf(t) => row'[i] = row[i]
    BY <1>1, <2>1, <2>2, RowMoves
  <2> QED
    BY <1>1, <2>1, <2>3, <2>4
<1>7. CASE StopCommit(t) \/ StopPublish(t)
  <2>1. pc[t] \in {"commit1", "publish1"}
    BY <1>7 DEF StopCommit, StopPublish
  <2> QED
    BY <2>1 DEF NoCancel
<1>8. CASE ~SetRunning(t) /\ ~FinalCommit(t) /\ ~StopCommit(t) /\ ~StopPublish(t)
  <2>1. row' = row
    BY <1>8, StepWrites
  <2>2. CASE Refuse(t) \/ Ack(t)
    <3>1. pc'[t] = "idle"
      BY <2>2 DEF Refuse, Ack, Leave, Goto, TypeInv, TypeOK
    <3> QED
      BY <1>1, <2>1, <3>1
  <2>3. CASE ~Refuse(t) /\ ~Ack(t)
    <3>1. /\ msg' = msg
          /\ \/ /\ pc[t] \in {"accepted", "newLoop", "trace", "tracing", "begin"}
                /\ pc'[t] \in {"newLoop", "trace", "tracing", "begin", "setRunning"}
             \/ pc[t] \in Middle /\ pc'[t] \in Middle
             \/ pc[t] = "publish2" /\ pc'[t] = "ack"
      BY <1>3, <1>8, <2>3
         DEF Step, TakeLoop, StoreLoop, TraceStart, TraceEnd, Begin, PublishRunning, Screen,
             Guard1, Guard2, Guard3, RunTasks, Guard4, Halt, Charge, FinalPublish, Goto,
             Middle, TypeInv, TypeOK
    <3>2. Due(pc'[t]) = Due(pc[t])
      BY <3>1 DEF Due, Middle
    <3> QED
      BY <1>1, <2>1, <3>1, <3>2
  <2> QED
    BY <2>2, <2>3
<1> QED
  BY <1>5, <1>6, <1>7, <1>8

\* Every other step: a thread takes a message, or the API submits or dispatches.
LEMMA FollowedNext ==
  ASSUME Orderly, FlowInv, [Next]_vars
  PROVE  FlowInv' /\ [Flow!Next]_Status
<1> USE DEF FlowInv, SingleInv, Orderly
<1>1. SingleInv' /\ NoCancel' /\ TypeInv' /\ TypeInv
  BY SingleNext, NoCancelNext
<1>2. Terminal = Flow!Terminal
  BY DEF Terminal, Flow!Terminal
<1>3. ASSUME NEW t \in Threads, Step(t)
      PROVE  Followed' /\ [Flow!Next]_Status
  <2>0. PICK j \in Jobs : j = JobOf(t)
    BY <1>3, FlowStep
  <2>1. call' = call
    BY <1>3 DEF Step, TakeLoop, StoreLoop, TraceStart, TraceEnd, Begin, Refuse, SetRunning,
                PublishRunning, Screen, Guard1, Guard2, Guard3, RunTasks, Guard4, Charge,
                StopCommit, StopPublish, FinalCommit, FinalPublish, Ack, api
  <2>2. \A u \in Threads : u # t => /\ pc'[u] = pc[u] /\ msg'[u] = msg[u] /\ JobOf(u)' = JobOf(u)
    BY <1>1, <1>3, StepIsLocal DEF JobOf, TypeInv
  <2>3. /\ j \in Jobs /\ pc[t] # "idle"
        /\ \A u \in Threads : pc[u] # "idle" /\ JobOf(u) = j => u = t
        /\ \A u \in Threads : pc[u] # "idle" => JobOf(u) \in Jobs
        /\ \A m \in Messages : queue[m] > 0 => m[1] # j
    BY <1>3, <2>0, FlowStep, AllHeld
  <2>4. row[j].status # "ABSENT" /\ call[j] \notin {"none", "committed", "error"}
    BY <2>0, <2>3 DEF Followed, Fresh, Due, Terminal
  <2>5. \A m \in Messages : queue'[m] > 0 =>
            queue[m] > 0 \/ (Refuse(t) /\ m[1] = j)
    BY <1>1, <1>3, <2>0, StepMoves DEF TypeInv, TypeOK
  <2>6. CASE row' = row /\ (pc'[t] # "idle" => msg' = msg /\ Due(pc'[t]) = Due(pc[t]))
    <3>1. Refuse(t) => row[j].status = "QUEUED"
      BY <2>0, <2>3 DEF Refuse, Followed, Due
    <3>2. \A m \in Messages : queue'[m] > 0 => row[m[1]].status = "QUEUED"
      BY <2>5, <3>1 DEF Followed
    <3>3. \A u \in Threads : pc'[u] # "idle" => row[JobOf(u)'].status \in Due(pc'[u])
      BY <2>2, <2>3, <2>6 DEF Followed, JobOf
    <3>4. Followed'
      BY <2>1, <2>6, <3>2, <3>3 DEF Followed, JobOf
    <3>5. Status' = Status
      BY <2>6 DEF Status
    <3> QED
      BY <3>4, <3>5
  <2>7. ASSUME msg' = msg, \A i \in Jobs : i # j => row'[i] = row[i],
               row'[j].status \in Due(pc'[t]), row'[j].status # "ABSENT", ~Refuse(t)
        PROVE  Followed'
    <3>1. JobOf(t)' = j
      BY <2>0, <2>7 DEF JobOf
    <3>2. \A i \in Jobs : /\ row'[i].status = "ABSENT" <=> call'[i] = "none"
                          /\ call'[i] \in {"committed", "error"} => row'[i].status = "QUEUED"
      BY <2>1, <2>4, <2>7 DEF Followed
    <3>3. \A m \in Messages : queue'[m] > 0 => row'[m[1]].status = "QUEUED"
      BY <2>3, <2>5, <2>7 DEF Followed, Messages
    <3>4. \A u \in Threads : pc'[u] # "idle" => row'[JobOf(u)'].status \in Due(pc'[u])
      BY <2>2, <2>3, <2>7, <3>1 DEF Followed
    <3> QED
      BY <3>2, <3>3, <3>4 DEF Followed, JobOf
  <2>8. CASE /\ pc'[t] = "pubRunning" /\ msg' = msg
             /\ row[j].status = "QUEUED" /\ row'[j].status = "RUNNING"
             /\ Status' = [Status EXCEPT ![j] = "RUNNING"]
             /\ \A i \in Jobs : i # j => row'[i] = row[i]
    <3>1. ~Refuse(t)
      BY <1>1, <2>8 DEF Refuse, Leave, Goto, TypeInv, TypeOK
    <3>2. Followed'
      BY <2>7, <2>8, <3>1 DEF Due
    <3>3. Flow!Start(j)
      BY <2>3, <2>8 DEF Flow!Start, Status
    <3> QED
      BY <3>2, <3>3 DEF Flow!Next
  <2>9. CASE /\ pc'[t] = "publish2" /\ msg' = msg
             /\ row[j].status = "RUNNING" /\ row'[j].status \in Terminal
             /\ Status' = [Status EXCEPT ![j] = row'[j].status]
             /\ \A i \in Jobs : i # j => row'[i] = row[i]
    <3>1. ~Refuse(t)
      BY <1>1, <2>9 DEF Refuse, Leave, Goto, TypeInv, TypeOK
    <3>2. Followed'
      BY <2>7, <2>9, <3>1 DEF Due, Terminal
    <3>3. Flow!Finish(j)
      BY <1>2, <2>3, <2>9 DEF Flow!Finish, Status
    <3> QED
      BY <3>2, <3>3 DEF Flow!Next
  <2> QED
    BY <1>3, <2>0, <2>6, <2>8, <2>9, FlowStep
<1>4. ASSUME NEW t \in Threads, NEW m \in Messages, Receive(t, m)
      PROVE  Followed' /\ [Flow!Next]_Status
  <2>1. /\ row' = row /\ call' = call /\ pc'[t] = "accepted" /\ JobOf(t)' = m[1] /\ queue[m] > 0
        /\ \A u \in Threads : u # t => pc'[u] = pc[u] /\ JobOf(u)' = JobOf(u)
        /\ \A k \in Messages : queue'[k] > 0 => queue[k] > 0
    BY <1>1, <1>4 DEF Receive, Goto, JobOf, rows, api, TypeInv, TypeOK
  <2>2. row[m[1]].status \in Due("accepted")
    BY <2>1 DEF Followed, Due
  <2>3. Followed'
    BY <2>1, <2>2 DEF Followed
  <2>4. Status' = Status
    BY <2>1 DEF Status
  <2> QED
    BY <2>3, <2>4
<1>5. ASSUME NEW t \in Threads, Redeliver(t)
      PROVE  FALSE
  BY <1>1, <1>5, NeverSpent DEF Redeliver, Events
<1>6. ASSUME NEW p \in Processes, Crash(p)
      PROVE  FALSE
  BY <1>1, <1>6, NeverSpent DEF Crash, Events
<1>7. ASSUME NEW j \in Jobs, Api(j) \/ FlagExpires(j)
      PROVE  Followed' /\ [Flow!Next]_Status
  <2>1. /\ SubmitGoal(j) \/ Dispatch(j) \/ DispatchFails(j)
        /\ pc' = pc /\ \A u \in Threads : JobOf(u)' = JobOf(u)
    BY <1>1, <1>7, ApiUncancelled DEF worker, running, JobOf
  <2>a. \A u \in Threads : pc[u] # "idle" => JobOf(u) \in Jobs
    BY AllHeld
  <2>2. CASE SubmitGoal(j)
    <3>1. /\ row' = [row EXCEPT ![j] = [row[j] EXCEPT !.status = "QUEUED"]]
          /\ [row[j] EXCEPT !.status = "QUEUED"] \in Rows
          /\ [row[j] EXCEPT !.status = "QUEUED"].status = "QUEUED"
          /\ call' = [call EXCEPT ![j] = "committed"] /\ queue' = queue /\ call[j] = "none"
      BY <1>1, <2>2 DEF SubmitGoal, TypeInv, TypeOK, Rows, Statuses
    <3>2. /\ Status' = [Status EXCEPT ![j] = "QUEUED"] /\ row'[j].status = "QUEUED"
          /\ \A i \in Jobs : i # j => row'[i] = row[i]
      BY <1>1, <3>1, RowMoves
    <3>3. /\ \A m \in Messages : queue[m] > 0 => m[1] # j
          /\ \A t \in Threads : pc[t] # "idle" => JobOf(t) # j
      BY <3>1 DEF Fresh
    <3>4. /\ call'[j] = "committed" /\ \A i \in Jobs : i # j => call'[i] = call[i]
      BY <1>1, <3>1 DEF TypeInv, TypeOK
    <3>5. \A m \in Messages : queue'[m] > 0 => row'[m[1]].status = "QUEUED"
      BY <3>1, <3>2, <3>3 DEF Followed, Messages
    <3>6. \A u \in Threads : pc'[u] # "idle" => row'[JobOf(u)'].status \in Due(pc'[u])
      BY <2>1, <2>a, <3>2, <3>3 DEF Followed
    <3>7. \A i \in Jobs : /\ row'[i].status = "ABSENT" <=> call'[i] = "none"
                          /\ call'[i] \in {"committed", "error"} => row'[i].status = "QUEUED"
      BY <3>2, <3>4 DEF Followed
    <3>8. Followed'
      BY <3>5, <3>6, <3>7 DEF Followed
    <3>9. Flow!Submit(j)
      BY <3>1, <3>2 DEF Flow!Submit, Status, Followed
    <3> QED
      BY <3>8, <3>9 DEF Flow!Next
  <2>3. CASE Dispatch(j) \/ DispatchFails(j)
    <3>1. /\ row' = row /\ call[j] = "committed"
          /\ \/ call' = [call EXCEPT ![j] = "dispatched"]
             \/ call' = [call EXCEPT ![j] = "error"]
          /\ \/ queue' = queue
             \/ queue' = [queue EXCEPT ![<<j, 0>>] = @ + 1]
      BY <2>3 DEF Dispatch, DispatchFails, rows
    <3>2. row[j].status = "QUEUED"
      BY <3>1 DEF Followed
    <3>3. \A m \in Messages : queue'[m] > 0 => row[m[1]].status = "QUEUED"
      <4> SUFFICES ASSUME NEW m \in Messages, queue'[m] > 0
                   PROVE  row[m[1]].status = "QUEUED"
        OBVIOUS
      <4>1. CASE m = <<j, 0>>
        BY <3>2, <4>1
      <4>2. CASE m # <<j, 0>>
        <5>1. queue[m] > 0
          BY <1>1, <3>1, <4>2 DEF TypeInv, TypeOK
        <5> QED
          BY <5>1 DEF Followed
      <4> QED
        BY <4>1, <4>2
    <3>4. \A i \in Jobs : /\ row[i].status = "ABSENT" <=> call'[i] = "none"
                          /\ call'[i] \in {"committed", "error"} => row[i].status = "QUEUED"
      BY <1>1, <3>1, <3>2 DEF Followed, TypeInv, TypeOK
    <3>5. Followed'
      BY <2>1, <3>1, <3>3, <3>4 DEF Followed
    <3>6. Status' = Status
      BY <3>1 DEF Status
    <3> QED
      BY <3>5, <3>6
  <2> QED
    BY <2>1, <2>2, <2>3
<1>8. ASSUME UNCHANGED vars \/ Rest
      PROVE  Followed' /\ [Flow!Next]_Status
  BY <1>8 DEF vars, Rest, Followed, Status, JobOf
<1>9. Followed' /\ [Flow!Next]_Status
  BY <1>3, <1>4, <1>5, <1>6, <1>7, <1>8 DEF Next
<1> QED
  BY <1>1, <1>9

\* The program implements the documented status flow, QUEUED, RUNNING, then one
\* terminal status for good, if nobody cancels, no worker is lost, the broker
\* redelivers nothing and writes reach the database: whatever else fails, in pools
\* of threads as well, and although a refused message is sent again.
THEOREM DocumentedFlowIsImplemented ==
  ASSUME Orderly
  PROVE  Spec => DocumentedFlow
<1>1. Init => Flow!Init /\ FlowInv
  <2> SUFFICES ASSUME Init PROVE Flow!Init /\ FlowInv
    OBVIOUS
  <2>1. Flow!Init
    BY DEF Init, Flow!Init
  <2>2. NoCancel
    BY DEF Init, NoCancel, NoCall
  <2>3. Followed
    BY DEF Init, Followed
  <2> QED
    BY <2>1, <2>2, <2>3, SingleInit DEF FlowInv
<1>2. FlowInv /\ [Next]_vars => FlowInv' /\ [Flow!Next]_Status
  BY FollowedNext
<1> QED
  BY <1>1, <1>2, PTL DEF Spec, DocumentedFlow, Flow!Spec, Status

-----------------------------------------------------------------------------
(* What the subscribers heard last. *)

\* Writes reach the database and Redis, nobody cancels, nothing is redelivered.
Steady ==
  Budget["db"] = 0 /\ Budget["redis"] = 0 /\ Budget["redeliver"] = 0 /\ Budget["cancel"] = 0

\* A thread about to publish has its verdict in the row.
Written == \A t \in Threads : pc[t] = "publish2" => row[JobOf(t)].status = verdict[t]

\* A dispatched job waits, is owed a status, or has one that is published or that
\* its thread is about to publish.
Agreed ==
  \A j \in Jobs :
    call[j] = "dispatched" =>
      \/ Waiting(j)
      \/ \E t \in Threads : Owes(t) /\ JobOf(t) = j
      \/ /\ row[j].status \in Terminal
         /\ \/ pub[j] = row[j].status
            \/ \E t \in Threads : pc[t] = "publish2" /\ JobOf(t) = j

AgreedInv == SingleInv /\ NoCancel /\ Written /\ Agreed

\* A thread's step leaves every other job's row and channel alone.
LEMMA StepSpares ==
  ASSUME TypeInv, NEW t \in Threads, Step(t), NEW j \in Jobs, j # JobOf(t)
  PROVE  row'[j] = row[j] /\ pub'[j] = pub[j]
<1> USE DEF TypeInv, TypeOK
<1>1. row'[j] = row[j]
  BY StepWrites
<1>2. CASE PublishRunning(t) \/ StopPublish(t) \/ FinalPublish(t)
  BY <1>1, <1>2 DEF PublishRunning, StopPublish, FinalPublish, Publish
<1>3. ~(PublishRunning(t) \/ StopPublish(t) \/ FinalPublish(t)) => pub' = pub
  BY DEF Step, TakeLoop, StoreLoop, TraceStart, TraceEnd, Begin, Refuse, SetRunning, Screen,
         Guard1, Guard2, Guard3, RunTasks, Guard4, Charge, StopCommit, FinalCommit, Ack, rows
<1> QED
  BY <1>1, <1>2, <1>3

LEMMA StepBusy ==
  ASSUME NEW t \in Threads, Step(t)
  PROVE  pc[t] # "idle" /\ call' = call
BY DEF Step, TakeLoop, StoreLoop, TraceStart, TraceEnd, Begin, Refuse, SetRunning,
       PublishRunning, Screen, Guard1, Guard2, Guard3, RunTasks, Guard4, Charge,
       StopCommit, StopPublish, FinalCommit, FinalPublish, Ack, api

LEMMA WrittenNext ==
  ASSUME Steady, SingleInv, NoCancel, Written, [Next]_vars
  PROVE  Written'
<1> USE DEF SingleInv, Steady
<1>a. TypeInv /\ \A u \in Threads : pc[u] # "idle" => JobOf(u) \in Jobs
  BY AllHeld
<1>1. SUFFICES ASSUME NEW u \in Threads, pc'[u] = "publish2"
               PROVE  row'[JobOf(u)'].status = verdict'[u]
  BY DEF Written, JobOf
<1>2. ASSUME NEW t \in Threads, Step(t)
      PROVE  row'[JobOf(u)'].status = verdict'[u]
  <2>1. CASE u = t
    <3>1. FinalCommit(t)
      BY <1>1, <1>2, <2>1, <1>a
         DEF Step, TakeLoop, StoreLoop, TraceStart, TraceEnd, Begin, Refuse, SetRunning,
             PublishRunning, Screen, Guard1, Guard2, Guard3, RunTasks, Guard4, Halt, Charge,
             StopCommit, StopPublish, FinalPublish, Ack, Leave, Goto, TypeInv, TypeOK
    <3>2. /\ row' = [row EXCEPT ![JobOf(t)] = WriteVerdict(@, verdict[t])]
          /\ verdict' = verdict /\ JobOf(t)' = JobOf(t)
          /\ verdict[t] \in Statuses /\ JobOf(t) \in Jobs
      BY <1>1, <1>a, <2>1, <3>1
         DEF FinalCommit, Goto, JobOf, TypeInv, TypeOK, Sane, Statuses
    <3>3. row'[JobOf(t)] = WriteVerdict(row[JobOf(t)], verdict[t]) /\ row[JobOf(t)] \in Rows
      BY <1>a, <3>2 DEF TypeInv, TypeOK
    <3>4. WriteVerdict(row[JobOf(t)], verdict[t]).status = verdict[t]
      BY <3>2, <3>3, VerdictType
    <3> QED
      BY <2>1, <3>2, <3>3, <3>4
  <2>2. CASE u # t
    <3>1. pc[u] = "publish2" /\ msg'[u] = msg[u] /\ verdict'[u] = verdict[u] /\ JobOf(u)' = JobOf(u)
      BY <1>1, <1>2, <1>a, <2>2, StepIsLocal DEF TypeInv, JobOf
    <3>2. JobOf(u) # JobOf(t) /\ JobOf(u) \in Jobs
      BY <1>2, <2>2, <3>1, StepBusy, AllHeld
    <3>3. row'[JobOf(u)] = row[JobOf(u)]
      BY <1>2, <1>a, <3>2, StepSpares
    <3> QED
      BY <3>1, <3>3 DEF Written
  <2> QED
    BY <2>1, <2>2
<1>3. ASSUME NEW t \in Threads, Redeliver(t) \/ \E m \in Messages : Receive(t, m)
      PROVE  row'[JobOf(u)'].status = verdict'[u]
  <2>1. row' = row /\ verdict' = verdict /\ pc[u] = "publish2" /\ msg'[u] = msg[u]
    BY <1>1, <1>3, <1>a DEF Redeliver, Receive, Goto, rows, TypeInv, TypeOK
  <2> QED
    BY <2>1 DEF Written, JobOf
<1>4. ASSUME NEW p \in Processes, Crash(p)
      PROVE  row'[JobOf(u)'].status = verdict'[u]
  <2>1. row' = row /\ verdict'[u] = verdict[u] /\ pc[u] = "publish2" /\ msg'[u] = msg[u]
    BY <1>1, <1>4 DEF Crash, rows
  <2> QED
    BY <2>1 DEF Written, JobOf
<1>5. ASSUME NEW j \in Jobs, Api(j) \/ FlagExpires(j)
      PROVE  row'[JobOf(u)'].status = verdict'[u]
  <2>1. /\ SubmitGoal(j) \/ Dispatch(j) \/ DispatchFails(j)
        /\ verdict' = verdict /\ JobOf(u)' = JobOf(u) /\ pc[u] = "publish2"
    BY <1>1, <1>5, <1>a, ApiUncancelled DEF worker, running, JobOf
  <2>2. CASE SubmitGoal(j)
    <3>1. call[j] # "dispatched" /\ \A i \in Jobs : i # j => row'[i] = row[i]
      BY <2>2 DEF SubmitGoal
    <3>2. JobOf(u) # j /\ JobOf(u) \in Jobs
      BY <1>a, <2>1, <3>1 DEF Fresh
    <3> QED
      BY <2>1, <3>1, <3>2 DEF Written
  <2>3. CASE Dispatch(j) \/ DispatchFails(j)
    BY <2>1, <2>3 DEF Dispatch, DispatchFails, rows, Written
  <2> QED
    BY <2>1, <2>2, <2>3
<1>6. ASSUME UNCHANGED vars \/ Rest
      PROVE  row'[JobOf(u)'].status = verdict'[u]
  BY <1>1, <1>6 DEF vars, Rest, Written, JobOf
<1> QED
  BY <1>2, <1>3, <1>4, <1>5, <1>6 DEF Next

\* A job whose thread is past the write: the status it wrote is published.
LEMMA DoneAgrees ==
  ASSUME Steady, AgreedInv, [Next]_vars, NEW j \in Jobs, call[j] = "dispatched",
         ~\E t \in Threads : Owes(t) /\ JobOf(t) = j,
         row[j].status \in Terminal,
         pub[j] = row[j].status \/ \E t \in Threads : pc[t] = "publish2" /\ JobOf(t) = j
  PROVE  \/ Waiting(j)'
         \/ /\ row'[j].status \in Terminal
            /\ \/ pub'[j] = row'[j].status
               \/ \E t \in Threads : pc'[t] = "publish2" /\ JobOf(t)' = j
<1> USE DEF AgreedInv, SingleInv, Steady
<1>a. TypeInv
  OBVIOUS
<1>1. ASSUME row'[j] = row[j], pub'[j] = pub[j],
             \A t \in Threads : pc[t] = "publish2" /\ JobOf(t) = j =>
               \/ pc'[t] = "publish2" /\ msg'[t] = msg[t]
               \/ Waiting(j)'
      PROVE  \/ Waiting(j)'
             \/ /\ row'[j].status \in Terminal
                /\ \/ pub'[j] = row'[j].status
                   \/ \E t \in Threads : pc'[t] = "publish2" /\ JobOf(t)' = j
  BY <1>1 DEF JobOf
<1>2. ASSUME NEW t \in Threads, Step(t)
      PROVE  \/ Waiting(j)'
             \/ /\ row'[j].status \in Terminal
                /\ \/ pub'[j] = row'[j].status
                   \/ \E u \in Threads : pc'[u] = "publish2" /\ JobOf(u)' = j
  <2>0. \A u \in Threads : u # t => pc'[u] = pc[u] /\ msg'[u] = msg[u]
    BY <1>2, <1>a, StepIsLocal DEF TypeInv
  <2>1. CASE JobOf(t) # j
    <3>1. row'[j] = row[j] /\ pub'[j] = pub[j]
      BY <1>2, <1>a, <2>1, StepSpares
    <3> QED
      BY <1>1, <2>0, <2>1, <3>1
  <2>2. CASE JobOf(t) = j /\ pc[t] = "publish2"
    <3>1. FinalPublish(t)
      BY <1>2, <2>2 DEF Step, TakeLoop, StoreLoop, TraceStart, TraceEnd, Begin, Refuse,
              SetRunning, PublishRunning, Screen, Guard1, Guard2, Guard3, RunTasks, Guard4,
              Charge, StopCommit, StopPublish, FinalCommit, Ack
    <3>2. row' = row /\ pub' = [pub EXCEPT ![j] = verdict[t]]
      <4>1. ~Spend("redis")
        BY <1>a, NeverSpent DEF Events
      <4> QED
        BY <2>2, <3>1, <4>1 DEF FinalPublish, Publish
    <3>3. pub'[j] = row'[j].status
      BY <1>a, <2>2, <3>2 DEF Written, TypeInv, TypeOK
    <3> QED
      BY <3>2, <3>3
  <2>3. CASE JobOf(t) = j /\ pc[t] = "ack"
    <3>1. row' = row /\ pub' = pub
      BY <1>2, <2>3 DEF Step, TakeLoop, StoreLoop, TraceStart, TraceEnd, Begin, Refuse,
              SetRunning, PublishRunning, Screen, Guard1, Guard2, Guard3, RunTasks, Guard4,
              Charge, StopCommit, StopPublish, FinalCommit, FinalPublish, Ack, rows
    <3> QED
      BY <1>1, <2>0, <2>3, <3>1
  <2> QED
    BY <1>2, <2>1, <2>2, <2>3, StepBusy DEF Owes
<1>3. ASSUME NEW t \in Threads, Redeliver(t) \/ \E m \in Messages : Receive(t, m)
      PROVE  /\ row' = row /\ pub' = pub
             /\ \A u \in Threads : pc[u] = "publish2" => pc'[u] = "publish2" /\ msg'[u] = msg[u]
  BY <1>3, <1>a DEF Redeliver, Receive, Goto, rows, TypeInv, TypeOK
<1>4. ASSUME NEW p \in Processes, Crash(p)
      PROVE  /\ row' = row /\ pub' = pub
             /\ \A t \in Threads : pc[t] = "publish2" /\ JobOf(t) = j =>
                  \/ pc'[t] = "publish2" /\ msg'[t] = msg[t]
                  \/ Waiting(j)'
  <2>1. row' = row /\ pub' = pub
    BY <1>4 DEF Crash, rows
  <2>2. ASSUME NEW t \in Threads, pc[t] = "publish2", JobOf(t) = j
        PROVE  (pc'[t] = "publish2" /\ msg'[t] = msg[t]) \/ Waiting(j)'
    <3>1. CASE ProcessOf[t] # p
      BY <1>4, <2>2, <3>1 DEF Crash
    <3>2. CASE ProcessOf[t] = p
      <4>1. unacked[t] /\ msg[t] \in Messages
        BY <2>2, AllHeld
      <4> QED
        BY <1>4, <1>a, <2>2, <3>2, <4>1, CrashRestores
    <3> QED
      BY <3>1, <3>2
  <2> QED
    BY <2>1, <2>2
<1>5. ASSUME NEW i \in Jobs, Api(i) \/ FlagExpires(i)
      PROVE  row'[j] = row[j] /\ pub' = pub /\ pc' = pc /\ msg' = msg
  <2>1. /\ SubmitGoal(i) \/ Dispatch(i) \/ DispatchFails(i)
        /\ pub' = pub /\ pc' = pc /\ msg' = msg
    BY <1>5, <1>a, ApiUncancelled DEF worker, running
  <2>2. CASE SubmitGoal(i)
    <3>1. i # j /\ row'[j] = row[j]
      BY <1>a, <2>2 DEF SubmitGoal, TypeInv, TypeOK
    <3> QED
      BY <2>1, <3>1
  <2>3. CASE Dispatch(i) \/ DispatchFails(i)
    BY <2>1, <2>3 DEF Dispatch, DispatchFails, rows
  <2> QED
    BY <2>1, <2>2, <2>3
<1>6. ASSUME UNCHANGED vars \/ Rest
      PROVE  row' = row /\ pub' = pub /\ pc' = pc /\ msg' = msg
  BY <1>6 DEF vars, Rest
<1> QED
  BY <1>1, <1>2, <1>3, <1>4, <1>5, <1>6 DEF Next

LEMMA AgreedNext ==
  ASSUME Solo, Steady, AgreedInv, [Next]_vars
  PROVE  AgreedInv'
<1> USE DEF AgreedInv
<1>1. SingleInv' /\ NoCancel' /\ Written' /\ TypeInv
  BY SingleNext, NoCancelNext, WrittenNext DEF Steady, SingleInv
<1>2. SUFFICES ASSUME NEW j \in Jobs, call'[j] = "dispatched"
               PROVE  \/ Waiting(j)'
                      \/ \E t \in Threads : Owes(t)' /\ JobOf(t)' = j
                      \/ /\ row'[j].status \in Terminal
                         /\ \/ pub'[j] = row'[j].status
                            \/ \E t \in Threads : pc'[t] = "publish2" /\ JobOf(t)' = j
  BY <1>1 DEF Agreed
<1>a. Dependable'
  <2>1. ASSUME NEW e \in Events, Budget[e] = 0
        PROVE  Used(e)' = 0
    BY <1>1, <2>1, TypeNext DEF TypeInv, TypeOK, Within, Used
  <2> QED
    BY <2>1 DEF Steady, Dependable, Events
<1>3. CASE call[j] = "dispatched"
  <2>1. CASE Waiting(j)
    BY <1>1, <2>1, WaitingPasses DEF Owes
  <2>2. CASE \E t \in Threads : Owes(t) /\ JobOf(t) = j
    BY <1>a, <2>2, OwesPasses DEF SingleInv
  <2>3. CASE ~Waiting(j) /\ ~\E t \in Threads : Owes(t) /\ JobOf(t) = j
    BY <1>3, <2>3, DoneAgrees DEF Agreed
  <2> QED
    BY <2>1, <2>2, <2>3
<1>4. CASE call[j] # "dispatched"
  <2>1. Dispatch(j)
    <3>1. call' # call
      BY <1>2, <1>4
    <3>2. ASSUME NEW i \in Jobs, Api(i) \/ FlagExpires(i)
          PROVE  Dispatch(j)
      <4>1. SubmitGoal(i) \/ Dispatch(i) \/ DispatchFails(i)
        BY <1>1, <3>2, ApiUncancelled DEF Steady
      <4> QED
        BY <1>1, <1>2, <1>4, <4>1 DEF SubmitGoal, Dispatch, DispatchFails, TypeInv, TypeOK
    <3>3. ASSUME NEW t \in Threads, Redeliver(t) \/ \E m \in Messages : Receive(t, m)
          PROVE  call' = call
      BY <3>3 DEF Redeliver, Receive, api
    <3>4. ASSUME NEW p \in Processes, Crash(p)
          PROVE  call' = call
      BY <3>4 DEF Crash, api
    <3>5. ASSUME UNCHANGED vars \/ Rest
          PROVE  call' = call
      BY <3>5 DEF vars, Rest
    <3> QED
      BY <3>1, <3>2, <3>3, <3>4, <3>5, StepBusy DEF Next
  <2>2. queue'[<<j, 0>>] > 0
    <3>1. <<j, 0>> \in Messages
      BY ConstantsOK DEF Messages
    <3> QED
      BY <1>1, <2>1, <3>1 DEF Dispatch, TypeInv, TypeOK
  <2> QED
    BY <2>2, ConstantsOK DEF Waiting
<1> QED
  BY <1>3, <1>4

\* At rest every dispatched job has a terminal status, and its subscribers heard
\* that status last, through any number of lost workers and timed-out appends: with
\* one thread to a process, if nobody cancels, nothing is redelivered and writes and
\* publications succeed.
THEOREM RestAgrees ==
  ASSUME Solo, Steady
  PROVE  Spec => []QuietAgrees
<1>1. Init => AgreedInv
  <2> SUFFICES ASSUME Init PROVE AgreedInv
    OBVIOUS
  <2>1. NoCancel /\ Written /\ Agreed
    BY DEF Init, NoCancel, NoCall, Written, Agreed
  <2> QED
    BY <2>1, SingleInit DEF AgreedInv
<1>2. AgreedInv => QuietAgrees
  <2> SUFFICES ASSUME AgreedInv, Quiet, NEW j \in Jobs, call[j] = "dispatched"
               PROVE  row[j].status \in Terminal /\ pub[j] = row[j].status
    BY DEF QuietAgrees
  <2>1. ~Waiting(j)
    <3>1. ASSUME NEW n \in 0..MaxRetries
          PROVE  ~(queue[<<j, n>>] > 0)
      <4>1. <<j, n>> \in Messages
        BY DEF Messages
      <4>2. queue[<<j, n>>] = 0
        BY <4>1 DEF Quiet
      <4> QED
        BY <4>2
    <3> QED
      BY <3>1 DEF Waiting
  <2>2. ~\E t \in Threads : (Owes(t) \/ pc[t] = "publish2") /\ JobOf(t) = j
    BY DEF Quiet, Owes
  <2> QED
    BY <2>1, <2>2 DEF AgreedInv, Agreed
<1>3. AgreedInv /\ [Next]_vars => AgreedInv'
  BY AgreedNext
<1> QED
  BY <1>1, <1>2, <1>3, PTL DEF Spec
=============================================================================
