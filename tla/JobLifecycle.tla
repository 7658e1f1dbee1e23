---------------------------- MODULE JobLifecycle ----------------------------
(***************************************************************************)
(* The life of a goal-execution job.                                       *)
(*                                                                         *)
(*  - executeGoal (API) commits a Job row and puts a Celery message on the *)
(*    worker-agents queue;                                                 *)
(*  - a thread of a worker process receives the message, takes the event   *)
(*    loop its process shares between threads, and runs                    *)
(*    orchestrate_goal_task on it: RUNNING, four looks at the cancel flag, *)
(*    the team tasks, one usage event in the ledger, a terminal status;    *)
(*  - cancelJob (API) reads the row, raises the flag in Redis and commits  *)
(*    CANCELLED from the row it read;                                      *)
(*  - the broker redelivers what no worker acknowledged (task_acks_late).  *)
(*                                                                         *)
(* One action is one commit, one Redis call or one publication: what two   *)
(* actors may interleave.  A worker's select-update-commit is one step.    *)
(* PENDING_APPROVAL is left out: nothing that execute() returns leads to   *)
(* it.  Faults and user calls are paid for out of Budget, the one bound of *)
(* this module.                                                            *)
(***************************************************************************)
EXTENDS Naturals, FiniteSets

CONSTANTS
  Jobs,        \* the jobs that may be submitted
  Processes,   \* the Celery worker processes
  Threads,     \* the threads of all their pools
  ProcessOf,   \* the process a thread belongs to
  MaxRetries,  \* max_retries of execute_goal_celery_task
  Budget,      \* how many events of each kind happen at most
  None         \* no job, no loop, no verdict, nothing published

\* What Budget bounds: worker crashes, visibility timeouts of the broker,
\* failed database writes, failed Redis calls, appends to the ledger that timed
\* out, expiries of a cancel flag, failed dispatches, and calls of cancelJob.
Events == {"crash", "redeliver", "db", "redis", "timeout", "expire", "broker", "cancel"}

Terminal == {"COMPLETED", "FAILED", "CANCELLED"}
Statuses == {"QUEUED", "RUNNING"} \cup Terminal

ASSUME ConstantsOK ==
  /\ IsFiniteSet(Threads)
  /\ ProcessOf \in [Threads -> Processes]
  /\ MaxRetries \in Nat
  /\ Budget \in [Events -> Nat]
  /\ None \notin Jobs \cup Threads \cup Statuses

\* A message of the queue: the job and the number of retries behind it.
Messages == Jobs \X (0..MaxRetries)

VARIABLES
  row,      \* the Job row: status, are started_at, completed_at, output set
  flag,     \* is the key job_cancel_<id> in Redis
  call,     \* how far executeGoal got
  cancel,   \* the cancelJob call in progress: its step and the status it read
  queue,    \* copies of each message waiting in the broker
  pc,       \* what each worker thread does next
  msg,      \* the message it works on
  unacked,  \* will the broker restore that message if the worker is lost
  loop,     \* the event loop it holds a reference to, named by its creator
  verdict,  \* the status orchestrate_goal_task is going to write
  loopOf,   \* _CELERY_WORKER_LOOP of each process
  pub,      \* the last status published on job_status_<id>
  ledger,   \* usage events appended for each job
  posts,    \* result messages posted to the job's thread
  budget,   \* what is left of Budget
  stopped   \* history: threads that had a look at the flag ahead of them when
            \* it was raised, or received their job with the flag up

rows == <<row, flag, pub, ledger, posts>>
api == <<call, cancel>>
running == <<pc, msg, unacked, loop, verdict, loopOf>>
worker == <<running, stopped>>
vars == <<row, flag, call, cancel, queue, pc, msg, unacked, loop, verdict,
          loopOf, pub, ledger, posts, budget, stopped>>

\* The steps of a thread that run inside run_until_complete.
Orchestrating == {"setRunning", "pubRunning", "screen", "guard1", "guard2",
                  "guard3", "tasks", "guard4", "charge", "commit1",
                  "publish1", "commit2", "publish2"}
InLoop == {"tracing"} \cup Orchestrating
Steps == {"idle", "accepted", "newLoop", "trace", "begin", "ack"} \cup InLoop

\* A thread at one of these steps still has a guard ahead of it.
GuardAhead == {"accepted", "newLoop", "trace", "tracing", "begin", "setRunning",
               "pubRunning", "screen", "guard1", "guard2", "guard3", "tasks",
               "guard4"}

Rows == [status : Statuses \cup {"ABSENT"}, started : BOOLEAN,
         completed : BOOLEAN, output : BOOLEAN]

NoCall == [at |-> "idle", seen |-> None]

TypeOK ==
  /\ row \in [Jobs -> Rows]
  /\ flag \in [Jobs -> BOOLEAN]
  /\ call \in [Jobs -> {"none", "committed", "dispatched", "error"}]
  /\ cancel \in [Jobs -> [at : {"idle", "flag", "commit", "publish"},
                          seen : Statuses \cup {None}]]
  /\ queue \in [Messages -> Nat]
  /\ pc \in [Threads -> Steps]
  /\ msg \in [Threads -> Messages \cup {None}]
  /\ unacked \in [Threads -> BOOLEAN]
  /\ loop \in [Threads -> Threads \cup {None}]
  /\ verdict \in [Threads -> Terminal \cup {None}]
  /\ loopOf \in [Processes -> Threads \cup {None}]
  /\ pub \in [Jobs -> Statuses \cup {None}]
  /\ ledger \in [Jobs -> Nat]
  /\ posts \in [Jobs -> Nat]
  /\ budget \in [Events -> Nat]
  /\ stopped \subseteq Threads

Init ==
  /\ row = [j \in Jobs |-> [status |-> "ABSENT", started |-> FALSE,
                            completed |-> FALSE, output |-> FALSE]]
  /\ flag = [j \in Jobs |-> FALSE]
  /\ call = [j \in Jobs |-> "none"]
  /\ cancel = [j \in Jobs |-> NoCall]
  /\ queue = [m \in Messages |-> 0]
  /\ pc = [t \in Threads |-> "idle"]
  /\ msg = [t \in Threads |-> None]
  /\ unacked = [t \in Threads |-> FALSE]
  /\ loop = [t \in Threads |-> None]
  /\ verdict = [t \in Threads |-> None]
  /\ loopOf = [p \in Processes |-> None]
  /\ pub = [j \in Jobs |-> None]
  /\ ledger = [j \in Jobs |-> 0]
  /\ posts = [j \in Jobs |-> 0]
  /\ budget = Budget
  /\ stopped = {}

-----------------------------------------------------------------------------
\* Helpers.

Spend(e) == budget[e] > 0 /\ budget' = [budget EXCEPT ![e] = @ - 1]
Used(e) == Budget[e] - budget[e]

\* Job.update_status: no transition is refused.
UpdateStatus(r, s) ==
  [r EXCEPT !.status = s,
            !.started = @ \/ (s = "RUNNING" /\ r.status = "QUEUED"),
            !.completed = @ \/ s \in Terminal]

\* publish_job_status: a subscriber hears s, or the publication fails and
\* its try block swallows the failure.
Publish(j, s) ==
  \/ pub' = [pub EXCEPT ![j] = s] /\ UNCHANGED budget
  \/ Spend("redis") /\ UNCHANGED pub

JobOf(t) == msg[t][1]

\* is_job_cancelled: RedisClient.get turns an error into "no such key".
SeesFlag(j) == flag[j] /\ UNCHANGED budget
SeesNoFlag(j) == \/ ~flag[j] /\ UNCHANGED budget
                 \/ flag[j] /\ Spend("redis")

Goto(t, step) == pc' = [pc EXCEPT ![t] = step]
Conclude(t, s) == verdict' = [verdict EXCEPT ![t] = s]

-----------------------------------------------------------------------------
\* executeGoal: the row is committed first, the message is sent next.

SubmitGoal(j) ==
  /\ call[j] = "none"
  /\ row' = [row EXCEPT ![j].status = "QUEUED"]
  /\ call' = [call EXCEPT ![j] = "committed"]
  /\ UNCHANGED <<flag, cancel, queue, worker, pub, ledger, posts, budget>>

Dispatch(j) ==
  /\ call[j] = "committed"
  /\ call' = [call EXCEPT ![j] = "dispatched"]
  /\ queue' = [queue EXCEPT ![<<j, 0>>] = @ + 1]
  /\ UNCHANGED <<rows, cancel, worker, budget>>

\* apply_async raises: the caller gets ERROR, the row stays.
DispatchFails(j) ==
  /\ call[j] = "committed"
  /\ Spend("broker")
  /\ call' = [call EXCEPT ![j] = "error"]
  /\ UNCHANGED <<rows, cancel, queue, worker>>

-----------------------------------------------------------------------------
\* cancelJob: the Job row read first is the one written last.

CancelRead(j) ==
  /\ row[j].status # "ABSENT"
  /\ cancel[j].at = "idle"
  /\ Spend("cancel")
  /\ cancel' = [cancel EXCEPT ![j] = [at |-> "flag", seen |-> row[j].status]]
  /\ UNCHANGED <<rows, call, queue, worker>>

\* set_job_cancel; a failure is swallowed.  safe_revoke_job, which follows,
\* names a task id that no message has.
CancelFlag(j) ==
  /\ cancel[j].at = "flag"
  /\ cancel' = [cancel EXCEPT ![j].at = "commit"]
  /\ \/ /\ flag' = [flag EXCEPT ![j] = TRUE]
        /\ stopped' = stopped \cup {t \in Threads : pc[t] \in GuardAhead /\ JobOf(t) = j}
        /\ UNCHANGED budget
     \/ Spend("redis") /\ UNCHANGED <<flag, stopped>>
  /\ UNCHANGED <<row, call, queue, running, pub, ledger, posts>>

\* The session writes the columns that differ from what it read: when it read
\* CANCELLED, it writes no status, whatever the row holds by now.
CancelCommit(j) ==
  /\ cancel[j].at = "commit"
  /\ cancel' = [cancel EXCEPT ![j].at = "publish"]
  /\ \/ /\ row' = IF cancel[j].seen = "CANCELLED" THEN row
                  ELSE [row EXCEPT ![j] = UpdateStatus(@, "CANCELLED")]
        /\ UNCHANGED budget
     \/ Spend("db") /\ UNCHANGED row
  /\ UNCHANGED <<flag, call, queue, worker, pub, ledger, posts>>

CancelPublish(j) ==
  /\ cancel[j].at = "publish"
  /\ cancel' = [cancel EXCEPT ![j] = NoCall]
  /\ Publish(j, "CANCELLED")
  /\ UNCHANGED <<row, flag, call, queue, worker, ledger, posts>>

\* The key's ttl_seconds have passed.
FlagExpires(j) ==
  /\ flag[j]
  /\ Spend("expire")
  /\ flag' = [flag EXCEPT ![j] = FALSE]
  /\ UNCHANGED <<row, api, queue, worker, pub, ledger, posts>>

-----------------------------------------------------------------------------
\* A worker thread: receiving the task and taking the process's event loop.

\* Mutant: the message is acknowledged on receipt (no task_acks_late).
Receive_AcksEarly(t, m) ==
  /\ pc[t] = "idle"
  /\ queue[m] > 0
  /\ queue' = [queue EXCEPT ![m] = @ - 1]
  /\ Goto(t, "accepted")
  /\ msg' = [msg EXCEPT ![t] = m]
  /\ UNCHANGED <<rows, api, unacked, loop, verdict, loopOf, budget, stopped>>

Receive(t, m) ==
  /\ pc[t] = "idle"
  /\ queue[m] > 0
  /\ queue' = [queue EXCEPT ![m] = @ - 1]
  /\ Goto(t, "accepted")
  /\ msg' = [msg EXCEPT ![t] = m]
  /\ unacked' = [unacked EXCEPT ![t] = TRUE]
  /\ stopped' = IF flag[m[1]] THEN stopped \cup {t} ELSE stopped
  /\ UNCHANGED <<rows, api, loop, verdict, loopOf, budget>>

\* The thread forgets its message, whatever becomes of it.
Leave(t) ==
  /\ Goto(t, "idle")
  /\ msg' = [msg EXCEPT ![t] = None]
  /\ unacked' = [unacked EXCEPT ![t] = FALSE]
  /\ loop' = [loop EXCEPT ![t] = None]
  /\ verdict' = [verdict EXCEPT ![t] = None]
  /\ stopped' = stopped \ {t}

\* The global is read here and stored in the next step: two threads that both
\* find it unset make a loop each, and the last store is the one that stays.
TakeLoop(t) ==
  /\ pc[t] = "accepted"
  /\ LET g == loopOf[ProcessOf[t]] IN
       /\ loop' = [loop EXCEPT ![t] = IF g = None THEN t ELSE g]
       /\ Goto(t, IF g = None THEN "newLoop" ELSE "trace")
  /\ UNCHANGED <<rows, api, queue, msg, unacked, verdict, loopOf, budget, stopped>>

StoreLoop(t) ==
  /\ pc[t] = "newLoop"
  /\ loopOf' = [loopOf EXCEPT ![ProcessOf[t]] = loop[t]]
  /\ Goto(t, "trace")
  /\ UNCHANGED <<rows, api, queue, msg, unacked, loop, verdict, budget, stopped>>

\* A loop runs one run_until_complete; a second one raises RuntimeError.
Busy(l) == \E u \in Threads : loop[u] = l /\ pc[u] \in InLoop

\* Publishing EXECUTION_START; the RuntimeError is swallowed here.
TraceStart(t) ==
  /\ pc[t] = "trace"
  /\ Goto(t, IF Busy(loop[t]) THEN "begin" ELSE "tracing")
  /\ UNCHANGED <<rows, api, queue, msg, unacked, loop, verdict, loopOf, budget, stopped>>

TraceEnd(t) ==
  /\ pc[t] = "tracing"
  /\ Goto(t, "begin")
  /\ UNCHANGED <<rows, api, queue, msg, unacked, loop, verdict, loopOf, budget, stopped>>

\* run_until_complete(orchestrate_goal_task(...)).
Begin(t) ==
  /\ pc[t] = "begin"
  /\ ~Busy(loop[t])
  /\ Goto(t, "setRunning")
  /\ UNCHANGED <<rows, api, queue, msg, unacked, loop, verdict, loopOf, budget, stopped>>

\* The RuntimeError leaves the task: autoretry_for sends a copy of the message
\* until max_retries copies were refused, then the message is given up.
Refuse(t) ==
  /\ pc[t] = "begin"
  /\ Busy(loop[t])
  /\ IF msg[t][2] < MaxRetries
       THEN queue' = [queue EXCEPT ![<<msg[t][1], msg[t][2] + 1>>] = @ + 1]
       ELSE UNCHANGED queue
  /\ Leave(t)
  /\ UNCHANGED <<rows, api, loopOf, budget>>

\* task_acks_late: the message is acknowledged when the task is over.
Ack(t) ==
  /\ pc[t] = "ack"
  /\ Leave(t)
  /\ UNCHANGED <<rows, api, queue, loopOf, budget>>

-----------------------------------------------------------------------------
\* A worker thread: orchestrate_goal_task and GoalOrchestrator.execute.

\* Mutant: the worker publishes RUNNING and forgets to write it.
SetRunning_Unwritten(t) ==
  /\ pc[t] = "setRunning"
  /\ Goto(t, "pubRunning")
  /\ UNCHANGED <<rows, api, queue, msg, unacked, loop, verdict, loopOf, budget, stopped>>

\* No look at the status the row has: also CANCELLED becomes RUNNING.
\* A failed write is logged, not published, and the run goes on.
SetRunning(t) ==
  /\ pc[t] = "setRunning"
  /\ \/ /\ row' = [row EXCEPT ![JobOf(t)] = UpdateStatus(@, "RUNNING")]
        /\ Goto(t, "pubRunning")
        /\ UNCHANGED budget
     \/ /\ Spend("db")
        /\ Goto(t, "screen")
        /\ UNCHANGED row
  /\ UNCHANGED <<flag, api, queue, msg, unacked, loop, verdict, loopOf, pub, ledger, posts, stopped>>

PublishRunning(t) ==
  /\ pc[t] = "pubRunning"
  /\ Publish(JobOf(t), "RUNNING")
  /\ Goto(t, "screen")
  /\ UNCHANGED <<row, flag, api, queue, msg, unacked, loop, verdict, loopOf, ledger, posts, stopped>>

\* Mutant: a refused input ends the task with no status written.
Screen_Silent(t) ==
  /\ pc[t] = "screen"
  /\ Goto(t, "guard1") \/ Goto(t, "ack")
  /\ UNCHANGED <<rows, api, queue, msg, unacked, loop, verdict, loopOf, budget, stopped>>

\* The input is sane, its user is not locked out and it is no injection; if
\* not, or if a call raises, the run has failed.
Screen(t) ==
  /\ pc[t] = "screen"
  /\ \/ Goto(t, "guard1") /\ UNCHANGED verdict
     \/ Goto(t, "commit2") /\ Conclude(t, "FAILED")
  /\ UNCHANGED <<rows, api, queue, msg, unacked, loop, loopOf, budget, stopped>>

\* Mutant: a run that sees the flag leaves its status to the cancelJob that raised it.
Halt_Leaves(t) ==
  /\ SeesFlag(JobOf(t))
  /\ Goto(t, "ack")
  /\ UNCHANGED verdict

Halt(t) ==
  /\ SeesFlag(JobOf(t))
  /\ Goto(t, "commit1")
  /\ Conclude(t, "CANCELLED")

\* Before any work.
Guard1(t) ==
  /\ pc[t] = "guard1"
  /\ \/ Halt(t)
     \/ SeesNoFlag(JobOf(t)) /\ Goto(t, "guard2") /\ UNCHANGED verdict
  /\ UNCHANGED <<rows, api, queue, msg, unacked, loop, loopOf, stopped>>

\* Mutant: the result of a job without a team carries no error.
Guard2_NoVerdict(t) ==
  /\ pc[t] = "guard2"
  /\ Goto(t, "guard3") \/ Goto(t, "commit2")
  /\ UNCHANGED <<rows, api, queue, msg, unacked, loop, verdict, loopOf, budget, stopped>>

\* After the dual search, which never stops a run; a job without a team fails.
Guard2(t) ==
  /\ pc[t] = "guard2"
  /\ \/ Halt(t)
     \/ /\ SeesNoFlag(JobOf(t))
        /\ \/ Goto(t, "guard3") /\ UNCHANGED verdict
           \/ Goto(t, "commit2") /\ Conclude(t, "FAILED")
  /\ UNCHANGED <<rows, api, queue, msg, unacked, loop, loopOf, stopped>>

\* Mutant: the flag is not looked at before the tasks.
Guard3_Blind(t) ==
  /\ pc[t] = "guard3"
  /\ Goto(t, "tasks")
  /\ UNCHANGED <<rows, api, queue, msg, unacked, loop, verdict, loopOf, budget, stopped>>

\* Right before the team tasks.
Guard3(t) ==
  /\ pc[t] = "guard3"
  /\ \/ Halt(t)
     \/ SeesNoFlag(JobOf(t)) /\ Goto(t, "tasks") /\ UNCHANGED verdict
  /\ UNCHANGED <<rows, api, queue, msg, unacked, loop, loopOf, stopped>>

\* The team tasks return or raise; what they return does not matter here.
RunTasks(t) ==
  /\ pc[t] = "tasks"
  /\ \/ Goto(t, "guard4") /\ UNCHANGED verdict
     \/ Goto(t, "commit2") /\ Conclude(t, "FAILED")
  /\ UNCHANGED <<rows, api, queue, msg, unacked, loop, loopOf, budget, stopped>>

\* Mutant: the flag is not looked at after the tasks.
Guard4_Blind(t) ==
  /\ pc[t] = "guard4"
  /\ Goto(t, "charge")
  /\ UNCHANGED <<rows, api, queue, msg, unacked, loop, verdict, loopOf, budget, stopped>>

\* The last look at the flag.
Guard4(t) ==
  /\ pc[t] = "guard4"
  /\ \/ Halt(t)
     \/ SeesNoFlag(JobOf(t)) /\ Goto(t, "charge") /\ UNCHANGED verdict
  /\ UNCHANGED <<rows, api, queue, msg, unacked, loop, loopOf, stopped>>

\* lpush of the usage event, taking effect n times.
AddEvents(t, n) == ledger' = [ledger EXCEPT ![JobOf(t)] = @ + n]

\* Mutant: a failing append is swallowed and the run completes.
Charge_Swallows(t) ==
  /\ pc[t] = "charge"
  /\ Goto(t, "commit2")
  /\ Conclude(t, "COMPLETED")
  /\ \E n \in {0, 1} : AddEvents(t, n)
  /\ UNCHANGED <<row, flag, api, queue, msg, unacked, loop, loopOf, pub, posts, budget, stopped>>

\* Mutant: one usage event for the task and one for the job.
Charge_Twice(t) ==
  /\ pc[t] = "charge"
  /\ Goto(t, "commit2")
  /\ Conclude(t, "COMPLETED")
  /\ AddEvents(t, 2)
  /\ UNCHANGED <<row, flag, api, queue, msg, unacked, loop, loopOf, pub, posts, budget, stopped>>

\* Summarising the cost and appending the usage event end execute(); a call
\* that raises on the way to the append fails the run unbilled.  The Redis
\* client repeats once a command whose answer timed out (retry_on_timeout),
\* whether it took effect or not; a second timeout fails the run.
Charge(t) ==
  /\ pc[t] = "charge"
  /\ Goto(t, "commit2")
  /\ \/ AddEvents(t, 1) /\ Conclude(t, "COMPLETED") /\ UNCHANGED budget
     \/ Conclude(t, "FAILED") /\ UNCHANGED <<ledger, budget>>
     \/ /\ Spend("timeout")
        /\ \/ Conclude(t, "COMPLETED") /\ \E n \in {1, 2} : AddEvents(t, n)
           \/ Conclude(t, "FAILED") /\ \E n \in 0..2 : AddEvents(t, n)
  /\ UNCHANGED <<row, flag, api, queue, msg, unacked, loop, loopOf, pub, posts, stopped>>

\* The guard that saw the flag writes CANCELLED and publishes it ...
StopCommit(t) ==
  /\ pc[t] = "commit1"
  /\ \/ /\ row' = [row EXCEPT ![JobOf(t)] = UpdateStatus(@, "CANCELLED")]
        /\ Goto(t, "publish1")
        /\ UNCHANGED budget
     \/ /\ Spend("db")
        /\ Goto(t, "commit2")
        /\ UNCHANGED row
  /\ UNCHANGED <<flag, api, queue, msg, unacked, loop, verdict, loopOf, pub, ledger, posts, stopped>>

StopPublish(t) ==
  /\ pc[t] = "publish1"
  /\ Publish(JobOf(t), "CANCELLED")
  /\ Goto(t, "commit2")
  /\ UNCHANGED <<row, flag, api, queue, msg, unacked, loop, verdict, loopOf, ledger, posts, stopped>>

\* Mutant: the terminal status is written and not published.
FinalCommit_Unpublished(t) ==
  /\ pc[t] = "commit2"
  /\ row' = [row EXCEPT ![JobOf(t)] = UpdateStatus(@, verdict[t])]
  /\ Goto(t, "ack")
  /\ UNCHANGED <<flag, api, queue, msg, unacked, loop, verdict, loopOf, pub, ledger, posts, budget, stopped>>

\* What a run writes at its end: the status, and the output of a success.
WriteVerdict(r, s) ==
  [UpdateStatus(r, s) EXCEPT !.output = r.output \/ s = "COMPLETED"]

\* ... and orchestrate_goal_task writes and publishes the verdict.  A failed
\* write is swallowed together with the publication.
FinalCommit(t) ==
  /\ pc[t] = "commit2"
  /\ \/ /\ row' = [row EXCEPT ![JobOf(t)] = WriteVerdict(@, verdict[t])]
        /\ Goto(t, "publish2")
        /\ UNCHANGED budget
     \/ /\ Spend("db")
        /\ Goto(t, "ack")
        /\ UNCHANGED row
  /\ UNCHANGED <<flag, api, queue, msg, unacked, loop, verdict, loopOf, pub, ledger, posts, stopped>>

\* Mutant: a failed run posts its error to the thread like an answer.
FinalPublish_PostsAll(t) ==
  /\ pc[t] = "publish2"
  /\ posts' = [posts EXCEPT ![JobOf(t)] = @ + 1]
  /\ Publish(JobOf(t), verdict[t])
  /\ Goto(t, "ack")
  /\ UNCHANGED <<row, flag, api, queue, msg, unacked, loop, verdict, loopOf, ledger, stopped>>

\* A completed run first tries to post its answer to the job's thread.
FinalPublish(t) ==
  /\ pc[t] = "publish2"
  /\ \/ UNCHANGED posts
     \/ /\ verdict[t] = "COMPLETED"
        /\ posts' = [posts EXCEPT ![JobOf(t)] = @ + 1]
  /\ Publish(JobOf(t), verdict[t])
  /\ Goto(t, "ack")
  /\ UNCHANGED <<row, flag, api, queue, msg, unacked, loop, verdict, loopOf, ledger, stopped>>

-----------------------------------------------------------------------------
\* The broker and the worker processes.

\* The visibility timeout passes: the broker restores a message whose worker
\* is still busy with it, once.
Redeliver(t) ==
  /\ unacked[t]
  /\ Spend("redeliver")
  /\ queue' = [queue EXCEPT ![msg[t]] = @ + 1]
  /\ unacked' = [unacked EXCEPT ![t] = FALSE]
  /\ UNCHANGED <<rows, api, pc, msg, loop, verdict, loopOf, stopped>>

\* The messages a lost process holds unacknowledged.
LostCopies(p, m) ==
  Cardinality({t \in Threads : ProcessOf[t] = p /\ unacked[t] /\ msg[t] = m})

\* A worker process dies with all its threads: what they held unacknowledged
\* goes back to the queue, and its successor starts with no loop.
Crash(p) ==
  /\ Spend("crash")
  /\ LET lost == {t \in Threads : ProcessOf[t] = p} IN
       /\ \E t \in lost : pc[t] # "idle"
       /\ queue' = [m \in Messages |-> queue[m] + LostCopies(p, m)]
       /\ pc' = [t \in Threads |-> IF t \in lost THEN "idle" ELSE pc[t]]
       /\ msg' = [t \in Threads |-> IF t \in lost THEN None ELSE msg[t]]
       /\ unacked' = [t \in Threads |-> t \notin lost /\ unacked[t]]
       /\ loop' = [t \in Threads |-> IF t \in lost THEN None ELSE loop[t]]
       /\ verdict' = [t \in Threads |-> IF t \in lost THEN None ELSE verdict[t]]
       /\ stopped' = stopped \ lost
  /\ loopOf' = [loopOf EXCEPT ![p] = None]
  /\ UNCHANGED <<rows, api>>

-----------------------------------------------------------------------------
\* One thread's own steps, all of them inside the task function but the last.
Step(t) ==
  \/ TakeLoop(t) \/ StoreLoop(t) \/ TraceStart(t) \/ TraceEnd(t)
  \/ Begin(t) \/ Refuse(t)
  \/ SetRunning(t) \/ PublishRunning(t) \/ Screen(t)
  \/ Guard1(t) \/ Guard2(t) \/ Guard3(t) \/ RunTasks(t) \/ Guard4(t)
  \/ Charge(t) \/ StopCommit(t) \/ StopPublish(t)
  \/ FinalCommit(t) \/ FinalPublish(t) \/ Ack(t)

Api(j) ==
  \/ SubmitGoal(j) \/ Dispatch(j) \/ DispatchFails(j)
  \/ CancelRead(j) \/ CancelFlag(j) \/ CancelCommit(j) \/ CancelPublish(j)

\* Nothing is in flight.
Quiet ==
  /\ \A t \in Threads : pc[t] = "idle"
  /\ \A m \in Messages : queue[m] = 0
  /\ \A j \in Jobs : cancel[j].at = "idle" /\ call[j] \in {"dispatched", "error"}

\* The system may rest only there: anywhere else a deadlock is an error.
Rest == Quiet /\ UNCHANGED vars

Next ==
  \/ \E j \in Jobs : Api(j) \/ FlagExpires(j)
  \/ \E t \in Threads : Step(t) \/ Redeliver(t) \/ \E m \in Messages : Receive(t, m)
  \/ \E p \in Processes : Crash(p)
  \/ Rest

Spec == Init /\ [][Next]_vars

\* The threads of a live worker run, and an idle one polls the queue.
Fairness ==
  \A t \in Threads : /\ WF_vars(Step(t))
                     /\ WF_vars(\E m \in Messages : Receive(t, m))

FairSpec == Spec /\ Fairness

-----------------------------------------------------------------------------
(* Properties. *)

Waiting(j) == \E n \in 0..MaxRetries : queue[<<j, n>>] > 0
Held(j) == \E t \in Threads : pc[t] # "idle" /\ JobOf(t) = j

\* What late acknowledgement rests on: writes reach the database, and no worker
\* dies after the broker has restored a message that worker was still busy with
\* (that copy may be long done when the worker writes RUNNING a last time).
Dependable == Used("db") = 0 /\ (Used("redeliver") = 0 \/ Used("crash") = 0)

\* A dispatched job whose row is QUEUED or RUNNING is still in the hands of the
\* broker or of a worker: late acknowledgement loses no job.  It takes a process
\* for each thread.
NotStranded ==
  Dependable =>
    \A j \in Jobs :
      call[j] = "dispatched" /\ row[j].status \notin Terminal => Waiting(j) \/ Held(j)

\* COMPLETED, in the row or on the channel, is the word of a run that appended
\* its usage event and of a write that stored the output.
CompletedIsBilled ==
  \A j \in Jobs :
    "COMPLETED" \in {row[j].status, pub[j]} => ledger[j] > 0 /\ row[j].output

\* A job is billed once, plus once at most for each redelivery and for each
\* append that timed out: no path of one delivery bills it again.  It takes a
\* process for each thread, or a broker that redelivers nothing: in a pool, a
\* thread whose message was redelivered may be refused and leave a second copy.
BilledPerDelivery ==
  \A j \in Jobs : ledger[j] <= 1 + Used("crash") + Used("redeliver") + Used("timeout")

\* No answer reaches the thread of a job that was not billed for a run: answers
\* posted never outnumber usage events.
AnswersAreBilled == \A j \in Jobs : posts[j] <= ledger[j]

FlagReliable == Used("expire") = 0 /\ Used("redis") = 0

\* A run that had a look at the flag ahead of it when the flag was raised is
\* neither billed nor completed (unless the flag expired or Redis failed).
StopIsObeyed ==
  FlagReliable => \A t \in stopped : pc[t] # "charge" /\ verdict[t] # "COMPLETED"

\* Such a run does not start the team tasks either: tools run no more.
NoWorkAfterStop ==
  [][\A t \in stopped :
       FlagReliable' /\ pc'[t] = "tasks" => pc[t] = "tasks"]_vars

\* When nothing is in flight, a dispatched job has a terminal status, and that
\* status is the last one its subscribers heard.
QuietAgrees ==
  Quiet => \A j \in Jobs :
             call[j] = "dispatched" =>
               row[j].status \in Terminal /\ pub[j] = row[j].status

\* The program implements the documented flow QUEUED, RUNNING, then one terminal
\* status for good (Docs/etherion_docs/async-jobs/task-lifecycle.md).
Flow == INSTANCE JobFlow WITH status <- [j \in Jobs |-> row[j].status]
DocumentedFlow == Flow!Spec

\* A dispatched job reaches a terminal status and keeps to terminal statuses.
EventuallySettled ==
  \A j \in Jobs : call[j] = "dispatched" ~> [](row[j].status \in Terminal)
=============================================================================
