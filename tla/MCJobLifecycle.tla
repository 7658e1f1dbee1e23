--------------------------- MODULE MCJobLifecycle ---------------------------
(***************************************************************************)
(* Instances of JobLifecycle for TLC.  Separate gives each thread a worker *)
(* process of its own (concurrency 1), Pool puts all threads into one      *)
(* (--pool=threads of celery_worker.py).  Each Budget is named for what it *)
(* lets happen.                                                            *)
(***************************************************************************)
EXTENDS JobLifecycle, TLC

CONSTANTS j1, j2, t1, t2, p1, p2

Separate == t1 :> p1 @@ t2 :> p2
Pool == t1 :> p1 @@ t2 :> p1

Fair == [e \in Events |-> 0]

\* Crashes of workers, an append to the ledger that times out.
Crashing == [Fair EXCEPT !["crash"] = 2, !["timeout"] = 1]

\* Users who cancel, flags that expire, messages redelivered to a second worker,
\* a write that fails, an append to the ledger that times out.
Stopping ==
  [Fair EXCEPT !["cancel"] = 2, !["expire"] = 1, !["redeliver"] = 1,
               !["db"] = 1, !["timeout"] = 1]

\* Nothing but failing Redis calls and dispatches.
Calm == [Fair EXCEPT !["broker"] = 1, !["redis"] = 2]
=============================================================================
