------------------------------- MODULE JobFlow -------------------------------
(***************************************************************************)
(* The status flow that the task-lifecycle page of the documentation       *)
(* promises to the clients of a job: QUEUED, then RUNNING when a worker    *)
(* starts, then exactly one of COMPLETED, FAILED and CANCELLED, for good.  *)
(* JobLifecycle is the program; the runs say under which conditions it     *)
(* implements this module and under which it does not.                     *)
(***************************************************************************)
CONSTANT Jobs

VARIABLE status

Terminal == {"COMPLETED", "FAILED", "CANCELLED"}

TypeOK == status \in [Jobs -> {"ABSENT", "QUEUED", "RUNNING"} \cup Terminal]

Init == status = [j \in Jobs |-> "ABSENT"]

Submit(j) ==
  /\ status[j] = "ABSENT"
  /\ status' = [status EXCEPT ![j] = "QUEUED"]

Start(j) ==
  /\ status[j] = "QUEUED"
  /\ status' = [status EXCEPT ![j] = "RUNNING"]

Finish(j) ==
  /\ status[j] = "RUNNING"
  /\ \E s \in Terminal : status' = [status EXCEPT ![j] = s]

\* A job cancelled before a worker starts it.
Withdraw(j) ==
  /\ status[j] = "QUEUED"
  /\ status' = [status EXCEPT ![j] = "CANCELLED"]

Next == \E j \in Jobs : Submit(j) \/ Start(j) \/ Finish(j) \/ Withdraw(j)

Spec == Init /\ [][Next]_status
=============================================================================
