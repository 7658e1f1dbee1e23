------------------------------ MODULE ToolCall ------------------------------
(***************************************************************************)
(* The life of an MCP tool call, EnhancedMCPTool.execute: the looks at the *)
(* job's cancel flag, validation and confirmation, the token bucket and    *)
(* the circuit breaker around the attempts of _execute_with_retry.         *)
(*                                                                         *)
(* The two daily quotas are there as what they come to: nothing.  A call   *)
(* counts in neither, and the webhooks of a vendor count without refusing. *)
(* ran records what each day begins under them.                            *)
(*                                                                         *)
(* A caller makes one call after the other on the tool object it made, as  *)
(* vendor_kb_sync does; InstanceOf lets callers share an object, which the *)
(* locks of the bucket and the breaker provide for.  Neither lock is held  *)
(* over an await, so what happens under one is one step, and the end of an *)
(* attempt is one step with _on_success or _on_failure and the answer.     *)
(* Token amounts are whole numbers, and time is the choice of when a token *)
(* comes, when the breaker has cooled down and when the day ends.          *)
(***************************************************************************)
EXTENDS Naturals

CONSTANTS
  Callers,           \* whoever calls the tools of one tenant
  Instances,         \* tool objects of one vendor, each with bucket and breaker
  InstanceOf,        \* the object a caller calls
  WithJob,           \* the callers that name a job, which can be stopped
  Calls,             \* how many calls each caller makes at most
  Burst,             \* burst_size of the bucket
  MaxRetries,        \* max_retries of an operation
  FailureThreshold,  \* failures in a row that open the breaker
  SuccessThreshold,  \* successes in a row that close it
  HalfOpenMax,       \* half_open_max_calls
  Limit              \* the daily limit each quota is given

Quotas == {"global", "vendor"}

ASSUME ToolConstantsOK ==
  /\ InstanceOf \in [Callers -> Instances]
  /\ WithJob \subseteq Callers
  /\ Calls \in [Callers -> Nat] /\ Burst \in Nat \ {0} /\ MaxRetries \in Nat
  /\ FailureThreshold \in Nat \ {0}
  /\ SuccessThreshold \in Nat \ {0}
  /\ HalfOpenMax \in Nat \ {0}
  /\ Limit \in [Quotas -> Nat]

VARIABLES
  pc,        \* what each caller's call does next
  left,      \* the calls it has still to make
  attempt,   \* failed attempts made of its operation
  stopped,   \* the callers whose job has its cancel flag raised
  tokens,    \* tokens of each bucket
  breaker,   \* each instance's breaker
  past,      \* history: callers past their last look at the flag when it was raised
  missed,    \* history: callers whose last look missed the raised flag
  late,      \* history: attempts begun since the flag was raised
  ran        \* history: what began today of what each quota is there to limit

calls == <<pc, left, attempt>>
stops == <<past, missed, late>>
vars == <<calls, stopped, tokens, breaker, stops, ran>>

States == {"closed", "open", "half_open"}
Steps == {"idle", "token", "recheck", "admit", "attempt", "backoff"}

TypeOK ==
  /\ pc \in [Callers -> Steps]
  /\ left \in [Callers -> Nat]
  /\ attempt \in [Callers -> 0 .. MaxRetries]
  /\ stopped \subseteq WithJob
  /\ tokens \in [Instances -> 0 .. Burst]
  /\ breaker \in [Instances -> [state: States, failures: Nat, successes: Nat, cool: BOOLEAN]]
  /\ past \subseteq WithJob /\ missed \subseteq WithJob
  /\ late \in [Callers -> Nat]
  /\ ran \in [Quotas -> Nat]

Init ==
  /\ pc = [p \in Callers |-> "idle"]
  /\ left = Calls
  /\ attempt = [p \in Callers |-> 0]
  /\ stopped = {}
  /\ tokens = [i \in Instances |-> Burst]
  /\ breaker = [i \in Instances |->
                  [state |-> "closed", failures |-> 0, successes |-> 0, cool |-> FALSE]]
  /\ past = {} /\ missed = {}
  /\ late = [p \in Callers |-> 0]
  /\ ran = [q \in Quotas |-> 0]

-----------------------------------------------------------------------------
\* Before the operation.

Goto(p, step) == pc' = [pc EXCEPT ![p] = step]

\* is_job_cancelled: a flag may be overlooked, as an error of Redis counts as none.
SeesStop(p) == p \in stopped

\* A call begins and is refused at once if its job is stopped, its input is not
\* valid, or it writes without confirm_action, which only its input decides.
Begin(p) ==
  /\ pc[p] = "idle" /\ left[p] > 0
  /\ left' = [left EXCEPT ![p] = @ - 1]
  /\ \/ SeesStop(p) /\ UNCHANGED pc
     \/ \E step \in {"idle", "token"} : Goto(p, step)
  /\ UNCHANGED <<attempt, stopped, tokens, breaker, stops, ran>>

TakeToken(p) ==
  /\ pc[p] = "token" /\ tokens[InstanceOf[p]] > 0
  /\ tokens' = [tokens EXCEPT ![InstanceOf[p]] = @ - 1]
  /\ Goto(p, "recheck")
  /\ UNCHANGED <<left, attempt, stopped, breaker, stops, ran>>

\* Mutant: wait_for_token never gives up.
TokenTimeout_Waits(p) ==
  pc[p] = "token" /\ tokens[InstanceOf[p]] = 0 /\ UNCHANGED vars

\* wait_for_token gives up.
TokenTimeout(p) ==
  /\ pc[p] = "token" /\ tokens[InstanceOf[p]] = 0
  /\ Goto(p, "idle")
  /\ UNCHANGED <<left, attempt, stopped, tokens, breaker, stops, ran>>

\* Mutant: the flag is not looked at again behind the wait for a token.
Recheck_Unlooked(p) ==
  /\ pc[p] = "recheck"
  /\ Goto(p, "admit")
  /\ UNCHANGED <<left, attempt, stopped, tokens, breaker, stops, ran>>

\* The last look at the flag.  The quotas behind it stop no call and count none:
\* `async with` is given the pipeline of a synchronous client, which raises, and the
\* error is swallowed.
Recheck(p) ==
  /\ pc[p] = "recheck"
  /\ \/ SeesStop(p) /\ Goto(p, "idle") /\ UNCHANGED missed
     \/ Goto(p, "admit") /\ missed' = missed \cup ({p} \cap stopped)
  /\ UNCHANGED <<left, attempt, stopped, tokens, breaker, past, late, ran>>

\* What each quota is to allow: the global one 1 at least, the vendor's its limit.
Allowed(q) == IF q = "global" /\ Limit[q] = 0 THEN 1 ELSE Limit[q]

\* Bound: the history goes no further than one beyond what is allowed.
OneMore(q) == IF ran[q] > Allowed(q) THEN ran[q] ELSE ran[q] + 1

\* A webhook of the vendor counts in the vendor's key: the pipeline raises, the INCR
\* of the fallback takes effect and raises too, since what it returns is awaited, and
\* the count the limit is compared with is 0.  The webhook is let through.
Webhook ==
  /\ ran' = [ran EXCEPT !["vendor"] = OneMore("vendor")]
  /\ UNCHANGED <<calls, stopped, tokens, breaker, stops>>

-----------------------------------------------------------------------------
\* The circuit breaker.

\* Mutant: a call more than half_open_max_calls is let in.
MayProbe_OffByOne(b) == b.successes <= HalfOpenMax

\* A half-open breaker counts the calls that have succeeded, not those let in.
MayProbe(b) == b.successes < HalfOpenMax

Tested(b) == [b EXCEPT !.state = "half_open", !.successes = 0]

\* Mutant: a breaker that opens forgets the failures that opened it.
Failed_Forgets(b) ==
  IF b.state = "half_open" \/ b.failures + 1 >= FailureThreshold
  THEN [b EXCEPT !.failures = 0, !.cool = FALSE, !.state = "open"]
  ELSE [b EXCEPT !.failures = @ + 1, !.cool = FALSE]

Failed(b) ==
  [b EXCEPT !.failures = @ + 1, !.cool = FALSE,
            !.state = IF @ = "half_open" \/ b.failures + 1 >= FailureThreshold
                      THEN "open" ELSE @]

Succeeded(b) ==
  IF b.state # "half_open" THEN [b EXCEPT !.failures = 0]
  ELSE IF b.successes + 1 >= SuccessThreshold
       THEN [b EXCEPT !.failures = 0, !.successes = 0, !.state = "closed"]
       ELSE [b EXCEPT !.failures = 0, !.successes = @ + 1]

\* An attempt of the operation begins.
Start(p) ==
  /\ Goto(p, "attempt")
  /\ late' = IF p \in stopped THEN [late EXCEPT ![p] = @ + 1] ELSE late

Run(p) == Start(p) /\ ran' = [q \in Quotas |-> OneMore(q)]

\* CircuitBreakerOpenError: no attempt is made.
Refuse(p) == Goto(p, "idle") /\ UNCHANGED <<late, ran>>

\* What CircuitBreaker.call does before it runs the function.
Admit(p) ==
  LET i == InstanceOf[p]
      b == breaker[i] IN
  /\ pc[p] = "admit"
  /\ \/ b.state = "closed" /\ Run(p) /\ UNCHANGED breaker
     \/ b.state = "open" /\ ~b.cool /\ Refuse(p) /\ UNCHANGED breaker
     \/ b.state = "open" /\ b.cool /\ Run(p) /\ breaker' = [breaker EXCEPT ![i] = Tested(b)]
     \/ b.state = "half_open" /\ MayProbe(b) /\ Run(p) /\ UNCHANGED breaker
     \/ b.state = "half_open" /\ ~MayProbe(b) /\ Refuse(p) /\ UNCHANGED breaker
  /\ UNCHANGED <<left, attempt, stopped, tokens, past, missed>>

\* The last attempt ends: its outcome goes to the breaker and the call is answered.
Settle(p, b) ==
  /\ Goto(p, "idle")
  /\ breaker' = [breaker EXCEPT ![InstanceOf[p]] = b]
  /\ attempt' = [attempt EXCEPT ![p] = 0]

-----------------------------------------------------------------------------
\* The attempts of _execute_with_retry.

\* The operation returns.  Some tools return an error instead of raising it, and
\* the breaker takes that for a success.
Returns(p) == Settle(p, Succeeded(breaker[InstanceOf[p]]))

\* 429, or an aiohttp.ClientError, behind which the operation may have been carried
\* out: another attempt follows, if max_retries allows it.
Interrupted(p) ==
  \/ /\ attempt[p] < MaxRetries
     /\ Goto(p, "backoff")
     /\ attempt' = [attempt EXCEPT ![p] = @ + 1]
     /\ UNCHANGED breaker
  \/ /\ attempt[p] >= MaxRetries
     /\ Settle(p, Failed(breaker[InstanceOf[p]]))

\* Any other error goes up at once: refused credentials, a NetworkError, and every
\* HTTP error, whose exception has no attribute status for the retry to look at.
Raises(p) == Settle(p, Failed(breaker[InstanceOf[p]]))

Attempt(p) ==
  /\ pc[p] = "attempt"
  /\ Returns(p) \/ Interrupted(p) \/ Raises(p)
  /\ UNCHANGED <<left, stopped, tokens, stops, ran>>

\* The sleep before the next attempt ends; neither flag nor breaker is looked at.
Backoff(p) ==
  /\ pc[p] = "backoff"
  /\ Start(p)
  /\ UNCHANGED <<left, attempt, stopped, tokens, breaker, past, missed, ran>>

-----------------------------------------------------------------------------
\* Time and users.

\* Mutant: the refill is not capped at burst_size.
Refill_Uncapped(i) ==
  /\ tokens' = [tokens EXCEPT ![i] = @ + 1]
  /\ UNCHANGED <<calls, stopped, breaker, stops, ran>>

Refill(i) ==
  /\ tokens[i] < Burst
  /\ tokens' = [tokens EXCEPT ![i] = @ + 1]
  /\ UNCHANGED <<calls, stopped, breaker, stops, ran>>

\* The breaker's timeout has run out since its last failure.
Cool(i) ==
  /\ breaker[i].state = "open" /\ ~breaker[i].cool
  /\ breaker' = [breaker EXCEPT ![i].cool = TRUE]
  /\ UNCHANGED <<calls, stopped, tokens, stops, ran>>

\* Nothing is asked of the flag behind the last look at it.
PastLook == {"admit", "attempt", "backoff"}

Stop(p) ==
  /\ p \in WithJob \ stopped
  /\ stopped' = stopped \cup {p}
  /\ past' = IF pc[p] \in PastLook THEN past \cup {p} ELSE past
  /\ UNCHANGED <<calls, tokens, breaker, missed, late, ran>>

\* The flag's key expires, an hour after it was set.
Expire(p) ==
  /\ p \in stopped
  /\ stopped' = stopped \ {p}
  /\ past' = past \ {p} /\ missed' = missed \ {p}
  /\ late' = [late EXCEPT ![p] = 0]
  /\ UNCHANGED <<calls, tokens, breaker, ran>>

\* The next day has keys of its own.
Midnight ==
  /\ ran' = [q \in Quotas |-> 0]
  /\ UNCHANGED <<calls, stopped, tokens, breaker, stops>>

Step(p) ==
  \/ TakeToken(p) \/ TokenTimeout(p) \/ Recheck(p)
  \/ Admit(p) \/ Attempt(p) \/ Backoff(p)

Next ==
  \/ \E p \in Callers : Begin(p) \/ Step(p) \/ Stop(p) \/ Expire(p)
  \/ \E i \in Instances : Refill(i) \/ Cool(i)
  \/ Webhook \/ Midnight

\* A call that is under way goes on: each await of it ends.  Nobody has to call.
Fairness == \A p \in Callers : WF_vars(Step(p))

Spec == Init /\ [][Next]_vars /\ Fairness

-----------------------------------------------------------------------------
\* Properties.

\* "Incoming webhooks and API requests increment Redis counters. When a quota is
\* exceeded, requests fail with a 429 status" (platform-overview/README.md:113): what
\* begins in one day of what a quota counts stays within its limit.
QuotaHolds == \A q \in Quotas : ran[q] <= Allowed(q)

\* Once the flag of a job is raised, a call that still had its last look at it ahead
\* makes no attempt, and one that was past it makes those its retries leave it and no
\* more, over any number of calls; unless the last look missed the flag (557-624,
\* 775-869, where no retry looks at it).
StopBoundsAttempts ==
  \A p \in stopped \ missed : late[p] <= IF p \in past THEN MaxRetries + 1 ELSE 0

Alone(i) == \A p, q \in Callers : InstanceOf[p] = i /\ InstanceOf[q] = i => p = q

\* The breaker of an object that is called serially, with the one half-open call of
\* the default configuration, is open only behind a run of failure_threshold failures
\* that no success interrupted, also when it was opened by a failed probe: what
\* success resets and failure counts agree (235-241, 432-456).
OpenForACause ==
  \A i \in Instances : Alone(i) /\ HalfOpenMax = 1 /\ breaker[i].state = "open" =>
    breaker[i].failures >= FailureThreshold

\* As long as half_open_max_calls is below success_threshold, the breaker of an object
\* that is called serially never closes again once it has opened: its first success
\* shuts out the second one it waits for (402-456).
OpenedForGood ==
  [][\A i \in Instances :
       /\ Alone(i) /\ HalfOpenMax < SuccessThreshold
       /\ breaker[i].state # "closed"
       => breaker'[i].state # "closed"]_vars

\* A call that has begun is answered: the bucket times out, attempts are bounded, and
\* the breaker refuses instead of waiting (535-869).
EventuallyAnswered == \A p \in Callers : pc[p] # "idle" ~> pc[p] = "idle"
=============================================================================
