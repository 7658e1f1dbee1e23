--------------------------- MODULE ToolCallProofs ---------------------------
(***************************************************************************)
(* Theorems of ToolCall, for any callers, tool objects, limits and         *)
(* thresholds.                                                             *)
(***************************************************************************)
EXTENDS ToolCall, Integers, TLAPS

-----------------------------------------------------------------------------
(* Types. *)

Breakers == [state : States, failures : Nat, successes : Nat, cool : BOOLEAN]

LEMMA BreakerTypes ==
  ASSUME NEW b \in Breakers
  PROVE  Failed(b) \in Breakers /\ Succeeded(b) \in Breakers /\ Tested(b) \in Breakers
<1>1. Failed(b) \in Breakers
  <2>1. \A f \in Nat, c \in BOOLEAN, s \in States :
           [b EXCEPT !.failures = f, !.cool = c, !.state = s] \in Breakers
    BY DEF Breakers
  <2>2. \A s \in States : (IF s = "half_open" \/ b.failures + 1 >= FailureThreshold
                            THEN "open" ELSE s) \in States
    BY DEF States
  <2>3. b.state \in States /\ b.failures + 1 \in Nat
    BY DEF Breakers
  <2> QED
    BY <2>1, <2>2, <2>3 DEF Failed
<1>2. Succeeded(b) \in Breakers
  <2>1. [b EXCEPT !.failures = 0] \in Breakers
    BY DEF Breakers
  <2>2. [b EXCEPT !.failures = 0, !.successes = 0, !.state = "closed"] \in Breakers
    BY DEF Breakers, States
  <2>3. [b EXCEPT !.failures = 0, !.successes = @ + 1] \in Breakers
    <3>1. b.successes + 1 \in Nat
      BY DEF Breakers
    <3>2. \A n \in Nat : [b EXCEPT !.failures = 0, !.successes = n] \in Breakers
      BY DEF Breakers
    <3> QED
      BY <3>1, <3>2
  <2> QED
    BY <2>1, <2>2, <2>3 DEF Succeeded
<1>3. Tested(b) \in Breakers
  BY DEF Breakers, States, Tested
<1> QED
  BY <1>1, <1>2, <1>3

LEMMA SettleType ==
  ASSUME TypeOK, NEW p \in Callers, NEW b \in Breakers, Settle(p, b)
  PROVE  /\ pc' \in [Callers -> Steps] /\ attempt' \in [Callers -> 0 .. MaxRetries]
         /\ breaker' \in [Instances -> Breakers]
<1>1. 0 \in 0 .. MaxRetries
  BY ToolConstantsOK
<1>2. pc' \in [Callers -> Steps] /\ attempt' \in [Callers -> 0 .. MaxRetries]
  BY <1>1 DEF TypeOK, Settle, Goto, Steps
<1>3. breaker' \in [Instances -> Breakers]
  BY DEF TypeOK, Settle, Breakers
<1> QED
  BY <1>2, <1>3

LEMMA RetryType ==
  ASSUME TypeOK, NEW p \in Callers, Interrupted(p)
  PROVE  /\ pc' \in [Callers -> Steps] /\ attempt' \in [Callers -> 0 .. MaxRetries]
         /\ breaker' \in [Instances -> Breakers]
<1>1. breaker[InstanceOf[p]] \in Breakers
  BY ToolConstantsOK DEF TypeOK, Breakers
<1>2. CASE Settle(p, Failed(breaker[InstanceOf[p]]))
  BY <1>1, <1>2, BreakerTypes, SettleType
<1>3. CASE /\ attempt[p] < MaxRetries
           /\ Goto(p, "backoff")
           /\ attempt' = [attempt EXCEPT ![p] = @ + 1]
           /\ UNCHANGED breaker
  BY <1>3, ToolConstantsOK DEF TypeOK, Goto, Steps, Breakers
<1> QED
  BY <1>2, <1>3 DEF Interrupted

LEMMA OneMoreType == ASSUME TypeOK, NEW q \in Quotas PROVE OneMore(q) \in Nat
BY DEF TypeOK, OneMore

LEMMA StartType ==
  ASSUME TypeOK, NEW p \in Callers, Start(p)
  PROVE  pc' \in [Callers -> Steps] /\ late' \in [Callers -> Nat]
BY DEF TypeOK, Start, Goto, Steps

LEMMA AdmitType == ASSUME TypeOK, NEW p \in Callers, Admit(p) PROVE TypeOK'
<1>1. InstanceOf[p] \in Instances /\ breaker[InstanceOf[p]] \in Breakers
  BY ToolConstantsOK DEF TypeOK, Breakers
<1>2. Tested(breaker[InstanceOf[p]]) \in Breakers
  BY <1>1, BreakerTypes
<1>3. breaker' \in [Instances -> Breakers]
  BY <1>1, <1>2 DEF TypeOK, Admit, Breakers
<1>4. ASSUME Run(p) \/ Refuse(p)
      PROVE  pc' \in [Callers -> Steps] /\ late' \in [Callers -> Nat]
             /\ ran' \in [Quotas -> Nat]
  <2>1. CASE Run(p)
    BY <2>1, StartType, OneMoreType DEF Run
  <2>2. CASE Refuse(p)
    BY <2>2 DEF TypeOK, Refuse, Goto, Steps
  <2> QED
    BY <1>4, <2>1, <2>2
<1> QED
  BY <1>3, <1>4 DEF TypeOK, Admit, Breakers

LEMMA AttemptType == ASSUME TypeOK, NEW p \in Callers, Attempt(p) PROVE TypeOK'
<1>1. breaker[InstanceOf[p]] \in Breakers
  BY ToolConstantsOK DEF TypeOK, Breakers
<1>2. /\ pc' \in [Callers -> Steps] /\ attempt' \in [Callers -> 0 .. MaxRetries]
      /\ breaker' \in [Instances -> Breakers]
  <2>1. CASE Returns(p)
    BY <1>1, <2>1, BreakerTypes, SettleType DEF Returns
  <2>2. CASE Interrupted(p)
    BY <2>2, RetryType
  <2>3. CASE Raises(p)
    BY <1>1, <2>3, BreakerTypes, SettleType DEF Raises
  <2> QED
    BY <2>1, <2>2, <2>3 DEF Attempt
<1> QED
  BY <1>2 DEF TypeOK, Attempt, Breakers, stops

LEMMA TypeStep == ASSUME TypeOK, [Next]_vars PROVE TypeOK'
<1>1. ASSUME NEW p \in Callers, Begin(p) PROVE TypeOK'
  BY <1>1 DEF TypeOK, Begin, Goto, Steps, stops
<1>2. ASSUME NEW p \in Callers, TakeToken(p) PROVE TypeOK'
  <2>1. tokens[InstanceOf[p]] - 1 \in 0 .. Burst
    BY <1>2, ToolConstantsOK DEF TypeOK, TakeToken
  <2>2. tokens' \in [Instances -> 0 .. Burst]
    BY <1>2, <2>1 DEF TypeOK, TakeToken
  <2> QED
    BY <1>2, <2>2 DEF TypeOK, TakeToken, Goto, Steps, stops
<1>3. ASSUME NEW p \in Callers, TokenTimeout(p) PROVE TypeOK'
  BY <1>3 DEF TypeOK, TokenTimeout, Goto, Steps, stops
<1>4. ASSUME NEW p \in Callers, Recheck(p) PROVE TypeOK'
  BY <1>4 DEF TypeOK, Recheck, Goto, Steps, stops
<1>5. ASSUME NEW p \in Callers, Expire(p) PROVE TypeOK'
  BY <1>5 DEF TypeOK, Expire, calls
<1>6. ASSUME NEW p \in Callers, Backoff(p) PROVE TypeOK'
  BY <1>6, StartType DEF TypeOK, Backoff
<1>7. ASSUME NEW p \in Callers, Stop(p) PROVE TypeOK'
  BY <1>7 DEF TypeOK, Stop, calls
<1>8. ASSUME NEW i \in Instances, Refill(i) PROVE TypeOK'
  BY <1>8, ToolConstantsOK DEF TypeOK, Refill, calls, stops
<1>9. ASSUME NEW i \in Instances, Cool(i) PROVE TypeOK'
  <2>1. breaker' \in [Instances -> Breakers]
    BY <1>9 DEF TypeOK, Cool, Breakers
  <2> QED
    BY <1>9, <2>1 DEF TypeOK, Cool, calls, stops, Breakers
<1>10. ASSUME Webhook PROVE TypeOK'
  <2>1. ran' \in [Quotas -> Nat]
    BY <1>10, OneMoreType DEF TypeOK, Webhook, Quotas
  <2> QED
    BY <1>10, <2>1 DEF TypeOK, Webhook, calls, stops
<1>11. ASSUME Midnight PROVE TypeOK'
  BY <1>11 DEF TypeOK, Midnight, calls, stops
<1>12. ASSUME UNCHANGED vars PROVE TypeOK'
  BY <1>12 DEF TypeOK, vars, calls, stops
<1> QED
  BY <1>1, <1>2, <1>3, <1>4, <1>5, <1>6, <1>7, <1>8, <1>9, <1>10, <1>11, <1>12,
     AdmitType, AttemptType DEF Next, Step

\* Every state of the tool calls is well typed: retries never exceed max_retries, and
\* the bucket never holds more than burst_size.
THEOREM ToolTypeCorrect == Spec => []TypeOK
<1>1. Init => TypeOK
  BY ToolConstantsOK DEF Init, TypeOK, Steps, States, Quotas
<1> QED
  BY <1>1, TypeStep, PTL DEF Spec

-----------------------------------------------------------------------------
(* The breaker of an object that is called serially. *)

UnderWay(p) == pc[p] \in {"attempt", "backoff"}

\* A breaker that may let its caller's next call in: closed, or half-open with room.
Lets(b) == b.state = "closed" \/ (b.state = "half_open" /\ b.successes < HalfOpenMax)

\* The breaker stays as it let in the call that is under way.
RoomInv ==
  \A p \in Callers : Alone(InstanceOf[p]) /\ UnderWay(p) => Lets(breaker[InstanceOf[p]])

\* A half-open breaker that has seen no success still counts the failures that opened it.
CauseInv ==
  \A i \in Instances : Alone(i) /\ HalfOpenMax = 1 =>
    \/ breaker[i].state = "closed"
    \/ breaker[i].failures >= FailureThreshold
    \/ breaker[i].state = "half_open" /\ breaker[i].successes >= 1

BreakerInv == RoomInv /\ CauseInv

\* What a step that touches neither the breakers nor an attempt leaves as it was.
LEMMA BreakerFrame ==
  ASSUME BreakerInv, breaker' = breaker,
         \A p \in Callers : pc'[p] \in {"attempt", "backoff"} =>
                            pc[p] \in {"attempt", "backoff"}
  PROVE  BreakerInv'
BY DEF BreakerInv, RoomInv, CauseInv, UnderWay, Lets, Alone

LEMMA SettleBreaker ==
  ASSUME TypeOK, BreakerInv, NEW p \in Callers, pc[p] = "attempt",
         NEW b \in {Failed(breaker[InstanceOf[p]]), Succeeded(breaker[InstanceOf[p]])},
         Settle(p, b)
  PROVE  /\ BreakerInv'
         /\ Alone(InstanceOf[p]) /\ HalfOpenMax < SuccessThreshold
            /\ breaker[InstanceOf[p]].state # "closed" => b.state # "closed"
<1> DEFINE i == InstanceOf[p]
           o == breaker[i]
<1>1. i \in Instances /\ o \in Breakers /\ b \in Breakers
  BY ToolConstantsOK, BreakerTypes DEF TypeOK, Breakers
<1>2. /\ breaker'[i] = b /\ pc'[p] = "idle"
      /\ \A j \in Instances : j # i => breaker'[j] = breaker[j]
      /\ \A r \in Callers : r # p => pc'[r] = pc[r]
  BY <1>1 DEF TypeOK, Settle, Goto
<1>3. RoomInv'
  <2> SUFFICES ASSUME NEW r \in Callers, Alone(InstanceOf[r]), UnderWay(r)'
      PROVE Lets(breaker'[InstanceOf[r]])
    BY DEF RoomInv, Alone, Lets
  <2>1. r # p
    BY <1>2 DEF UnderWay
  <2>2. InstanceOf[r] # i /\ InstanceOf[r] \in Instances
    BY <2>1, ToolConstantsOK DEF Alone
  <2> QED
    BY <1>2, <2>1, <2>2 DEF BreakerInv, RoomInv, UnderWay, Lets
<1>4. ASSUME Alone(i), HalfOpenMax = 1
      PROVE  \/ b.state = "closed" \/ b.failures >= FailureThreshold
             \/ b.state = "half_open" /\ b.successes >= 1
  <2>1. \/ o.state = "closed" \/ o.failures >= FailureThreshold
        \/ o.state = "half_open" /\ o.successes >= 1
    BY <1>1, <1>4 DEF BreakerInv, CauseInv
  <2>2. o.state = "closed" \/ (o.state = "half_open" /\ o.successes < 1)
    BY <1>4 DEF BreakerInv, RoomInv, UnderWay, Lets
  <2>3. o.successes \in Nat /\ o.failures \in Nat /\ FailureThreshold \in Nat
    BY <1>1, ToolConstantsOK DEF Breakers
  <2>4. CASE b = Failed(o)
    <3>1. b.failures = o.failures + 1
      BY <1>1, <2>4 DEF Failed, Breakers
    <3>2. o.state = "closed" => b.state = "closed" \/ b.failures >= FailureThreshold
      BY <1>1, <2>4, <3>1 DEF Failed, Breakers
    <3>3. o.state # "closed" => o.failures >= FailureThreshold
      BY <2>1, <2>2, <2>3
    <3> QED
      BY <2>3, <3>1, <3>2, <3>3
  <2>5. CASE b = Succeeded(o)
    <3>1. CASE o.state = "half_open"
      BY <1>1, <2>3, <2>5, <3>1 DEF Succeeded, Breakers
    <3>2. CASE o.state # "half_open"
      BY <1>1, <2>2, <2>3, <2>5, <3>2 DEF Succeeded, Breakers
    <3> QED
      BY <3>1, <3>2
  <2> QED
    BY <2>4, <2>5
<1>5. CauseInv'
  BY <1>1, <1>2, <1>4 DEF BreakerInv, CauseInv, Alone
<1>6. ASSUME Alone(i), HalfOpenMax < SuccessThreshold, o.state # "closed"
      PROVE  b.state # "closed"
  <2>1. o.state = "half_open" => o.successes < HalfOpenMax
    BY <1>6 DEF BreakerInv, RoomInv, UnderWay, Lets
  <2>2. o.successes \in Nat /\ HalfOpenMax \in Nat /\ SuccessThreshold \in Nat
    BY <1>1, ToolConstantsOK DEF Breakers
  <2>3. CASE b = Failed(o)
    BY <1>1, <1>6, <2>3 DEF Failed, Breakers
  <2>4. CASE b = Succeeded(o)
    <3>1. o.state = "half_open" => o.successes + 1 < SuccessThreshold
      BY <1>6, <2>1, <2>2
    <3> QED
      BY <1>1, <1>6, <2>2, <2>4, <3>1 DEF Succeeded, Breakers
  <2> QED
    BY <2>3, <2>4
<1> QED
  BY <1>3, <1>5, <1>6 DEF BreakerInv

\* What a step may do to the breakers.
Stays(i) ==
  Alone(i) /\ HalfOpenMax < SuccessThreshold /\ breaker[i].state # "closed"
    => breaker'[i].state # "closed"

BreakerGoal == BreakerInv' /\ \A i \in Instances : Stays(i)

LEMMA AttemptBreaker ==
  ASSUME TypeOK, BreakerInv, NEW p \in Callers, Attempt(p)
  PROVE  BreakerGoal
<1>1. pc[p] = "attempt"
  BY DEF Attempt
<1>2. ASSUME NEW b \in {Failed(breaker[InstanceOf[p]]), Succeeded(breaker[InstanceOf[p]])},
             Settle(p, b)
      PROVE BreakerGoal
  <2>1. BreakerInv'
    BY <1>1, <1>2, SettleBreaker
  <2>2. Stays(InstanceOf[p])
    BY <1>1, <1>2, SettleBreaker, ToolConstantsOK DEF Stays, Settle, TypeOK
  <2>3. \A i \in Instances : i # InstanceOf[p] => Stays(i)
    BY <1>2 DEF Stays, Settle, TypeOK
  <2> QED
    BY <2>1, <2>2, <2>3 DEF BreakerGoal
<1>3. ASSUME breaker' = breaker, Goto(p, "backoff") PROVE BreakerGoal
  <2>1. \A r \in Callers : pc'[r] \in {"attempt", "backoff"} => pc[r] \in {"attempt", "backoff"}
    BY <1>1, <1>3 DEF Goto, TypeOK
  <2> QED
    BY <1>3, <2>1, BreakerFrame DEF BreakerGoal, Stays
<1>4. \/ breaker' = breaker /\ Goto(p, "backoff")
      \/ \E b \in {Failed(breaker[InstanceOf[p]]), Succeeded(breaker[InstanceOf[p]])} :
           Settle(p, b)
  BY DEF Attempt, Returns, Interrupted, Raises
<1> QED
  BY <1>2, <1>3, <1>4

LEMMA AdmitBreaker ==
  ASSUME TypeOK, BreakerInv, NEW p \in Callers, Admit(p)
  PROVE  BreakerGoal
<1> DEFINE i == InstanceOf[p]
           o == breaker[i]
<1>1. i \in Instances /\ o \in Breakers
  BY ToolConstantsOK DEF TypeOK, Breakers
<1>2. CASE Refuse(p) /\ UNCHANGED breaker
  <2>1. \A r \in Callers : pc'[r] \in {"attempt", "backoff"} => pc[r] \in {"attempt", "backoff"}
    BY <1>2 DEF Refuse, Goto, TypeOK
  <2> QED
    BY <1>2, <2>1, BreakerFrame DEF BreakerGoal, Stays
<1>3. CASE Run(p) /\ UNCHANGED breaker /\ Lets(o)
  <2>1. RoomInv'
    <3>1. \A r \in Callers : r # p => pc'[r] = pc[r]
      BY <1>3 DEF Run, Start, Goto, TypeOK
    <3> QED
      BY <1>3, <3>1 DEF BreakerInv, RoomInv, UnderWay, Alone
  <2>2. CauseInv'
    BY <1>3 DEF BreakerInv, CauseInv, Alone
  <2> QED
    BY <1>3, <2>1, <2>2 DEF BreakerGoal, BreakerInv, Stays
<1>4. CASE Run(p) /\ breaker' = [breaker EXCEPT ![i] = Tested(o)] /\ o.state = "open"
  <2>1. /\ breaker'[i] = Tested(o)
        /\ \A j \in Instances : j # i => breaker'[j] = breaker[j]
        /\ \A r \in Callers : r # p => pc'[r] = pc[r]
    BY <1>1, <1>4 DEF Run, Start, Goto, TypeOK
  <2>2. /\ Tested(o).state = "half_open" /\ Tested(o).successes = 0
        /\ Tested(o).failures = o.failures
    BY <1>1 DEF Tested, Breakers
  <2>3. 0 < HalfOpenMax
    BY ToolConstantsOK
  <2>4. RoomInv'
    <3> SUFFICES ASSUME NEW r \in Callers, Alone(InstanceOf[r]), UnderWay(r)'
        PROVE Lets(breaker'[InstanceOf[r]])
      BY DEF RoomInv, Alone, Lets
    <3>1. CASE r = p
      BY <2>1, <2>2, <2>3, <3>1 DEF Lets
    <3>2. CASE r # p
      <4>1. InstanceOf[r] # i /\ InstanceOf[r] \in Instances
        BY <3>2, ToolConstantsOK DEF Alone
      <4> QED
        BY <2>1, <3>2, <4>1 DEF BreakerInv, RoomInv, UnderWay, Lets
    <3> QED
      BY <3>1, <3>2
  <2>5. CauseInv'
    BY <1>1, <1>4, <2>1, <2>2 DEF BreakerInv, CauseInv, Alone
  <2>6. \A j \in Instances : Stays(j)
    BY <2>1, <2>2 DEF Stays
  <2> QED
    BY <2>4, <2>5, <2>6 DEF BreakerGoal, BreakerInv
<1> QED
  BY <1>2, <1>3, <1>4 DEF Admit, Lets, MayProbe

LEMMA BreakerStep ==
  ASSUME TypeOK, BreakerInv, [Next]_vars PROVE BreakerGoal
<1>1. ASSUME breaker' = breaker,
             \A p \in Callers : pc'[p] \in {"attempt", "backoff"} =>
                                pc[p] \in {"attempt", "backoff"}
      PROVE  BreakerGoal
  BY <1>1, BreakerFrame DEF BreakerGoal, Stays
<1>2. ASSUME NEW p \in Callers, Step(p) PROVE BreakerGoal
  <2>1. CASE TakeToken(p) \/ TokenTimeout(p) \/ Recheck(p)
    BY <1>1, <2>1 DEF TakeToken, TokenTimeout, Recheck, Goto, TypeOK
  <2>2. CASE Backoff(p)
    BY <1>1, <2>2 DEF Backoff, Start, Goto, TypeOK
  <2> QED
    BY <1>2, <2>1, <2>2, AdmitBreaker, AttemptBreaker DEF Step
<1>3. ASSUME NEW p \in Callers, Begin(p) PROVE BreakerGoal
  BY <1>1, <1>3 DEF Begin, Goto, TypeOK
<1>4. ASSUME NEW p \in Callers, Stop(p) \/ Expire(p) PROVE BreakerGoal
  BY <1>1, <1>4 DEF Stop, Expire, calls
<1>5. ASSUME NEW i \in Instances, Refill(i) PROVE BreakerGoal
  BY <1>1, <1>5 DEF Refill, calls
<1>6. ASSUME NEW i \in Instances, Cool(i) PROVE BreakerGoal
  <2>1. \A j \in Instances : /\ breaker'[j].state = breaker[j].state
                             /\ breaker'[j].failures = breaker[j].failures
                             /\ breaker'[j].successes = breaker[j].successes
    BY <1>6 DEF Cool, TypeOK
  <2>2. pc' = pc
    BY <1>6 DEF Cool, calls
  <2>3. \A p \in Callers : InstanceOf[p] \in Instances
    BY ToolConstantsOK
  <2> QED
    BY <2>1, <2>2, <2>3 DEF BreakerGoal, BreakerInv, RoomInv, CauseInv, UnderWay, Lets, Alone, Stays
<1>7. ASSUME Webhook \/ Midnight \/ UNCHANGED vars PROVE BreakerGoal
  BY <1>1, <1>7 DEF Webhook, Midnight, vars, calls
<1> QED
  BY <1>2, <1>3, <1>4, <1>5, <1>6, <1>7 DEF Next

LEMMA BreakerInitially == Init => BreakerInv
BY ToolConstantsOK DEF Init, BreakerInv, RoomInv, CauseInv, UnderWay, Lets

\* With one half-open call at a time, the breaker of an object that is called serially
\* is open only behind failure_threshold failures in a row.
THEOREM OpensOnlyForACause == Spec => []OpenForACause
<1>1. BreakerInv => OpenForACause
  BY DEF BreakerInv, CauseInv, OpenForACause
<1>2. TypeOK /\ BreakerInv /\ [Next]_vars => BreakerInv'
  BY BreakerStep DEF BreakerGoal
<1> QED
  BY <1>1, <1>2, BreakerInitially, ToolTypeCorrect, PTL DEF Spec

\* Where half_open_max_calls is below success_threshold, as by default, the breaker of
\* an object that is called serially never closes again once it has opened.
THEOREM NeverClosesAgain == Spec => OpenedForGood
<1>1. TypeOK /\ BreakerInv /\ [Next]_vars => BreakerInv'
  BY BreakerStep DEF BreakerGoal
<1>2. TypeOK /\ BreakerInv /\ [Next]_vars =>
        [\A i \in Instances :
           /\ Alone(i) /\ HalfOpenMax < SuccessThreshold
           /\ breaker[i].state # "closed"
           => breaker'[i].state # "closed"]_vars
  BY BreakerStep DEF BreakerGoal, Stays
<1> QED
  BY <1>1, <1>2, BreakerInitially, ToolTypeCorrect, PTL DEF Spec, OpenedForGood

-----------------------------------------------------------------------------
(* The attempts of a stopped job. *)

\* The attempts a call may still begin before it is answered.
StillToCome(p) ==
  CASE pc[p] = "admit" -> MaxRetries + 1
    [] pc[p] = "attempt" -> MaxRetries - attempt[p]
    [] pc[p] = "backoff" -> MaxRetries - attempt[p] + 1
    [] OTHER -> 0

\* The attempts made under the flag and those to come stay within what is allowed, and
\* nothing is remembered of a flag that is not raised.
StopInv ==
  /\ \A p \in stopped \ missed :
       late[p] + StillToCome(p) <= IF p \in past THEN MaxRetries + 1 ELSE 0
  /\ past \subseteq stopped /\ missed \subseteq stopped
  /\ \A p \in Callers \ stopped : late[p] = 0

\* What a call may still begin is a number, and never more than all its attempts.
LEMMA ToCome ==
  ASSUME TypeOK, NEW p \in Callers
  PROVE  StillToCome(p) \in 0 .. (MaxRetries + 1)
<1>1. attempt[p] \in 0 .. MaxRetries /\ MaxRetries \in Nat
  BY ToolConstantsOK DEF TypeOK
<1> QED
  BY <1>1 DEF StillToCome

\* A step of one call that spends what it makes, and takes no look at the flag.
LEMMA StopFrame ==
  ASSUME TypeOK, StopInv, NEW p \in Callers,
         UNCHANGED <<stopped, past, missed>>,
         \A r \in Callers \ {p} : late'[r] = late[r] /\ StillToCome(r)' = StillToCome(r),
         late'[p] \in Int, StillToCome(p)' \in Int,
         IF p \in stopped
         THEN late'[p] + StillToCome(p)' <= late[p] + StillToCome(p)
         ELSE late'[p] = late[p]
  PROVE  StopInv'
<1>1. \A r \in Callers \ stopped : late'[r] = 0
  BY DEF StopInv
<1>2. ASSUME NEW r \in stopped, r \notin missed
      PROVE  late'[r] + StillToCome(r)' <= IF r \in past THEN MaxRetries + 1 ELSE 0
  <2>1. /\ r \in Callers /\ MaxRetries \in Nat
        /\ late[r] + StillToCome(r) <= IF r \in past THEN MaxRetries + 1 ELSE 0
        /\ late[r] \in Nat /\ StillToCome(r) \in Int
    BY <1>2, ToCome, ToolConstantsOK DEF StopInv, TypeOK
  <2>2. CASE r # p
    BY <2>1, <2>2
  <2>3. CASE r = p
    BY <1>2, <2>1, <2>3
  <2> QED
    BY <2>2, <2>3
<1> QED
  BY <1>1, <1>2 DEF StopInv

\* A call's step is nothing to what the other calls have still to come.
LEMMA Others ==
  ASSUME TypeOK, NEW p \in Callers, NEW s, Goto(p, s),
         \A r \in Callers \ {p} : attempt'[r] = attempt[r]
  PROVE  /\ \A r \in Callers \ {p} : StillToCome(r)' = StillToCome(r)
         /\ pc'[p] = s
BY DEF TypeOK, Goto, StillToCome

\* The steps before the last look and those that end a call.
LEMMA NothingBegins ==
  ASSUME TypeOK, StopInv, NEW p \in Callers,
         NEW s \in {"idle", "token", "recheck"}, Goto(p, s), UNCHANGED <<stopped, stops>>,
         \A r \in Callers \ {p} : attempt'[r] = attempt[r]
  PROVE  StopInv'
<1>1. /\ \A r \in Callers \ {p} : StillToCome(r)' = StillToCome(r)
      /\ StillToCome(p)' = 0
  <2>1. pc'[p] = s /\ \A r \in Callers \ {p} : StillToCome(r)' = StillToCome(r)
    BY Others
  <2> QED
    BY <2>1 DEF StillToCome
<1>2. StillToCome(p) \in Int /\ 0 <= StillToCome(p) /\ late[p] \in Nat
  BY ToCome, ToolConstantsOK DEF TypeOK
<1> QED
  BY <1>1, <1>2, StopFrame DEF stops

LEMMA RecheckStop ==
  ASSUME TypeOK, StopInv, NEW p \in Callers, Recheck(p) PROVE StopInv'
<1>1. CASE Goto(p, "idle") /\ UNCHANGED missed
  BY <1>1, NothingBegins DEF Recheck, stops
<1>2. CASE Goto(p, "admit") /\ missed' = missed \cup ({p} \cap stopped)
  <2>1. \A r \in Callers \ {p} : StillToCome(r)' = StillToCome(r)
    BY <1>2, Others DEF Recheck
  <2>2. UNCHANGED <<attempt, stopped, past, late>>
    BY DEF Recheck
  <2>3. p \notin stopped \ missed' /\ stopped \ missed' \subseteq stopped \ missed
    BY <1>2
  <2>4. missed' \subseteq stopped /\ stopped \subseteq Callers
    BY <1>2, ToolConstantsOK DEF StopInv, TypeOK
  <2> QED
    BY <2>1, <2>2, <2>3, <2>4 DEF StopInv
<1> QED
  BY <1>1, <1>2 DEF Recheck

\* An attempt that begins is one of those that were to come.
LEMMA StartStop ==
  ASSUME TypeOK, StopInv, NEW p \in Callers, Start(p), pc[p] \in {"admit", "backoff"},
         UNCHANGED <<attempt, stopped, past, missed>>
  PROVE  StopInv'
<1>1. /\ \A r \in Callers \ {p} : StillToCome(r)' = StillToCome(r)
      /\ pc'[p] = "attempt"
  BY Others DEF Start
<1>2. attempt[p] \in 0 .. MaxRetries /\ MaxRetries \in Nat /\ late[p] \in Nat
  BY ToolConstantsOK DEF TypeOK
<1>3. StillToCome(p)' = MaxRetries - attempt[p]
  BY <1>1 DEF StillToCome
<1>4. StillToCome(p) >= MaxRetries - attempt[p] + 1 /\ StillToCome(p) \in Int
  BY <1>2 DEF StillToCome
<1>5. /\ \A r \in Callers \ {p} : late'[r] = late[r]
      /\ late'[p] = IF p \in stopped THEN late[p] + 1 ELSE late[p]
  BY DEF Start, TypeOK
<1>6. IF p \in stopped
      THEN late'[p] + StillToCome(p)' <= late[p] + StillToCome(p)
      ELSE late'[p] = late[p]
  BY <1>2, <1>3, <1>4, <1>5
<1>7. late'[p] \in Int /\ StillToCome(p)' \in Int
  BY <1>2, <1>3, <1>5
<1> QED
  BY <1>1, <1>5, <1>6, <1>7, StopFrame

LEMMA AttemptStop ==
  ASSUME TypeOK, StopInv, NEW p \in Callers, Attempt(p) PROVE StopInv'
<1>1. UNCHANGED <<stopped, stops>> /\ pc[p] = "attempt"
  BY DEF Attempt
<1>2. ASSUME NEW b, Settle(p, b) PROVE StopInv'
  <2>1. \A r \in Callers \ {p} : attempt'[r] = attempt[r]
    BY <1>2 DEF Settle, TypeOK
  <2> QED
    BY <1>1, <1>2, <2>1, NothingBegins DEF Settle
<1>3. CASE Goto(p, "backoff") /\ attempt' = [attempt EXCEPT ![p] = @ + 1]
  <2>1. /\ \A r \in Callers \ {p} : attempt'[r] = attempt[r]
        /\ attempt'[p] = attempt[p] + 1
        /\ attempt[p] \in Int /\ MaxRetries \in Int /\ late[p] \in Int
    BY <1>3, ToolConstantsOK DEF TypeOK
  <2>2. /\ \A r \in Callers \ {p} : StillToCome(r)' = StillToCome(r)
        /\ pc'[p] = "backoff"
    BY <1>3, <2>1, Others
  <2>3. StillToCome(p)' = MaxRetries - (attempt[p] + 1) + 1
    BY <2>1, <2>2 DEF StillToCome
  <2>4. StillToCome(p) = MaxRetries - attempt[p]
    BY <1>1 DEF StillToCome
  <2>5. StillToCome(p)' = StillToCome(p) /\ StillToCome(p)' \in Int
    BY <2>1, <2>3, <2>4
  <2>6. late' = late
    BY <1>1 DEF stops
  <2> QED
    BY <1>1, <2>1, <2>2, <2>5, <2>6, StopFrame DEF stops
<1> QED
  BY <1>2, <1>3 DEF Attempt, Returns, Interrupted, Raises

\* The flag goes up: nothing has been made under it, and what is to come of a call that
\* has its last look ahead is nothing.
LEMMA RaiseStop ==
  ASSUME TypeOK, StopInv, NEW p \in Callers, Stop(p) PROVE StopInv'
<1>1. /\ p \in WithJob \ stopped /\ stopped' = stopped \cup {p}
      /\ past' = (IF pc[p] \in PastLook THEN past \cup {p} ELSE past)
      /\ UNCHANGED <<pc, attempt, missed, late>>
  BY DEF Stop, calls
<1>2. \A r \in Callers : StillToCome(r)' = StillToCome(r)
  BY <1>1 DEF StillToCome
<1>3. late[p] = 0 /\ p \notin past /\ p \notin missed
  BY <1>1 DEF StopInv
<1>4. StillToCome(p) <= IF p \in past' THEN MaxRetries + 1 ELSE 0
  <2>1. CASE pc[p] \in PastLook
    BY <1>1, <2>1, ToCome, ToolConstantsOK
  <2>2. CASE pc[p] \notin PastLook
    BY <1>1, <1>3, <2>2 DEF PastLook, StillToCome
  <2> QED
    BY <2>1, <2>2
<1>5. ASSUME NEW r \in stopped', r \notin missed'
      PROVE  late'[r] + StillToCome(r)' <= IF r \in past' THEN MaxRetries + 1 ELSE 0
  <2>1. CASE r = p
    <3>1. StillToCome(p) \in Int
      BY ToCome, ToolConstantsOK
    <3> QED
      BY <1>1, <1>2, <1>3, <1>4, <2>1, <3>1
  <2>2. CASE r # p
    BY <1>1, <1>2, <1>5, <2>2, ToolConstantsOK DEF StopInv, TypeOK
  <2> QED
    BY <2>1, <2>2
<1> QED
  BY <1>1, <1>5 DEF StopInv

LEMMA ExpireStop ==
  ASSUME TypeOK, StopInv, NEW p \in Callers, Expire(p) PROVE StopInv'
<1>1. /\ stopped' = stopped \ {p} /\ past' = past \ {p} /\ missed' = missed \ {p}
      /\ late' = [late EXCEPT ![p] = 0] /\ UNCHANGED <<pc, attempt>>
  BY DEF Expire, calls
<1>2. \A r \in Callers : StillToCome(r)' = StillToCome(r)
  BY <1>1 DEF StillToCome
<1>3. late'[p] = 0 /\ \A r \in Callers \ {p} : late'[r] = late[r]
  BY <1>1 DEF TypeOK
<1>4. stopped \subseteq Callers
  BY ToolConstantsOK DEF TypeOK
<1> QED
  BY <1>1, <1>2, <1>3, <1>4 DEF StopInv

LEMMA StopStep == ASSUME TypeOK, StopInv, [Next]_vars PROVE StopInv'
<1>1. ASSUME UNCHANGED <<stopped, stops, pc, attempt>> PROVE StopInv'
  BY <1>1 DEF StopInv, StillToCome, stops
<1>2. ASSUME NEW p \in Callers, Step(p) PROVE StopInv'
  <2>1. CASE TakeToken(p) \/ TokenTimeout(p)
    BY <2>1, NothingBegins DEF TakeToken, TokenTimeout
  <2>2. CASE Admit(p)
    <3>1. CASE Run(p)
      BY <2>2, <3>1, StartStop DEF Admit, Run
    <3>2. CASE Refuse(p)
      BY <2>2, <3>2, NothingBegins DEF Admit, Refuse, stops
    <3> QED
      BY <2>2, <3>1, <3>2 DEF Admit
  <2>3. CASE Backoff(p)
    BY <2>3, StartStop DEF Backoff
  <2> QED
    BY <1>2, <2>1, <2>2, <2>3, RecheckStop, AttemptStop DEF Step
<1>3. ASSUME NEW p \in Callers, Begin(p) PROVE StopInv'
  <2>1. CASE UNCHANGED pc
    BY <1>1, <1>3, <2>1 DEF Begin
  <2>2. CASE \E s \in {"idle", "token"} : Goto(p, s)
    BY <1>3, <2>2, NothingBegins DEF Begin
  <2> QED
    BY <1>3, <2>1, <2>2 DEF Begin
<1>4. ASSUME NEW p \in Callers, Stop(p) \/ Expire(p) PROVE StopInv'
  BY <1>4, RaiseStop, ExpireStop
<1>5. ASSUME NEW i \in Instances, Refill(i) \/ Cool(i) PROVE StopInv'
  BY <1>1, <1>5 DEF Refill, Cool, calls
<1>6. ASSUME Webhook \/ Midnight \/ UNCHANGED vars PROVE StopInv'
  BY <1>1, <1>6 DEF Webhook, Midnight, vars, calls
<1> QED
  BY <1>2, <1>3, <1>4, <1>5, <1>6 DEF Next

\* Under a raised flag that its last look has not missed, a call makes no attempt if it
\* had that look ahead of it, and at most those of one operation if it was past it.
THEOREM StopsAreBounded == Spec => []StopBoundsAttempts
<1>1. Init => StopInv
  BY DEF Init, StopInv
<1>2. TypeOK /\ StopInv => StopBoundsAttempts
  <2> SUFFICES ASSUME TypeOK, StopInv, NEW p \in stopped, p \notin missed
      PROVE late[p] <= IF p \in past THEN MaxRetries + 1 ELSE 0
    BY DEF StopBoundsAttempts
  <2>1. /\ p \in Callers /\ late[p] \in Nat /\ MaxRetries \in Nat
        /\ late[p] + StillToCome(p) <= IF p \in past THEN MaxRetries + 1 ELSE 0
    BY ToolConstantsOK DEF TypeOK, StopInv
  <2>2. StillToCome(p) \in Int /\ 0 <= StillToCome(p)
    BY <2>1, ToCome
  <2> QED
    BY <2>1, <2>2
<1> QED
  BY <1>1, <1>2, StopStep, ToolTypeCorrect, PTL DEF Spec
=============================================================================
