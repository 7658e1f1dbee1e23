---------------------------- MODULE SecretsProofs ----------------------------
(***************************************************************************)
(* Theorems of Secrets, for any managers, requests, values and times, and  *)
(* whatever fails.                                                         *)
(***************************************************************************)
EXTENDS Secrets, TLAPS

-----------------------------------------------------------------------------
(* The inductive invariant. *)

Kept == MaxAge + Interval
Lag(r) == IF r \in late THEN 1 ELSE 0

\* A request that has looked into the cache has started the cleanup task; what it
\* stores, or has from Redis, is a value.
Sane ==
  \A r \in Requests :
    /\ pc[r] \in {"redis", "echo", "clean", "join", "wait", "keep"} => wakes[ManagerOf[r]] # None
    /\ pc[r] \in {"write", "echo"} => value[r] \in Values

\* A retrieval that is remembered now is dropped before it is older than Kept.
Swept ==
  \A m \in Managers :
    active[m] # None => wakes[m] # None /\ active[m].age + wakes[m] <= Kept

SourceInv == \A v \in Found : Readable(v) => gone[v] = 0

\* A result is no older than its retrieval.
FlightInv ==
  \A m \in Managers :
    active[m] # None /\ active[m].done => gone[active[m].value] <= active[m].age

\* An entry has no more life than its value has left.
Lives(e) == e # None /\ e.life > 0 => gone[e.value] + e.life <= Bound
CacheInv == Lives(redis) /\ \A m \in Managers : Lives(cache[m])

\* What a request has is as old as the place it is from, and a tick more if it saw one.
Holds(r) ==
  /\ pc[r] = "keep" => gone[value[r]] <= Kept + Lag(r)
  /\ pc[r] = "echo" => gone[value[r]] <= Bound - 1 + Lag(r)
  /\ pc[r] = "answer" =>
       gone[value[r]] <= (IF value[r] = None THEN Kept ELSE Bound - 1) + Lag(r)
HeldInv == \A r \in Requests : Holds(r)

TypeInv == TypeOK /\ Sane /\ Swept
AgeInv == SourceInv /\ FlightInv /\ CacheInv /\ HeldInv

-----------------------------------------------------------------------------
(* Types. *)

LEMMA TypeInit == Init => TypeInv
BY SecretConstantsOK
   DEF Init, TypeInv, TypeOK, Sane, Swept, Found, Steps, Blocking, Bound

\* Setting Redis to an entry or to nothing keeps its type.
LEMMA SetRedisType ==
  ASSUME redis \in Entries \cup {None}, NEW e \in Entries \cup {None}, SetRedis(e)
  PROVE  redis' \in Entries \cup {None}
BY DEF SetRedis

LEMMA FreshType == ASSUME NEW v \in Values PROVE Fresh(v) \in Entries
BY SecretConstantsOK DEF Fresh, Entries

LEMMA OlderType ==
  ASSUME NEW e \in Entries \cup {None} PROVE Older(e) \in Entries \cup {None}
BY SecretConstantsOK DEF Older, Entries

LEMMA RetrieveType ==
  ASSUME TypeInv, NEW m \in Managers, NEW v \in Found, Retrieved(m, v)
  PROVE  /\ active' \in [Managers -> Flights \cup {None}]
         /\ active'[m].age = active[m].age /\ active'[m].value = v /\ active'[m].done
         /\ \A n \in Managers : n # m => active'[n] = active[n]
<1>1. active[m] \in Flights
  BY DEF TypeInv, TypeOK, Retrieved
<1>2. active' = [active EXCEPT ![m] = [active[m] EXCEPT !.done = TRUE, !.value = v]]
  BY <1>1 DEF Retrieved, TypeInv, TypeOK, Flights
<1>3. [active[m] EXCEPT !.done = TRUE, !.value = v] \in Flights
  BY <1>1 DEF Flights
<1> QED
  BY <1>1, <1>2, <1>3 DEF TypeInv, TypeOK, Flights

LEMMA TypeStep == ASSUME TypeInv, Next PROVE TypeInv'
<1> USE SecretConstantsOK DEF TypeInv, TypeOK, Sane, Swept
<1>1. ASSUME NEW r \in Requests, Begin(r) PROVE TypeInv'
  <2> DEFINE m == ManagerOf[r]
  <2>0. m \in Managers
    OBVIOUS
  <2>1. CASE Get(r)
    <3>1. wakes'[m] # None /\ wakes' \in [Managers -> 0 .. Interval \cup {None}]
          /\ (wakes[m] # None => wakes'[m] = wakes[m])
          /\ \A n \in Managers : n # m => wakes'[n] = wakes[n]
      BY <2>0, <2>1 DEF Get, StartCleanup
    <3>2. /\ pc'[r] \in {"answer", "redis"} /\ pc' \in [Requests -> Steps]
          /\ value' \in [Requests -> Found]
          /\ cache' \in [Managers -> Entries \cup {None}]
          /\ \A q \in Requests : q # r => pc'[q] = pc[q] /\ value'[q] = value[q]
      BY <2>0, <2>1 DEF Get, Valid, Goes, Goto, Found, Entries, Steps, Blocking
    <3> QED
      BY <2>0, <2>1, <3>1, <3>2 DEF Get
  <2>2. CASE Refuse(r)
    BY <2>0, <2>2 DEF Refuse, StartCleanup, caches, requests
  <2>3. CASE Store(r)
    BY <2>0, <2>3 DEF Store, Goes, Goto, Found, Steps, Blocking, caches
  <2>4. CASE Delete(r)
    <3>1. redis' \in Entries \cup {None}
      BY <2>4, SetRedisType DEF Delete
    <3> QED
      BY <2>0, <2>4, <3>1 DEF Delete, Goto, Steps, Blocking
  <2> QED
    BY <1>1, <2>1, <2>2, <2>3, <2>4 DEF Begin
<1>2. ASSUME NEW r \in Requests, Step(r) PROVE TypeInv'
  <2> DEFINE m == ManagerOf[r]
  <2>0. m \in Managers
    OBVIOUS
  <2>1. CASE TakeShared(r)
    BY <2>0, <2>1 DEF TakeShared, Valid, Goes, Goto, Entries, Found, Steps, Blocking
  <2>2. CASE Echo(r)
    <3>1. redis' \in Entries \cup {None}
      BY <2>0, <2>2, SetRedisType DEF Echo
    <3> QED
      BY <2>2, <3>1 DEF Echo, Goto, Steps, Blocking
  <2>3. CASE MissShared(r)
    BY <2>3 DEF MissShared, Goto, Steps, Blocking, caches
  <2>4. CASE Clean(r)
    <3>1. redis' \in Entries \cup {None}
      BY <2>4, SetRedisType DEF Clean
    <3> QED
      BY <2>4, <3>1 DEF Clean, Goto, Steps, Blocking
  <2>5. CASE Join(r)
    <3>1. wakes[m] \in 0 .. Interval
      BY <2>0, <2>5 DEF Join
    <3>2. CASE active[m] = None
      <4>1. active' = [active EXCEPT ![m] = [age |-> 0, done |-> FALSE, value |-> None]]
            /\ pc' = [pc EXCEPT ![r] = "wait"] /\ value' = value
        BY <2>5, <3>2 DEF Join, Goto
      <4>2. [age |-> 0, done |-> FALSE, value |-> None] \in Flights
        BY DEF Flights, Found
      <4> QED
        BY <2>0, <2>5, <3>1, <4>1, <4>2 DEF Join, Steps, Flights, Kept
    <3>3. CASE active[m] # None
      BY <2>0, <2>5, <3>3 DEF Join, Goes, Goto, Steps, Flights
    <3> QED
      BY <3>2, <3>3
  <2>6. CASE Keep(r)
    <3>1. CASE value[r] = None
      BY <2>6, <3>1 DEF Keep, Goto, Steps
    <3>2. CASE value[r] # None
      <4>1. Fresh(value[r]) \in Entries
        BY <3>2, FreshType DEF Found
      <4>2. redis' \in Entries \cup {None} /\ cache' = [cache EXCEPT ![m] = Fresh(value[r])]
        BY <2>6, <3>2, <4>1, SetRedisType DEF Keep
      <4> QED
        BY <2>0, <2>6, <4>1, <4>2 DEF Keep, Goto, Steps
    <3> QED
      BY <3>1, <3>2
  <2>7. CASE Answer(r)
    BY <2>7 DEF Answer, Ends, Goes, Goto, Found, Steps, caches
  <2>8. CASE Write(r) \/ WriteFails(r)
    <3>1. value[r] \in Values /\ Fresh(value[r]) \in Entries
      BY <2>8, FreshType DEF Write, WriteFails
    <3>2. gone' \in [Found -> 0 .. Bound + 1]
      BY <2>8 DEF Write, WriteFails, Seen, Bound
    <3> QED
      BY <2>0, <2>8, <3>1, <3>2 DEF Write, WriteFails, Goto, Steps, Blocking, Found
  <2>9. CASE Share(r)
    <3>1. redis' \in Entries \cup {None}
      BY <2>0, <2>9, SetRedisType DEF Share
    <3> QED
      BY <2>9, <3>1 DEF Share, Goto, Steps, Blocking
  <2>10. CASE Drop(r)
    <3>1. redis' \in Entries \cup {None}
      BY <2>10, SetRedisType DEF Drop
    <3> QED
      BY <2>10, <3>1 DEF Drop, Ends, Goes, Goto, Found, Steps
  <2>11. CASE Revoke(r) \/ RevokeFails(r)
    <3>1. gone' \in [Found -> 0 .. Bound + 1]
      BY <2>11 DEF Revoke, RevokeFails, Seen, Bound
    <3> QED
      BY <2>0, <2>11, <3>1 DEF Revoke, RevokeFails, Ends, Goes, Goto, Steps, Found, caches
  <2> QED
    BY <1>2, <2>1, <2>2, <2>3, <2>4, <2>5, <2>6, <2>7, <2>8, <2>9, <2>10, <2>11 DEF Step
<1>3. ASSUME NEW m \in Managers, Retrieve(m) \/ RetrieveFails(m) PROVE TypeInv'
  <2>1. PICK v \in Found : Retrieved(m, v)
    BY <1>3 DEF Retrieve, RetrieveFails, Reads, Found
  <2>2. /\ active' \in [Managers -> Flights \cup {None}]
        /\ active'[m].age = active[m].age
        /\ \A n \in Managers : n # m => active'[n] = active[n]
    BY <2>1, RetrieveType
  <2>3. gone' \in [Found -> 0 .. Bound + 1]
    BY <1>3 DEF Retrieve, RetrieveFails, Bound
  <2>4. pc' \in [Requests -> Steps] /\ value' \in [Requests -> Found]
    BY <2>1 DEF Retrieved, Steps
  <2>5. Sane'
    BY <2>1 DEF Retrieved
  <2> QED
    BY <2>1, <2>2, <2>3, <2>4, <2>5 DEF Retrieved
<1>4. ASSUME NEW m \in Managers, Sweep(m) PROVE TypeInv'
  <2>1. active' \in [Managers -> Flights \cup {None}] /\ Sane'
    BY <1>4 DEF Sweep, requests
  <2>2. Swept'
    <3>1. ASSUME NEW n \in Managers, active'[n] # None
          PROVE  wakes'[n] # None /\ active'[n].age + wakes'[n] <= Kept
      <4>1. active'[n] = active[n] /\ active[n] \in Flights
        BY <1>4, <3>1 DEF Sweep
      <4>2. CASE n = m
        <5>1. active[m].age <= MaxAge /\ wakes'[m] = Interval
          BY <1>4, <3>1, <4>1, <4>2 DEF Sweep
        <5> QED
          BY <4>1, <4>2, <5>1 DEF Flights, Kept
      <4>3. CASE n # m
        BY <1>4, <3>1, <4>1, <4>3 DEF Sweep
      <4> QED
        BY <4>2, <4>3
    <3> QED
      BY <3>1
  <2>3. wakes' \in [Managers -> 0 .. Interval \cup {None}]
    BY <1>4 DEF Sweep
  <2>4. UNCHANGED <<storage, localStore, cache, redis, pc, value, late, gone>>
    BY <1>4 DEF Sweep, requests
  <2> QED
    BY <2>1, <2>2, <2>3, <2>4
<1>5. ASSUME NEW m \in Managers, Evict(m) PROVE TypeInv'
  BY <1>5 DEF Evict, requests
<1>6. CASE Tick
  <2>1. \A m \in Managers : active[m] # None =>
          /\ wakes[m] \in 1 .. Interval /\ active[m] \in Flights
          /\ active[m].age + wakes[m] <= Kept
    BY <1>6 DEF Tick
  <2>2. \A m \in Managers : active[m] # None =>
          /\ [active[m] EXCEPT !.age = @ + 1] \in Flights
          /\ [active[m] EXCEPT !.age = @ + 1].age = active[m].age + 1
    BY <2>1 DEF Flights, Kept
  <2>3. active' \in [Managers -> Flights \cup {None}]
    BY <1>6, <2>2 DEF Tick
  <2>4. wakes' \in [Managers -> 0 .. Interval \cup {None}]
        /\ \A m \in Managers : wakes[m] # None => wakes'[m] = wakes[m] - 1 /\ wakes'[m] # None
    BY <1>6 DEF Tick
  <2>5. Swept'
    <3>1. ASSUME NEW m \in Managers, active'[m] # None
          PROVE  wakes'[m] # None /\ active'[m].age + wakes'[m] <= Kept
      <4>1. active[m] # None /\ active'[m] = [active[m] EXCEPT !.age = @ + 1]
        BY <1>6, <3>1 DEF Tick
      <4>2. active'[m].age = active[m].age + 1 /\ active[m].age \in Nat
        BY <2>1, <2>2, <4>1 DEF Flights
      <4> QED
        BY <2>1, <2>4, <4>1, <4>2
    <3> QED
      BY <3>1
  <2>6. cache' \in [Managers -> Entries \cup {None}] /\ redis' \in Entries \cup {None}
    BY <1>6, OlderType DEF Tick
  <2>7. gone' \in [Found -> 0 .. Bound + 1]
    BY <1>6 DEF Tick, Bound
  <2> QED
    BY <1>6, <2>3, <2>4, <2>5, <2>6, <2>7 DEF Tick
<1> QED
  BY <1>1, <1>2, <1>3, <1>4, <1>5, <1>6 DEF Next

-----------------------------------------------------------------------------
(* Ages. *)

\* Nothing grows older but by a tick.
Ageless == \A v \in Found : gone'[v] <= gone[v]

LEMMA GoneFalls ==
  ASSUME TypeInv, Next, ~Tick
  PROVE  Ageless
<1> SUFFICES ASSUME NEW v \in Found PROVE gone'[v] <= gone[v]
  BY DEF Ageless
<1>1. gone[v] \in Nat /\ gone \in [Found -> Nat]
  BY DEF TypeInv, TypeOK
<1>2. ASSUME NEW r \in Requests, Begin(r) PROVE gone'[v] <= gone[v]
  BY <1>1, <1>2 DEF Begin, Get, Refuse, Store, Delete
<1>3. ASSUME NEW r \in Requests, Step(r) PROVE gone'[v] <= gone[v]
  <2>1. CASE Write(r) \/ WriteFails(r) \/ Revoke(r) \/ RevokeFails(r)
    BY <1>1, <2>1 DEF Write, WriteFails, Revoke, RevokeFails, Seen
  <2>2. CASE TakeShared(r) \/ Echo(r) \/ MissShared(r) \/ Clean(r) \/ Join(r) \/ Keep(r)
    BY <1>1, <2>2 DEF TakeShared, Echo, MissShared, Clean, Join, Keep
  <2>3. CASE Answer(r) \/ Share(r) \/ Drop(r)
    BY <1>1, <2>3 DEF Answer, Share, Drop
  <2> QED
    BY <1>3, <2>1, <2>2, <2>3 DEF Step
<1>4. ASSUME NEW m \in Managers, Retrieve(m) \/ RetrieveFails(m) \/ Sweep(m) \/ Evict(m)
      PROVE  gone'[v] <= gone[v]
  BY <1>1, <1>4 DEF Retrieve, RetrieveFails, Sweep, Evict
<1> QED
  BY <1>2, <1>3, <1>4 DEF Next

\* What is left alone keeps its invariant.
LEMMA SourceStays ==
  ASSUME TypeInv, TypeInv', SourceInv, Ageless, UNCHANGED <<storage, localStore>>
  PROVE  SourceInv'
BY DEF TypeInv, TypeOK, SourceInv, Ageless, Readable, Reads

LEMMA FlightsStay ==
  ASSUME TypeInv, TypeInv', FlightInv, Ageless,
         \A m \in Managers : active'[m] \in {active[m], None}
  PROVE  FlightInv'
<1> SUFFICES ASSUME NEW m \in Managers, active'[m] # None, active'[m].done
             PROVE  gone'[active'[m].value] <= active'[m].age
  BY DEF FlightInv
<1>1. active'[m] = active[m] /\ active[m] \in Flights
  BY DEF TypeInv, TypeOK
<1>2. active[m].value \in Found /\ active[m].age \in Nat
  BY <1>1, SecretConstantsOK DEF Flights
<1> QED
  BY <1>1, <1>2 DEF TypeInv, TypeOK, FlightInv, Ageless

LEMMA LivesOn ==
  ASSUME TypeInv, TypeInv', Ageless, NEW e \in Entries \cup {None}, Lives(e)
  PROVE  (e # None /\ e.life > 0) => gone'[e.value] + e.life <= Bound
<1> SUFFICES ASSUME e # None, e.life > 0 PROVE gone'[e.value] + e.life <= Bound
  OBVIOUS
<1>1. e.value \in Found /\ e.life \in Nat
  BY SecretConstantsOK DEF Entries, Found
<1> QED
  BY <1>1, SecretConstantsOK DEF Lives, Ageless, TypeInv, TypeOK, Bound

LEMMA CachesStay ==
  ASSUME TypeInv, TypeInv', CacheInv, Ageless,
         redis' \in {redis, None}, \A m \in Managers : cache'[m] \in {cache[m], None}
  PROVE  CacheInv'
<1>1. redis \in Entries \cup {None} /\ \A m \in Managers : cache[m] \in Entries \cup {None}
  BY DEF TypeInv, TypeOK
<1> QED
  BY <1>1, LivesOn DEF CacheInv, Lives

\* The other requests hold what they held.
LEMMA HeldStays ==
  ASSUME TypeInv, TypeInv', HeldInv, Ageless, NEW r \in Requests,
         pc'[r] = pc[r], value'[r] = value[r], r \in late <=> r \in late'
  PROVE  Holds(r)'
<1>1. value[r] \in Found /\ gone[value[r]] \in Nat /\ gone'[value[r]] \in Nat
  BY DEF TypeInv, TypeOK
<1>2. Lag(r)' = Lag(r) /\ Lag(r) \in Nat
  BY DEF Lag
<1>3. Kept \in Nat /\ Bound - 1 \in Nat
  BY SecretConstantsOK DEF Kept, Bound
<1> QED
  BY <1>1, <1>2, <1>3 DEF HeldInv, Holds, Ageless

LEMMA AgeInit == Init => AgeInv
BY SecretConstantsOK
   DEF Init, AgeInv, SourceInv, FlightInv, CacheInv, HeldInv, Holds, Lives, Readable,
       Reads, Found

\* The steps that write the storage see what becomes readable.
LEMMA SourceSeen ==
  ASSUME TypeInv, TypeInv', SourceInv, NEW r \in Requests,
         Write(r) \/ WriteFails(r) \/ Revoke(r) \/ RevokeFails(r)
  PROVE  SourceInv'
<1>1. CASE Write(r) \/ Revoke(r) \/ RevokeFails(r)
  BY <1>1 DEF Write, Revoke, RevokeFails, Seen, SourceInv
<1>2. CASE WriteFails(r)
  <2> SUFFICES ASSUME NEW v \in Found, NEW m \in Managers, Reads(m)' = v PROVE gone'[v] = 0
    BY DEF SourceInv, Readable
  <2>1. v = value[r] \/ Reads(m) = v
    BY <1>2 DEF WriteFails, Reads, TypeInv, TypeOK
  <2> QED
    BY <1>2, <2>1 DEF WriteFails, Readable
<1> QED
  BY <1>1, <1>2

\* What a request writes can be read from then on.
LEMMA WrittenIsFresh ==
  ASSUME TypeInv, TypeInv', NEW r \in Requests, Write(r) \/ WriteFails(r)
  PROVE  value[r] \in Values /\ gone'[value[r]] = 0
<1>1. value[r] \in Values
  BY DEF TypeInv, Sane, Write, WriteFails
<1>2. CASE Write(r)
  <2>1. ManagerOf[r] \in Managers /\ Reads(ManagerOf[r])' = value[r]
    BY <1>1, <1>2, SecretConstantsOK DEF Write, Reads
  <2> QED
    BY <1>1, <1>2, <2>1 DEF Write, Seen, Readable, Found
<1>3. CASE WriteFails(r)
  BY <1>1, <1>3 DEF WriteFails, Found
<1> QED
  BY <1>1, <1>2, <1>3

\* A new entry of a value that a request holds has a life within the bound.
LEMMA FreshLives ==
  ASSUME TypeInv', NEW v \in Values, gone'[v] <= Kept + 1
  PROVE  (Fresh(v) # None /\ Fresh(v).life > 0) =>
           gone'[Fresh(v).value] + Fresh(v).life <= Bound
<1>1. gone'[v] \in Nat
  BY DEF TypeInv, TypeOK, Found
<1> QED
  BY <1>1, SecretConstantsOK DEF Fresh, Kept, Bound

\* A retrieval finds what can be read now.
LEMMA FoundIsFresh ==
  ASSUME TypeInv, SourceInv, NEW m \in Managers, Retrieve(m) \/ RetrieveFails(m)
  PROVE  \E v \in Found : Retrieved(m, v) /\ gone'[v] = 0
<1>1. CASE Retrieve(m)
  <2>1. Reads(m) \in Found /\ Readable(Reads(m))
    BY DEF Reads, Readable, TypeInv, TypeOK, Found
  <2> QED
    BY <1>1, <2>1 DEF Retrieve, SourceInv
<1>2. CASE RetrieveFails(m)
  BY <1>2 DEF RetrieveFails, TypeInv, TypeOK
<1> QED
  BY <1>1, <1>2

LEMMA AgeStep ==
  ASSUME TypeInv, TypeInv', AgeInv, Next, ~Tick
  PROVE  AgeInv'
<1>0. Ageless
  BY GoneFalls
<1>1. SourceInv'
  <2>1. CASE \E r \in Requests : Write(r) \/ WriteFails(r) \/ Revoke(r) \/ RevokeFails(r)
    BY <2>1, SourceSeen DEF AgeInv
  <2>2. CASE UNCHANGED <<storage, localStore>>
    BY <1>0, <2>2, SourceStays DEF AgeInv
  <2> QED
    BY <2>1, <2>2
       DEF Next, Begin, Step, Get, Refuse, Store, Delete, TakeShared, Echo, MissShared, Clean,
           Join, Keep, Answer, Share, Drop, Retrieve, RetrieveFails, Retrieved, Sweep, Evict
<1>2. FlightInv'
  <2>1. ASSUME NEW r \in Requests, Join(r) PROVE FlightInv'
    <3> DEFINE m == ManagerOf[r]
    <3>1. CASE active' = active
      BY <1>0, <3>1, FlightsStay DEF AgeInv
    <3>2. CASE active' # active
      <4>1. m \in Managers
        BY SecretConstantsOK
      <4>2. active' = [active EXCEPT ![m] = [age |-> 0, done |-> FALSE, value |-> None]]
        BY <2>1, <3>2 DEF Join
      <4>3. \A n \in Managers : active'[n] = active[n] \/ ~active'[n].done
        BY <4>1, <4>2 DEF TypeInv, TypeOK
      <4>4. \A n \in Managers : active'[n] # None /\ active'[n] = active[n] =>
              active[n].value \in Found /\ active[n].age \in Nat
        BY SecretConstantsOK DEF TypeInv, TypeOK, Flights
      <4> QED
        BY <1>0, <4>3, <4>4 DEF AgeInv, FlightInv, TypeInv, TypeOK, Ageless
    <3> QED
      BY <3>1, <3>2
  <2>2. ASSUME NEW m \in Managers, Retrieve(m) \/ RetrieveFails(m) PROVE FlightInv'
    <3>1. PICK v \in Found : Retrieved(m, v) /\ gone'[v] = 0
      BY <2>2, FoundIsFresh DEF AgeInv
    <3>2. active'[m].value = v /\ active'[m].age = active[m].age
          /\ \A n \in Managers : n # m => active'[n] = active[n]
      BY <3>1, RetrieveType
    <3>3. active[m].age \in Nat
      BY <3>1, SecretConstantsOK DEF Retrieved, TypeInv, TypeOK, Flights
    <3>4. \A n \in Managers : active[n] # None =>
            active[n].value \in Found /\ active[n].age \in Nat
      BY SecretConstantsOK DEF TypeInv, TypeOK, Flights
    <3> QED
      BY <1>0, <3>1, <3>2, <3>3, <3>4 DEF AgeInv, FlightInv, TypeInv, TypeOK, Ageless
  <2>3. ASSUME NEW m \in Managers, Sweep(m) PROVE FlightInv'
    <3>1. \A n \in Managers : active'[n] \in {active[n], None}
      BY <2>3 DEF Sweep, TypeInv, TypeOK
    <3> QED
      BY <1>0, <3>1, FlightsStay DEF AgeInv
  <2>4. CASE UNCHANGED active
    BY <1>0, <2>4, FlightsStay DEF AgeInv
  <2> QED
    BY <2>1, <2>2, <2>3, <2>4
       DEF Next, Begin, Step, Get, Refuse, Store, Delete, TakeShared, Echo, MissShared, Clean,
           Keep, Answer, Write, WriteFails, Share, Drop, Revoke, RevokeFails, Evict, caches
<1>3. CacheInv'
  <2>0. /\ redis \in Entries \cup {None} /\ Lives(redis)
        /\ \A m \in Managers : cache[m] \in Entries \cup {None} /\ Lives(cache[m])
    BY DEF TypeInv, TypeOK, AgeInv, CacheInv
  <2>1. \A e \in {redis} \cup {cache[m] : m \in Managers} :
          (e # None /\ e.life > 0) => gone'[e.value] + e.life <= Bound
    BY <1>0, <2>0, LivesOn
  <2>2. ASSUME NEW r \in Requests, Begin(r) PROVE CacheInv'
    <3>1. redis' \in {redis, None} /\ \A m \in Managers : cache'[m] \in {cache[m], None}
      BY <2>2 DEF Begin, Get, Refuse, Store, Delete, SetRedis, TypeInv, TypeOK, caches
    <3> QED
      BY <1>0, <3>1, CachesStay DEF AgeInv
  <2>3. ASSUME NEW r \in Requests, Step(r) PROVE CacheInv'
    <3> DEFINE m == ManagerOf[r]
    <3>0. m \in Managers
      BY SecretConstantsOK
    <3>1. CASE TakeShared(r) \/ Echo(r) \/ Share(r)
      <4>1. redis' \in {redis, cache[m]} /\ \A n \in Managers : cache'[n] \in {cache[n], redis}
        BY <3>0, <3>1 DEF TakeShared, Echo, Share, SetRedis, TypeInv, TypeOK
      <4> QED
        BY <2>1, <3>0, <4>1 DEF CacheInv, Lives
    <3>2. CASE Keep(r) /\ value[r] # None
      <4>1. value[r] \in Values /\ gone[value[r]] <= Kept + Lag(r) /\ value[r] \in Found
        BY <3>2 DEF Keep, AgeInv, HeldInv, Holds, TypeInv, TypeOK, Found
      <4>2. gone'[value[r]] <= Kept + 1
        BY <1>0, <4>1, SecretConstantsOK DEF Ageless, Lag, Kept, TypeInv, TypeOK
      <4>3. (Fresh(value[r]) # None /\ Fresh(value[r]).life > 0) =>
              gone'[Fresh(value[r]).value] + Fresh(value[r]).life <= Bound
        BY <4>1, <4>2, FreshLives
      <4>4. cache' = [cache EXCEPT ![m] = Fresh(value[r])] /\ value' = value
            /\ redis' \in {redis, Fresh(value[r])}
        BY <3>2 DEF Keep, SetRedis
      <4> QED
        BY <2>1, <3>0, <4>3, <4>4 DEF CacheInv, Lives, TypeInv, TypeOK
    <3>3. CASE Write(r) \/ WriteFails(r)
      <4>1. value[r] \in Values /\ gone'[value[r]] = 0
        BY <3>3, WrittenIsFresh
      <4>2. 0 <= Kept + 1
        BY SecretConstantsOK DEF Kept
      <4>3. (Fresh(value[r]) # None /\ Fresh(value[r]).life > 0) =>
              gone'[Fresh(value[r]).value] + Fresh(value[r]).life <= Bound
        BY <4>1, <4>2, FreshLives
      <4>4. cache' = [cache EXCEPT ![m] = Fresh(value[r])] /\ value' = value /\ redis' = redis
        BY <3>3 DEF Write, WriteFails
      <4> QED
        BY <2>1, <3>0, <4>3, <4>4 DEF CacheInv, Lives, TypeInv, TypeOK
    <3>4. CASE redis' \in {redis, None} /\ UNCHANGED cache
      BY <1>0, <3>4, CachesStay DEF AgeInv
    <3> QED
      BY <2>3, <3>1, <3>2, <3>3, <3>4
         DEF Step, MissShared, Clean, Join, Keep, Answer, Drop, Revoke, RevokeFails, SetRedis,
             caches
  <2>4. ASSUME NEW m \in Managers, Retrieve(m) \/ RetrieveFails(m) \/ Sweep(m) \/ Evict(m)
        PROVE  CacheInv'
    <3>1. redis' = redis /\ \A n \in Managers : cache'[n] \in {cache[n], None}
      BY <2>4 DEF Retrieve, RetrieveFails, Retrieved, Sweep, Evict, TypeInv, TypeOK
    <3> QED
      BY <1>0, <3>1, CachesStay DEF AgeInv
  <2> QED
    BY <2>2, <2>3, <2>4 DEF Next
<1>4. HeldInv'
  <2>0. Kept \in Nat /\ Bound - 1 \in Nat /\ Kept <= Bound - 1
    BY SecretConstantsOK DEF Kept, Bound
  <2>1. ASSUME NEW r \in Requests, Begin(r) \/ Step(r), NEW q \in Requests, q # r
        PROVE  Holds(q)'
    <3>1. pc'[q] = pc[q] /\ value'[q] = value[q] /\ (q \in late <=> q \in late')
      <4>1. CASE Begin(r)
        BY <2>1, <4>1 DEF Begin, Get, Refuse, Store, Delete, Goes, Goto, requests, TypeInv, TypeOK
      <4>2. CASE Step(r)
        BY <2>1, <4>2
           DEF Step, TakeShared, Echo, MissShared, Clean, Join, Keep, Answer, Write, WriteFails,
               Share, Drop, Revoke, RevokeFails, Ends, Goes, Goto, TypeInv, TypeOK
      <4> QED
        BY <2>1, <4>1, <4>2
    <3> QED
      BY <1>0, <3>1, HeldStays DEF AgeInv
  <2>2. ASSUME NEW r \in Requests, Begin(r) \/ Step(r) PROVE Holds(r)'
    <3> DEFINE m == ManagerOf[r]
    <3>0. m \in Managers /\ Lag(r)' \in Nat /\ Lag(r) \in {0, 1} /\ Holds(r)
      BY SecretConstantsOK DEF Lag, AgeInv, HeldInv
    <3>1. CASE Get(r)
      <4>1. pc'[r] = "redis" \/ (pc'[r] = "answer" /\ Valid(cache[m]) /\ value'[r] = cache[m].value)
        BY <3>1 DEF Get, Goes, Goto, TypeInv, TypeOK
      <4>2. CASE Valid(cache[m])
        <5>1. cache[m].value \in Values /\ cache[m].value \in Found /\ cache[m].life \in Nat
          BY <3>0, <4>2, SecretConstantsOK DEF Valid, TypeInv, TypeOK, Entries, Found
        <5>2. gone[cache[m].value] + cache[m].life <= Bound /\ cache[m].life > 0
          BY <3>0, <4>2 DEF Valid, AgeInv, CacheInv, Lives
        <5>3. gone'[cache[m].value] <= Bound - 1
          BY <1>0, <5>1, <5>2, SecretConstantsOK DEF Ageless, TypeInv, TypeOK, Bound
        <5> QED
          BY <2>0, <3>0, <4>1, <5>1, <5>3, SecretConstantsOK DEF Holds, TypeInv, TypeOK
      <4> QED
        BY <4>1, <4>2 DEF Holds
    <3>2. CASE Refuse(r)
      BY <1>0, <3>2, HeldStays DEF AgeInv, Refuse, requests
    <3>3. CASE TakeShared(r)
      <4>1. redis.value \in Found /\ redis.life \in Nat
        BY <3>3, SecretConstantsOK DEF TakeShared, Valid, TypeInv, TypeOK, Entries, Found
      <4>2. gone[redis.value] + redis.life <= Bound /\ redis.life > 0
        BY <3>3 DEF TakeShared, Valid, AgeInv, CacheInv, Lives
      <4>3. gone'[redis.value] <= Bound - 1
        BY <1>0, <4>1, <4>2, SecretConstantsOK DEF Ageless, TypeInv, TypeOK, Bound
      <4>4. pc'[r] = "echo" /\ value'[r] = redis.value
        BY <3>3 DEF TakeShared, Goes, Goto, TypeInv, TypeOK
      <4> QED
        BY <2>0, <3>0, <4>1, <4>3, <4>4 DEF Holds, TypeInv, TypeOK
    <3>4. CASE Echo(r) \/ Keep(r)
      <4>1. /\ pc'[r] = "answer" /\ value' = value /\ late' = late
            /\ ((pc[r] = "echo" /\ value[r] # None) \/ pc[r] = "keep")
        BY <3>4, SecretConstantsOK DEF Echo, Keep, Goto, TypeInv, TypeOK, Sane
      <4>2. Lag(r)' = Lag(r) /\ value[r] \in Found /\ gone'[value[r]] <= gone[value[r]]
            /\ gone[value[r]] \in Nat /\ gone'[value[r]] \in Nat
        BY <1>0, <4>1 DEF Lag, Ageless, TypeInv, TypeOK
      <4> QED
        BY <2>0, <3>0, <4>1, <4>2 DEF Holds
    <3>5. CASE Join(r)
      <4>1. pc'[r] = "wait" \/ (/\ pc'[r] = "keep" /\ value'[r] = active[m].value
                                /\ active[m] # None /\ active[m].done)
        BY <3>5 DEF Join, Goes, Goto, TypeInv, TypeOK
      <4>2. CASE active[m] # None /\ active[m].done
        <5>1. active[m].value \in Found /\ active[m].age \in Nat /\ active[m].age <= Kept
          BY <3>0, <4>2, SecretConstantsOK DEF TypeInv, TypeOK, Flights, Kept
        <5>2. gone[active[m].value] <= active[m].age
          BY <3>0, <4>2 DEF AgeInv, FlightInv
        <5>3. gone'[active[m].value] <= Kept /\ gone'[active[m].value] \in Nat
          BY <1>0, <2>0, <5>1, <5>2 DEF Ageless, TypeInv, TypeOK
        <5> QED
          BY <2>0, <3>0, <4>1, <5>3 DEF Holds
      <4> QED
        BY <4>1, <4>2 DEF Holds
    <3>6. CASE pc'[r] \notin {"keep", "echo", "answer"}
      BY <3>6 DEF Holds
    <3> QED
      BY <2>2, <3>1, <3>2, <3>3, <3>4, <3>5, <3>6
         DEF Begin, Step, Store, Delete, MissShared, Clean, Answer, Write, WriteFails, Share, Drop,
             Revoke, RevokeFails, Ends, Goes, Goto, TypeInv, TypeOK
  <2>3. ASSUME NEW m \in Managers, Retrieve(m) \/ RetrieveFails(m) PROVE HeldInv'
    <3>1. PICK v \in Found : Retrieved(m, v) /\ gone'[v] = 0
      BY <2>3, FoundIsFresh DEF AgeInv
    <3>2. SUFFICES ASSUME NEW r \in Requests PROVE Holds(r)'
      BY DEF HeldInv
    <3>3. CASE ManagerOf[r] = m /\ pc[r] = "wait"
      <4>1. pc'[r] = "keep" /\ value'[r] = v
        BY <3>1, <3>3 DEF Retrieved
      <4> QED
        BY <2>0, <3>1, <4>1 DEF Holds, Lag
    <3>4. CASE ~(ManagerOf[r] = m /\ pc[r] = "wait")
      <4>1. pc'[r] = pc[r] /\ value'[r] = value[r] /\ late' = late
        BY <3>1, <3>4 DEF Retrieved
      <4> QED
        BY <1>0, <4>1, HeldStays DEF AgeInv
    <3> QED
      BY <3>3, <3>4
  <2>4. ASSUME NEW m \in Managers, Sweep(m) \/ Evict(m) PROVE HeldInv'
    <3>1. UNCHANGED <<pc, value, late>>
      BY <2>4 DEF Sweep, Evict, requests
    <3> QED
      BY <1>0, <3>1, HeldStays DEF AgeInv, HeldInv
  <2>5. ASSUME NEW r \in Requests, Begin(r) \/ Step(r) PROVE HeldInv'
    BY <2>1, <2>2, <2>5 DEF HeldInv
  <2> QED
    BY <2>3, <2>4, <2>5 DEF Next
<1> QED
  BY <1>1, <1>2, <1>3, <1>4 DEF AgeInv

LEMMA TickStep ==
  ASSUME TypeInv, TypeInv', AgeInv, Tick
  PROVE  AgeInv'
<1>0. \A v \in Found : gone[v] \in Nat /\ gone'[v] \in Nat /\ gone'[v] <= gone[v] + 1
  BY DEF Tick, TypeInv, TypeOK
<1>1. SourceInv'
  BY DEF Tick, SourceInv, Readable, Reads
<1>2. FlightInv'
  <2> SUFFICES ASSUME NEW m \in Managers, active'[m] # None, active'[m].done
               PROVE  gone'[active'[m].value] <= active'[m].age
    BY DEF FlightInv
  <2>1. active[m] # None /\ active[m] \in Flights /\ active'[m] = [active[m] EXCEPT !.age = @ + 1]
    BY DEF Tick, TypeInv, TypeOK
  <2>2. /\ active[m].value \in Found /\ active[m].age \in Nat
        /\ active'[m].value = active[m].value
        /\ active'[m].age = active[m].age + 1
    BY <2>1, SecretConstantsOK DEF Flights
  <2>3. active[m].done
    BY <2>1 DEF Flights
  <2> QED
    BY <1>0, <2>1, <2>2, <2>3 DEF AgeInv, FlightInv
<1>3. ASSUME NEW e \in Entries \cup {None}, Lives(e)
      PROVE  Older(e) # None /\ Older(e).life > 0 =>
               gone'[Older(e).value] + Older(e).life <= Bound
  <2> SUFFICES ASSUME Older(e) # None, Older(e).life > 0
               PROVE  gone'[Older(e).value] + Older(e).life <= Bound
    OBVIOUS
  <2>1. e # None /\ e \in Entries
    BY DEF Older
  <2>2. e.value \in Found /\ e.life \in Nat
    BY <2>1, SecretConstantsOK DEF Entries, Found
  <2>3. e.life > 0 /\ Older(e).value = e.value /\ Older(e).life = e.life - 1
    BY <2>1, <2>2 DEF Older, Entries
  <2> QED
    BY <1>0, <1>3, <2>1, <2>2, <2>3, SecretConstantsOK DEF Lives, Bound
<1>4. CacheInv'
  BY <1>3 DEF Tick, AgeInv, CacheInv, Lives, TypeInv, TypeOK
<1>5. HeldInv'
  <2> SUFFICES ASSUME NEW r \in Requests PROVE Holds(r)'
    BY DEF HeldInv
  <2>1. pc' = pc /\ value' = value /\ Lag(r) = 0 /\ (pc[r] # "idle" => Lag(r)' = 1)
    BY DEF Tick, Lag
  <2>2. Kept \in Nat /\ Bound - 1 \in Nat /\ value[r] \in Found
    BY SecretConstantsOK DEF Kept, Bound, TypeInv, TypeOK
  <2> QED
    BY <1>0, <2>1, <2>2 DEF AgeInv, HeldInv, Holds
<1> QED
  BY <1>1, <1>2, <1>4, <1>5 DEF AgeInv

-----------------------------------------------------------------------------
(* The theorems. *)

LEMMA Stutter == ASSUME TypeInv, AgeInv, UNCHANGED vars PROVE TypeInv' /\ AgeInv'
BY DEF vars, caches, requests, TypeInv, TypeOK, Sane, Swept, AgeInv, SourceInv, Readable, Reads,
       FlightInv, CacheInv, Lives, HeldInv, Holds, Lag

THEOREM Inductive == Spec => [](TypeInv /\ AgeInv)
<1>1. TypeInv /\ AgeInv /\ [Next]_vars => (TypeInv /\ AgeInv)'
  BY TypeStep, AgeStep, TickStep, Stutter
<1> QED
  BY <1>1, TypeInit, AgeInit, PTL DEF Spec

\* The state is well typed; in particular a retrieval is never remembered for longer
\* than _max_request_age and a _cleanup_interval.
THEOREM TypeCorrect == Spec => []TypeOK
<1>1. TypeInv => TypeOK
  BY DEF TypeInv
<1> QED
  BY <1>1, Inductive, PTL

\* No answer of get_secret is older than Bound, however many managers copy the secret
\* from each other through Redis.
THEOREM StaleIsAlwaysBounded == Spec => []StaleIsBounded
<1>1. TypeInv /\ AgeInv => StaleIsBounded
  <2> SUFFICES ASSUME TypeInv, AgeInv, NEW r \in Requests, pc[r] = "answer", value[r] # None
               PROVE  gone[value[r]] <= Bound
    BY DEF StaleIsBounded
  <2>1. gone[value[r]] <= Bound - 1 + Lag(r) /\ value[r] \in Found
    BY DEF AgeInv, HeldInv, Holds, TypeInv, TypeOK
  <2> QED
    BY <2>1, SecretConstantsOK DEF Lag, Bound, TypeInv, TypeOK
<1> QED
  BY <1>1, Inductive, PTL

\* get_secret finds nothing only if there was nothing to be found while the last
\* retrieval was remembered.
THEOREM MissesAreAlwaysBounded == Spec => []MissesAreBounded
<1>1. TypeInv /\ AgeInv => MissesAreBounded
  <2> SUFFICES ASSUME TypeInv, AgeInv, NEW r \in Requests, pc[r] = "answer", value[r] = None
               PROVE  gone[None] <= MaxAge + Interval + 1
    BY DEF MissesAreBounded
  <2>1. gone[None] <= Kept + Lag(r)
    BY DEF AgeInv, HeldInv, Holds
  <2> QED
    BY <2>1, SecretConstantsOK DEF Lag, Kept, Found, TypeInv, TypeOK
<1> QED
  BY <1>1, Inductive, PTL
=============================================================================
