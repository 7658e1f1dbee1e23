------------------------------- MODULE Secrets -------------------------------
(***************************************************************************)
(* One secret of one tenant as TenantSecretsManager keeps it: in Google's  *)
(* secret storage, in Redis, in the cache of each manager object, and in   *)
(* the results its SingleflightManager remembers.                          *)
(*                                                                         *)
(* Each request gets, stores or deletes it through its manager, again and  *)
(* again.  What a manager does between two awaits blocks its event loop,   *)
(* so that the requests of one manager interleave only where a retrieval   *)
(* is awaited; remote calls of different managers interleave freely.       *)
(*                                                                         *)
(* Time is counted in ticks.  Remote calls have timeouts, and a unit is so *)
(* long that a request under way at one tick has ended by the next.  Ages  *)
(* and lives are counted so as never to cut a real one short.  The storage *)
(* is in production mode; other secrets show only by evicting this one.    *)
(***************************************************************************)
EXTENDS Naturals

CONSTANTS
  Managers,    \* TenantSecretsManager objects
  Requests,    \* calls of their methods that may be under way together
  ManagerOf,   \* the manager a request calls
  Values,      \* values the secret may have
  CacheTTL,    \* _cache_ttl
  MaxAge,      \* _max_request_age of a singleflight entry
  Interval,    \* _cleanup_interval
  Fails,       \* what may be out of reach: "storage", "redis"
  None         \* no value, no entry

ASSUME SecretConstantsOK ==
  /\ ManagerOf \in [Requests -> Managers]
  /\ CacheTTL \in Nat /\ MaxAge \in Nat \ {0, 1} /\ Interval \in Nat \ {0}
  /\ None \notin Values \cup Nat

VARIABLES
  storage,     \* the value in the secret storage
  localStore,  \* _local_store of each manager's CredentialManager
  cache,       \* the secret's entry in each manager's _cache
  redis,       \* its entry in Redis
  active,      \* its entry in _active_requests of each manager
  wakes,       \* ticks until each manager's cleanup task wakes up, once it is started
  pc,          \* what each request does next
  value,       \* what it stores or has got
  late,        \* the requests that have seen a tick
  gone         \* history: ticks since each value, or none, was last to be read

caches == <<cache, redis, active>>
requests == <<pc, value, late>>
vars == <<storage, localStore, caches, wakes, requests, gone>>

\* How long a value that is gone may still be given, in ticks: a retrieval is
\* remembered, its result is kept in the caches, and two calls pass it on.
Bound == MaxAge + Interval + CacheTTL + 2

Found == Values \cup {None}

\* An entry is valid while it has some life; in the last unit it may have expired already.
Entries == [value: Values, life: 0 .. CacheTTL + 1]

\* A retrieval that has ended has its result.
Flights == [age: 0 .. MaxAge + Interval, done: BOOLEAN, value: Found]

\* The steps of a request that follow each other without an await.
Blocking == {"redis", "echo", "clean", "write", "share", "drop", "revoke"}
Steps == Blocking \cup {"idle", "join", "wait", "keep", "answer"}

TypeOK ==
  /\ storage \in Found
  /\ localStore \in [Managers -> Found]
  /\ cache \in [Managers -> Entries \cup {None}]
  /\ redis \in Entries \cup {None}
  /\ active \in [Managers -> Flights \cup {None}]
  /\ wakes \in [Managers -> 0 .. Interval \cup {None}]
  /\ pc \in [Requests -> Steps]
  /\ value \in [Requests -> Found]
  /\ late \subseteq Requests
  /\ gone \in [Found -> 0 .. Bound + 1]

Init ==
  /\ storage = None
  /\ localStore = [m \in Managers |-> None]
  /\ cache = [m \in Managers |-> None]
  /\ redis = None
  /\ active = [m \in Managers |-> None]
  /\ wakes = [m \in Managers |-> None]
  /\ pc = [r \in Requests |-> "idle"]
  /\ value = [r \in Requests |-> None]
  /\ late = {}
  /\ gone = [v \in Found |-> IF v = None THEN 0 ELSE Bound + 1]

-----------------------------------------------------------------------------
\* The event loops.

\* No request keeps the loop of m busy.
Free(m) == \A r \in Requests : ManagerOf[r] = m => pc[r] \notin Blocking

Goto(r, step) == pc' = [pc EXCEPT ![r] = step]

Goes(r, step, v) == Goto(r, step) /\ value' = [value EXCEPT ![r] = v]

\* A request returns and forgets what it had.
Ends(r) == Goes(r, "idle", None) /\ late' = late \ {r}

\* A call of Redis that sets its entry to e, or fails.
SetRedis(e) == redis' = e \/ ("redis" \in Fails /\ UNCHANGED redis)

-----------------------------------------------------------------------------
\* get_secret.

Valid(e) == e # None /\ e.life > 0

\* _start_cleanup_task
StartCleanup(m) == wakes' = [wakes EXCEPT ![m] = IF @ = None THEN Interval ELSE @]

\* A look at the manager's own cache; an expired entry is removed.
Get(r) ==
  LET m == ManagerOf[r] IN
  /\ pc[r] = "idle" /\ Free(m)
  /\ StartCleanup(m)
  /\ IF Valid(cache[m])
       THEN Goes(r, "answer", cache[m].value) /\ UNCHANGED cache
       ELSE Goto(r, "redis") /\ cache' = [cache EXCEPT ![m] = None] /\ UNCHANGED value
  /\ UNCHANGED <<storage, localStore, redis, active, late, gone>>

\* The guard of tenant isolation and its rate limit may refuse: the answer is
\* None, and only the cleanup task was started.
Refuse(r) ==
  /\ pc[r] = "idle" /\ Free(ManagerOf[r])
  /\ StartCleanup(ManagerOf[r])
  /\ UNCHANGED <<storage, localStore, caches, requests, gone>>

\* The entry Redis has is kept here too, for the life it has left.
TakeShared(r) ==
  /\ pc[r] = "redis" /\ Valid(redis)
  /\ cache' = [cache EXCEPT ![ManagerOf[r]] = redis]
  /\ Goes(r, "echo", redis.value)
  /\ UNCHANGED <<storage, localStore, redis, active, wakes, late, gone>>

\* Mutant of Echo: the entry is written as a new one.
Echo_Renews(r) ==
  /\ pc[r] = "echo"
  /\ SetRedis([value |-> value[r], life |-> CacheTTL + 1])
  /\ Goto(r, "answer")
  /\ UNCHANGED <<storage, localStore, cache, active, wakes, value, late, gone>>

\* _set_cache_entry writes that entry to Redis again.
Echo(r) ==
  /\ pc[r] = "echo"
  /\ SetRedis(cache[ManagerOf[r]])
  /\ Goto(r, "answer")
  /\ UNCHANGED <<storage, localStore, cache, active, wakes, value, late, gone>>

\* Redis has no entry, one that has expired, or is out of reach.
MissShared(r) ==
  /\ pc[r] = "redis"
  /\ \/ (redis = None \/ "redis" \in Fails) /\ Goto(r, "join")
     \/ redis # None /\ redis.life <= 1 /\ Goto(r, "clean")
  /\ UNCHANGED <<storage, localStore, caches, wakes, value, late, gone>>

\* The expired entry is deleted, or whatever is there by now.
Clean(r) ==
  /\ pc[r] = "clean"
  /\ SetRedis(None)
  /\ Goto(r, "join")
  /\ UNCHANGED <<storage, localStore, cache, active, wakes, value, late, gone>>

\* Mutant of Join: a retrieval that has ended is waited for like any other.
Join_Ended(r) ==
  LET m == ManagerOf[r] IN
  /\ pc[r] = "join" /\ Free(m)
  /\ active' = [active EXCEPT ![m] =
                  IF @ = None THEN [age |-> 0, done |-> FALSE, value |-> None] ELSE @]
  /\ Goto(r, "wait")
  /\ UNCHANGED <<storage, localStore, cache, redis, wakes, value, late, gone>>

\* get_or_create: a retrieval that is remembered is joined, and gives its result
\* at once if it has ended; otherwise a new one is begun.
Join(r) ==
  LET m == ManagerOf[r] IN
  /\ pc[r] = "join" /\ Free(m)
  /\ \/ /\ active[m] = None
        /\ active' = [active EXCEPT ![m] = [age |-> 0, done |-> FALSE, value |-> None]]
        /\ Goto(r, "wait") /\ UNCHANGED value
     \/ /\ active[m] # None /\ ~active[m].done
        /\ Goto(r, "wait") /\ UNCHANGED <<active, value>>
     \/ /\ active[m] # None /\ active[m].done
        /\ Goes(r, "keep", active[m].value) /\ UNCHANGED active
  /\ UNCHANGED <<storage, localStore, cache, redis, wakes, late, gone>>

\* What CredentialManager.get_secret of m finds: it asks the storage first.
Reads(m) == IF storage = None THEN localStore[m] ELSE storage

\* The retrieval of m ends with v: all who wait for it are told, and its entry stays.
Retrieved(m, v) ==
  LET told == {r \in Requests : ManagerOf[r] = m /\ pc[r] = "wait"} IN
  /\ active[m] # None /\ ~active[m].done /\ Free(m)
  /\ active' = [active EXCEPT ![m].done = TRUE, ![m].value = v]
  /\ pc' = [r \in Requests |-> IF r \in told THEN "keep" ELSE pc[r]]
  /\ value' = [r \in Requests |-> IF r \in told THEN v ELSE value[r]]
  /\ UNCHANGED <<storage, localStore, cache, redis, wakes, late>>

Retrieve(m) == Retrieved(m, Reads(m)) /\ UNCHANGED gone

\* An error of the storage is taken for an absent secret.
RetrieveFails(m) ==
  /\ "storage" \in Fails
  /\ Retrieved(m, localStore[m])
  /\ gone' = [gone EXCEPT ![localStore[m]] = 0]

\* _set_cached_secret: into the cache, then into Redis.
Fresh(v) == [value |-> v, life |-> CacheTTL + 1]

Keep(r) ==
  LET m == ManagerOf[r] IN
  /\ pc[r] = "keep" /\ Free(m)
  /\ IF value[r] = None
       THEN UNCHANGED <<cache, redis>>
       ELSE cache' = [cache EXCEPT ![m] = Fresh(value[r])] /\ SetRedis(Fresh(value[r]))
  /\ Goto(r, "answer")
  /\ UNCHANGED <<storage, localStore, active, wakes, value, late, gone>>

Answer(r) ==
  /\ pc[r] = "answer"
  /\ Ends(r)
  /\ UNCHANGED <<storage, localStore, caches, wakes, gone>>

-----------------------------------------------------------------------------
\* store_secret and delete_secret.  A store that the guard refuses does nothing.

\* Values that can be read, before and after a step, are not gone.
Readable(v) == \E m \in Managers : Reads(m) = v
Seen == gone' = [v \in Found |-> IF Readable(v) \/ Readable(v)' THEN 0 ELSE gone[v]]

Store(r) ==
  /\ pc[r] = "idle" /\ Free(ManagerOf[r])
  /\ \E v \in Values : Goes(r, "write", v)
  /\ UNCHANGED <<storage, localStore, caches, wakes, late, gone>>

Write(r) ==
  /\ pc[r] = "write"
  /\ storage' = value[r]
  /\ cache' = [cache EXCEPT ![ManagerOf[r]] = Fresh(value[r])]
  /\ Goto(r, "share")
  /\ UNCHANGED <<localStore, redis, active, wakes, value, late>>
  /\ Seen

\* CredentialManager.store_secret keeps it in _local_store instead, and tells nobody.
WriteFails(r) ==
  /\ pc[r] = "write" /\ "storage" \in Fails
  /\ localStore' = [localStore EXCEPT ![ManagerOf[r]] = value[r]]
  /\ cache' = [cache EXCEPT ![ManagerOf[r]] = Fresh(value[r])]
  /\ Goto(r, "share")
  /\ UNCHANGED <<storage, redis, active, wakes, value, late>>
  /\ gone' = [v \in Found |-> IF v = value[r] \/ Readable(v) THEN 0 ELSE gone[v]]

Share(r) ==
  /\ pc[r] = "share"
  /\ SetRedis(cache[ManagerOf[r]])
  /\ Goto(r, "drop")
  /\ UNCHANGED <<storage, localStore, cache, active, wakes, value, late, gone>>

\* _invalidate_redis_cache; the answer is True.
Drop(r) ==
  /\ pc[r] = "drop"
  /\ SetRedis(None)
  /\ Ends(r)
  /\ UNCHANGED <<storage, localStore, cache, active, wakes, gone>>

\* The caches are cleared before the storage.
Delete(r) ==
  LET m == ManagerOf[r] IN
  /\ pc[r] = "idle" /\ Free(m)
  /\ cache' = [cache EXCEPT ![m] = None]
  /\ SetRedis(None)
  /\ Goto(r, "revoke")
  /\ UNCHANGED <<storage, localStore, active, wakes, value, late, gone>>

Revoke(r) ==
  /\ pc[r] = "revoke" /\ storage # None
  /\ storage' = None
  /\ Ends(r)
  /\ UNCHANGED <<localStore, caches, wakes>>
  /\ Seen

\* A storage without such a secret, or out of reach: the local store is cleared.
RevokeFails(r) ==
  /\ pc[r] = "revoke" /\ (storage = None \/ "storage" \in Fails)
  /\ localStore' = [localStore EXCEPT ![ManagerOf[r]] = None]
  /\ Ends(r)
  /\ UNCHANGED <<storage, caches, wakes>>
  /\ Seen

-----------------------------------------------------------------------------
\* Time.

\* Mutant of Sweep: what has ended is left to its caller.
Sweep_OnlyRunning(m) ==
  /\ wakes[m] = 0 /\ Free(m)
  /\ wakes' = [wakes EXCEPT ![m] = Interval]
  /\ active' = [active EXCEPT ![m] =
                  IF @ # None /\ @.age >= MaxAge /\ ~@.done THEN None ELSE @]
  /\ UNCHANGED <<storage, localStore, cache, redis, requests, gone>>

\* _cleanup_expired_requests drops what is too old, whether it has ended or not.
Sweep(m) ==
  /\ wakes[m] = 0 /\ Free(m)
  /\ wakes' = [wakes EXCEPT ![m] = Interval]
  /\ \/ (active[m] # None => active[m].age <= MaxAge) /\ UNCHANGED active
     \/ /\ active[m] # None /\ active[m].age >= MaxAge
        /\ active' = [active EXCEPT ![m] = None]
  /\ UNCHANGED <<storage, localStore, cache, redis, requests, gone>>

\* The entry expires, or makes room for another secret's.
Evict(m) ==
  /\ cache[m] # None /\ Free(m)
  /\ cache' = [cache EXCEPT ![m] = None]
  /\ UNCHANGED <<storage, localStore, redis, active, wakes, requests, gone>>

Older(e) == IF e = None \/ e.life = 0 THEN e ELSE [e EXCEPT !.life = @ - 1]

\* Requests that have seen a tick, and cleanup tasks, are not late for the next one.
Tick ==
  /\ late = {}
  /\ \A m \in Managers : wakes[m] # 0
  /\ late' = {r \in Requests : pc[r] # "idle"}
  /\ cache' = [m \in Managers |-> Older(cache[m])]
  /\ redis' = Older(redis)
  /\ active' = [m \in Managers |->
                  IF active[m] = None THEN None ELSE [active[m] EXCEPT !.age = @ + 1]]
  /\ wakes' = [m \in Managers |-> IF wakes[m] = None THEN None ELSE wakes[m] - 1]
  /\ gone' = [v \in Found |-> IF Readable(v) THEN 0
                              ELSE IF gone[v] > Bound THEN gone[v] ELSE gone[v] + 1]
  /\ UNCHANGED <<storage, localStore, pc, value>>

-----------------------------------------------------------------------------
Begin(r) == Get(r) \/ Refuse(r) \/ Store(r) \/ Delete(r)

Step(r) ==
  \/ TakeShared(r) \/ Echo(r) \/ MissShared(r) \/ Clean(r) \/ Join(r) \/ Keep(r) \/ Answer(r)
  \/ Write(r) \/ WriteFails(r) \/ Share(r) \/ Drop(r) \/ Revoke(r) \/ RevokeFails(r)

Next ==
  \/ \E r \in Requests : Begin(r) \/ Step(r)
  \/ \E m \in Managers : Retrieve(m) \/ RetrieveFails(m) \/ Sweep(m) \/ Evict(m)
  \/ Tick

\* Remote calls return, and an event loop comes round to whoever is ready.
Spec ==
  /\ Init /\ [][Next]_vars
  /\ \A r \in Requests : SF_vars(Step(r))
  /\ \A m \in Managers : SF_vars(Retrieve(m))

-----------------------------------------------------------------------------
\* Properties.

\* What get_secret answers could be read at its source not longer than Bound ago,
\* through whatever deletions, races of managers and errors of Redis: an answer that
\* is passed on from cache to cache has no new life.
StaleIsBounded ==
  \A r \in Requests : pc[r] = "answer" /\ value[r] # None => gone[value[r]] <= Bound

\* get_secret finds nothing only if a manager could have found nothing at the
\* source, not longer ago than a retrieval is remembered; no value that is stored
\* since then is hidden for longer by the result the singleflight keeps.
MissesAreBounded ==
  \A r \in Requests : pc[r] = "answer" /\ value[r] = None => gone[None] <= MaxAge + Interval + 1

\* Everybody who waits for a retrieval is told of its result, whoever began it.
EventuallyTold == \A r \in Requests : pc[r] = "wait" ~> pc[r] = "idle"
=============================================================================
