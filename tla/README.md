# Etherion in TLA+

Etherion runs goals: a client submits one over GraphQL, a Celery worker plans it, has a team
of language-model specialists carry it out with tools, bills it and reports its status live.
This directory holds TLA+ models of that machinery, TLC instances that check them and proofs
that TLAPS checks. Paths below are relative to the repository (`src/...` in `PROJECT.json` is
its root).

## 1. The system

| component | state it keeps | operations | who it talks to |
|---|---|---|---|
| GraphQL API: `executeGoal`, `cancelJob` (`graphql_schema/mutations.py`) | the `Job` row | commit a QUEUED row, send the task; raise the cancel flag, commit CANCELLED, publish | database, broker, Redis |
| Celery worker (`core/celery.py`, `goal_orchestrator.py` 740-810) | per process: `_CELERY_WORKER_LOOP`; per thread: the task and its acknowledgement | receive, take the event loop, run, retry, acknowledge | broker, goal orchestrator |
| Goal orchestrator (`goal_orchestrator.py` 250-735) | the Job row, the run's result | RUNNING, prompt screen, four looks at the cancel flag, dual search, team tasks, charge, terminal status | database, Redis, team orchestrator |
| Job row (`database/models/job.py`) | status, timestamps, output | `update_status`, `set_output_data` | - |
| Redis client (`core/redis.py`) | `_local_bus` (one asyncio queue per channel), flags, ledgers | publish, subscribe, purge, get / set / lpush | Redis |
| Status stream (`graphql_schema/subscriptions.py`) | one generator per client | open, yield, close | Redis client |
| Usage ledger (`services/pricing/ledger.py`) | a list of usage events per job | append | Redis |
| Checklist engine, specialists (`services/orchestration/*`) | the checklist and its items, failure counters | plan, run an item sequentially or in parallel, re-plan, finish | models, tools |
| Approval gate (`services/validation_gate.py`) | proposals: PENDING, APPROVED, ... | propose, approve, reject, execute | database, tools |
| Payments and credits (`stripe_webhook` in `etherion_ai/app.py`, `services/pricing/credit_manager.py`) | `stripe_event`, `credit_ledger`, balance row, its Redis mirror | look up the event, allocate, log, record | Stripe, database, Redis |
| MCP tools (`tools/mcp/base_mcp_tool.py`) | per object: breaker, token bucket; in Redis: the cancel flag of the job, and a daily counter per tenant and vendor that nothing compares with its limit | guarded call with retries | vendors, Redis |
| Ingestion (`admin_ingest_bytes` in `app.py`, `core/tasks.py`, `services/multimodal_ingestion_service.py`) | a status key, rows of `multimodal_docs` | accept, download, parse, insert part by part, verdict | broker, Redis, object store, BigQuery |
| Accounts (`auth/service.py`) | `tenant`, `user`, `tenantinvite` | password signup, OAuth callback, login | database, providers |
| Tenant secrets (`utils/secrets_manager.py`, `security/credential_manager.py`) | per object: a cache, the retrievals it remembers, a local store; in Redis: a shared cache; the secret storage | get, store, delete; sweep and expiry | Google Secret Manager, Redis, every tool and the API |
| Behaviour monitor (`services/behavior_monitor.py`) | incident counters with expiry | record, look up | Redis |
| Search, storage, prompt screening, CLI, terminal UI, migrations | rows, objects | see `PROJECT.json` | - |

Everything jobs do below the API interacts through four shared things: the Job row, the broker's
queue, the cancel flag and the Redis channels of a job. Ingestion shares the broker, Redis and a
table, signups share four tables, tool calls share the cancel flag with the API. No lock and no
conditional update protects any of them. What is hard is therefore

- *two workers on one job*: acknowledgement is late (`task_acks_late`), so a slow or dead
  worker has its message executed again from the start;
- *threads of one process*: workers run with `--pool=threads` and share one asyncio loop
  through a global that is read in one step and stored in another;
- *cancelling a run that is under way*: the API writes a row it read several awaits before,
  the worker writes statuses without looking at the row, and the flag may expire;
- *one step of several failing*: the charge, the row, the thread message and the publication
  of a run are separate steps, most in a `try` that swallows the error;
- *idempotency by a row that is written last*: a payment is credited before, and apart from,
  the row that marks its event as handled, and Stripe repeats what was not answered with 200;
- *publications nobody replays*, and streams of one process that share a queue;
- *a request in several transactions*: a signup looks up email, invite and subdomain, and
  commits tenant, invite and user apart from each other, while another request does the same;
- *four copies of one secret* (storage, Redis, a cache and a remembered retrieval per object),
  each cleared, if at all, in a call of its own, while other objects write theirs back;
- *a breaker, a bucket and retries on one path*, each with its own idea of what a failed or
  repeated call counts, and a cancel flag that only the first part of the path looks at.

Every hazard is listed at its line in `PROJECT.json`, with the properties that cover it.

What makes each component correct:

- jobs: an accepted job is never lost and reaches a terminal status; it is billed once per
  delivery; COMPLETED means billed and stored; a stop that a run could still see is obeyed;
  what subscribers heard last is what the row says;
- streams: a client gets the publications since it subscribed, in order, once, and its stream
  ends with the job;
- payments: an event is recorded once and credited once; what Stripe was told is done is on
  record; the balance is the sum of the awards and the mirror follows it;
- tools: a breaker is open only behind failures, a stopped job begins no more attempts than the call
  under way has left, a call is answered, and the daily quotas are kept (they are not, see
  `QuotaIgnored`);
- ingestion: COMPLETED means that the table holds the document, once and whole, FAILED that it
  holds nothing; an accepted upload is executed;
- accounts: one account per email, one per invite, no tenant without users, tokens that name
  the tenant of their user, nobody moved between tenants;
- secrets: what is answered is, or was until shortly before, what the storage had; what is
  deleted is gone and what is stored is stored; everybody who waits for a retrieval is told.

## 2. Modules

| module | models | |
|---|---|---|
| `JobFlow` | abstract specification: QUEUED, RUNNING, one terminal status for good | from the flow in `task-lifecycle.md` |
| `JobLifecycle` | API calls, broker, worker threads, run, ledger, row, flag, channel | the core |
| `JobLifecycleProofs`, `JobCustodyProofs` | theorems about `JobLifecycle`: types, billing and stopping; custody of messages, the refinement of `JobFlow` | |
| `JobStream`, `JobStreamProofs` | publish, subscribe and the stream of one job's channel; theorems | |
| `Payments`, `PaymentsProofs` | the Stripe webhook and `CreditManager.allocate`; theorems | |
| `ToolCall`, `ToolCallProofs` | `EnhancedMCPTool.execute`: cancel flag, bucket, breaker, retries, and what quotas come to; theorems | |
| `Ingest`, `IngestProofs` | background ingestion from the upload to its verdict; theorems | |
| `Signup`, `SignupProofs` | `password_signup` and `handle_oauth_callback`; theorems | |
| `Secrets`, `SecretsProofs` | `TenantSecretsManager` with its singleflight and caches; theorems | |
| `MC...` | the instances TLC checks | |

### JobLifecycle

One action is one commit, one Redis call or one publication: the points between which two
actors can interleave. The variables are `row` (status, are the two timestamps and the output
set), `flag` (`job_cancel_<id>`), `call` and `cancel` (the two API calls under way; `cancel`
remembers the status the call read), `queue` (copies of each message), the thread's `pc`,
`msg`, `unacked`, `loop` and `verdict`, the process's `loopOf`, `pub` (last status on the
channel), `ledger`, `posts`. `stopped` is a history variable: the threads which had a look at
the flag ahead of them when it was raised.

| code | actions |
|---|---|
| `executeGoal` from its commit on | `SubmitGoal`, `Dispatch`, `DispatchFails` |
| `cancelJob` | `CancelRead`, `CancelFlag`, `CancelCommit`, `CancelPublish` |
| `execute_goal_celery_task` | `Receive`, `TakeLoop`, `StoreLoop`, `TraceStart`, `TraceEnd`, `Begin`, `Refuse`, `Ack` |
| `orchestrate_goal_task`, `GoalOrchestrator.execute` | `SetRunning`, `PublishRunning`, `Screen`, `Guard1` to `Guard4`, `RunTasks`, `Charge`, `StopCommit`, `StopPublish`, `FinalCommit`, `FinalPublish` |
| broker, process supervisor, Redis expiry | `Redeliver`, `Crash`, `FlagExpires` |

Decisions a reader should know:

- `UpdateStatus` refuses nothing, as `Job.update_status` refuses nothing: a worker moves a
  CANCELLED row back to RUNNING. That is not a modelling shortcut but what the code does.
- `CancelCommit` writes no status when the call *read* CANCELLED: the session writes only the
  columns that changed.
- The worker's select-update-commit is one step; the API's is two, because awaits of other
  services lie between its read and its commit.
- `Busy` is asyncio's rule that a loop runs one `run_until_complete`; a second one raises
  RuntimeError. In `TraceStart` the code swallows it, in `Begin`/`Refuse` it leaves the task
  and `autoretry_for` sends a copy until `max_retries` were refused.
- The Redis client has `retry_on_timeout`: an LPUSH whose answer timed out is sent again. That
  is the `timeout` event of `Charge`. A PUBLISH that is repeated is one more publication of
  the same status and changes nothing here.
- `Crash` takes a worker process with all its threads, as with the thread pool that
  `celery_worker.py` starts. The setting `task_reject_on_worker_shutdown` of `core/celery.py`
  is not one Celery has; a child of the default process pool that is lost alone has its
  message acknowledged. This is a hazard, not part of the model.
- PENDING_APPROVAL is left out: nothing that `execute()` returns leads to it.
- Storing the output of a success is assumed to succeed with the commit it is part of.

### JobStream

One action is what runs between two awaits of the event loop. `bus` is `_local_bus` of each
API process, reduced to the queue of the one job's channel; `queueOf` is the queue a stream
took; `inbox` is what Redis sent to a forwarder's connection. A message is the number of its
publication, so that loss, repetition and reordering are visible. `Open`, `Listen`, `Forward`,
`Break`, `Close` and `Purge` are `RedisClient.subscribe` and `purge_local_bus`; `Yield`,
`Disconnect` are the loop of `subscribeToJobStatus`. The forwarder is cancelled when the
generator is closed, which the event loop does after the stream is over, not in the same step.

### Payments

One action is one transaction or one Redis call, except that the balance row is selected in one
step and updated in another (`ReadBalance`, `WriteBalance`): nothing locks it. `Deliver` is
Stripe, which posts an event until it is answered with 200; `Check`, `RecordIgnored`,
`AppendUsage` and `Record` are the handler, `ReadBalance` to `IncrMirror` are
`CreditManager.allocate`. `Crash` loses a handler with its process.

- `Record` is refused by the primary key of `stripe_event` when another handler was faster, and
  by the foreign key of `credit_ledger` when the user does not exist (`Strangers`; the code puts
  0 for a missing id). The code's `try` encloses the two `add` calls, which do not fail, and not
  the commit, which does: a refused commit is answered with 500.
- A user id that is not a number (`Unreadable`) makes `int()` raise in all three places; the
  last of them is the `try` around the `add` calls, so the answer is 200 and nothing is written.
- `WriteBalance` is refused by the unique index on (tenant, user) when the row came into being
  in between; a failure of any kind sends the award to the mirror alone.
- The mirror is left in any state a signup's grant may leave it in.
- One tenant is modelled: rows and keys of two tenants have nothing in common.
- `CreditManager.deduct` and `services/credit_manager.py` are called from tests only.

### ToolCall

A caller makes one call after the other on the tool object it made. `Begin` is `execute` up to
the rate limit; `TakeToken`, `TokenTimeout` are `wait_for_token`; `Recheck` is the second look
at the cancel flag and the way past both quotas; `Admit` is what `CircuitBreaker.call` does before
it runs the operation, `Attempt` an attempt of `_execute_with_retry` together with what it makes
of the breaker, `Backoff` the sleep before the next one. `Webhook` is `_quota_increment_or_429`.
`Refill`, `Cool`, `Midnight`, `Stop` and `Expire` are time and users. Neither lock of an object is
held over an await, so that what happens under one is one step.

- *The quotas do nothing.* `get_client()` returns a client of the synchronous `redis` package
  (`redis.py:5`, 78-96), whose pipeline is no asynchronous context manager: `async with` raises at
  `base_mcp_tool.py:634` and 676, the error is swallowed at 652 and 694, and the call goes on
  uncounted. In the webhooks the fallback (`app.py:2092-2104`) has an INCR that takes effect and
  raises, because its result is awaited: `current` is 0 and no 429 is answered. The counters,
  their `EXPIRE` and its truncated time to live are therefore left out of the model, as no call and
  no webhook reads them; `getVendorQuotaRemaining` (`queries.py:447`) shows the vendor's, in which
  webhooks are counted and calls are not. `QuotaHolds` says what the documentation promises, and
  `QuotaIgnored` shows that it is not so.
- A half-open breaker counts successes and not calls it let in (`MayProbe`): with the defaults,
  one half-open call and two successes to close, it never closes. `OpenedForGood` states that,
  as a fact to know and not as one to wish for. Most tools make an object, and with it a
  breaker, per call; `vendor_kb_sync` makes several
  calls on one.
- `Raises` never retries: no exception of the program has the attribute `status` that the
  retry on status codes looks at. Some tools return an error as a value, which `Returns` and
  the breaker take for a success.
- `Interrupted` is a 429 or a lost connection, behind which the vendor may have carried out the
  operation; nothing keeps the retry from doing so again.
- `Expire` ends what the history says of a stop: past the hour of the flag nothing is promised.
- `past`, `missed`, `late` and `ran` are history variables: the callers past their last look at the
  flag when it was raised, those whose last look missed it, the attempts begun since then, and what
  began today of what each quota is there to limit.

### Ingest

The API stores the bytes and sends the message (`Submit`), and only then writes QUEUED
(`Queued`). `Receive`, `Ack`, `Redeliver` and `Crash` are Celery with late acknowledgement, as
in `JobLifecycle`. `Start` to `Fail` are `admin_ingest_gcs_uri_task`; `Parse`, `Part`, `Tear`,
`Totals`, `Images` are the ingestion service. `key` is the status under `admin_ingest:<id>`,
with the delivery that wrote it; `table` the rows of `multimodal_docs`.

- A row is named by its delivery, because the code makes every `doc_id` anew.
- `Part` has the three outcomes of `insert_rows_json`: it is done, it raises (and may be done
  all the same), or it answers row errors, which nothing looks at (`refused`).
- `Tear` is a PDF that breaks off: an exception of `_ingest_pdf_streaming` passes through the
  `except` that was meant for the parser, and the file is ingested once more as one part.
- `total_parts` is 0 in the rows of a stream until its last part; `Totals` is the UPDATE.
- Rows of images are left out; what of them fails is an error noted.

### Signup

One action is what lies between two commits or two awaits of a request. The variables are the
tables (`tenants`, `users`, `spent` invites), what a transaction holds open (`flushed`), and
each request's `pc`, `tenant`, `sub` and `token`. `met` and `broken` are history: which requests
overlapped and which failed half-way.

- A tenant is named by the request that made it, or by the invite into it.
- The database keeps subdomains and provider ids unique: `MakeTenant` and `Flush` wait for an
  open transaction with the same subdomain and fail on a committed one, `Insert` fails on an
  existing provider id. Emails are not unique, and `used_at` is set without a condition.
- `_ensure_ip_table` commits, or rolls back, the session of the callback that calls it while its
  tenant is only flushed (`Address`).
- The refusals of the address check are raised inside a `try` that passes over them; that check
  decides nothing but the 15 seconds of `password_signup`, which may end at its await or at the
  one in `Grant`.

### Secrets

One secret of one tenant. `storage` is the secret storage, `redis` the shared entry, `cache`,
`active` and `localStore` are `_cache`, `_active_requests` and `_local_store` of each manager.
`Get` to `Answer` are `get_secret`: a look into the cache, into Redis (`TakeShared`, `Echo`,
`MissShared`, `Clean`), `get_or_create` of the singleflight (`Join`), the retrieval (`Retrieve`)
and the new cache entry (`Keep`). `Store` to `Drop` are `store_secret`, `Delete` to `RevokeFails`
`delete_secret`; `Sweep` is `_cleanup_expired_requests`, `Evict` expiry and the LRU.

- The only await of the three methods that suspends them is the one for a retrieval; Redis and the
  storage are called synchronously and hold up the event loop (`Free`). Requests of different
  managers, in other threads or processes, interleave at each of those calls.
- `get_or_create` keeps a retrieval that has ended; `Join` gets its result at once. A joiner that
  waits in the lock of the singleflight is one that has not done its `Join` yet.
- `Echo` writes an entry back to Redis that another manager may have deleted in between; it keeps
  the entry's `expires_at`, on which `StaleIsBounded` rests.
- Any error of the storage is taken for "no such secret" on reading, and on writing sends the value
  to the memory of one object (`RetrieveFails`, `WriteFails`, `RevokeFails`).
- Time goes by in `Tick`s of, say, five minutes, the cleanup's interval. A call lasts less than one
  (the clients of Redis and of the storage have timeouts of a minute or less), so that it sees one
  tick at most (`late`); a cleanup task wakes up on time. Ages are counted so that they are never
  too small, and the comparisons at a limit may go both ways.
- `gone` is a history variable: how many ticks ago each value was last to be read at the source,
  counted no further than the properties look.
- The secret is in production mode. In other modes the first missing secret turns a manager into
  one that uses a file, for good (`_ensure_local_mode`).

## 3. Runs

| run | instance | shows |
|---|---|---|
| `JobsCrash` | 2 jobs, 2 processes of one thread; 2 crashes, 1 timeout of an append | no job is lost, each settles and stays settled, is answered only if billed; row and channel agree at rest |
| `JobsStop` | 1 job; 2 cancels, 1 expiry, 1 redelivery, 1 failed write, 1 timeout of an append | a stop a run could still see is obeyed: no tools, no charge, not COMPLETED; no job is lost to the statuses that API and workers write over each other; one bill per delivery |
| `JobsPool` | 2 jobs, one process of 2 threads; failed dispatches and Redis calls | without cancels and crashes the program implements `JobFlow` |
| `JobsStranded` (violation) | as `JobsPool`, no fault at all | a job whose message meets the other thread's running loop is retried three times and dropped: QUEUED for ever |
| `Streams` | 2 streams in one process, 3 messages, 1 broken forwarder, 1 purge | a stream alone on its queue is exact, copies are accounted for, streams end with the job |
| `Payments` | 2 payments of one user, an ignored event and one of an unreadable user, 2 handlers; 1 repeated delivery, failed transaction, failed Redis call and crash each | records are exact, what is recorded is logged, what is answered is on record, for the odd events too, races make no credit, a serially handled account is exact and its mirror follows |
| `PaymentsTwice` (violation) | 1 payment, 1 handler, 1 failed transaction | the event is answered with 500, repeated and credited twice |
| `ToolCalls` | 2 callers with an object each, one of them stoppable; 1 token, 1 retry, the breaker's default 1 and 2 | breakers open for a cause and never close again, attempts behind a stop are bounded, calls are answered |
| `QuotaIgnored` (violation) | as `ToolCalls`, limits of 2 | a third webhook of one day is let through |
| `Ingests` | 1 upload of up to 2 parts, 2 workers, 1 fault | the verdict agrees with the table, copies are caused by redelivery, accepted uploads are executed |
| `Signups` | 2 password signups, 2 callbacks, 2 persons, 2 subdomains, 1 invite, 1 failure | doubles, orphans and odd tokens come from overlapping or broken requests only |
| `Secrets` | 2 callers of one manager, 1 value, any failures of storage and Redis | what is answered was true not long ago, whoever waits for a retrieval is told |

*Bounds.* `Budget` is the only bound of `JobLifecycle`: it caps crashes, redeliveries, failed
writes, failed Redis calls, timeouts, expiries, failed dispatches and cancels. Everything
else is finite by itself: a delivery is executed once, and `MaxRetries` is the code's own 3.
Two crashes let a job be executed three times, the third on a row another run has completed.
Two cancels let one read CANCELLED and meet a worker that writes over it. Two threads are
enough for any race between deliveries, since every action touches one thread and the shared
state; two jobs are there for the shared loop. `JobStream` has three messages so that a stream
can miss one, take one and have one under way. `Payments` lets Stripe repeat one delivery,
so that one event is under way twice, or comes once more behind a refusal; with two handlers
every race of two read-modify-writes is there; the awards 1 and 2 differ, so that a sum tells
which one was lost. Users that do not exist (`Strangers`) are met in the proofs only.

`ToolCall` has no clock: tokens, the cooling of a breaker, the expiry of a flag and the end of the
day come whenever they like. `Calls` is what a caller makes at most: the agent two, so that it calls
again behind a stop, the other four, which open its breaker and probe it. The history of a quota
goes one beyond what it allows (`OneMore`), so that webhooks need no bound; `ToolCalls`, where it is
of no interest, gives it the smallest limits. Two failures open the breaker of the instance, where the code's
default is five: it takes one that does not open it and one that does. `Ingest` lets one fault
happen in all (`MaxFaults`), which is a second delivery that overlaps with or follows the first;
two parts are a first and a last one, and with the whole file as a fallback three kinds of row.
Uploads have keys and rows of their own, so that one shows what happens to each. `Signup` lets
one request fail half-way (`MaxFaults`); two requests of each kind meet in every order, with an
email, a provider id, a subdomain or an invite in common. `Secrets` has no bound on time, calls or
failures: `gone` stops counting behind `Bound`, and everything else returns. `MaxAge` is 2,
`Interval` and `CacheTTL` are 1 unit (the code has 600 and 300 seconds, and 300 to 600 of
`cache_ttl`), which lets a retrieval be swept at once, or kept once and swept later. Two values
would tell a stale one from one that is stored again; with one value the same shows by deleting it.
The bounds the properties name are reached: each fails in this run when it is one tick less.
Several managers are left to the proofs: two of them have ten times the states.

*Fairness.* A thread of a live worker takes its steps, and an idle one polls the queue (weak
fairness of `Step` and `Receive`): Celery's pool does no more and no less, provided calls of
models and tools return, which their timeouts see to. Users, faults and timeouts have no
fairness. In `JobStream` the event loop runs every ready task (`Listen`, `Forward`, `Yield`,
`Close`). In `ToolCall` a call that is under way goes on, as each of its awaits ends (the bucket
times out, clients have timeouts, sleeps are bounded); nobody has to call. In `Ingest` workers
run and poll their queue. `Signup` needs none: its properties are about safety. In `Secrets` the
steps of a request and the retrievals have strong fairness: they wait until no other request holds
up the loop (`Free`), which happens again and again, and asyncio runs whoever is ready in turn.

*Deadlock.* `JobLifecycle` may rest only when nothing is in flight (`Rest`); TLC looks for any
other deadlock. The stream runs switch the check off: a job that is finished publishes nothing
and its streams may be waiting. So do `ToolCalls`, `Ingests`, `Signups`, where all calls, uploads or requests may be done.

## 4. Proofs

Every invariant and every action property the passing runs check, and the refinement of
`JobFlow`, is also a theorem. Each holds for any values of the constants under the module's one
assumption on them (`ConstantsOK`, `StreamConstantsOK`, `PaymentConstantsOK`, `ToolConstantsOK`,
`IngestConstantsOK`, `SignupConstantsOK`, `SecretConstantsOK`: the types of the parameters, that
`None` is none of their values, and that threads, streams and events, which the proofs count,
are finitely many), plus, for four theorems about jobs,
the hypothesis the first table names.

| theorem about `JobLifecycle` | hypothesis | invariant it is proved from |
|---|---|---|
| `TypeCorrect`: `Spec => []TypeOK` | - | `TypeInv`: `TypeOK`; `Sane`, a thread at work has a message and, where it writes one, a verdict; `Within`, the budget stays within `Budget` |
| `CompletedIsAlwaysBilled` | - | `BillInv`: `TypeInv`, `Late`, `Earned` |
| `AnswersAreAlwaysBilled` | - | `AnswerInv`: `TypeInv`, `Late`, `Answers` |
| `StopIsAlwaysObeyed`, `NoWorkIsStarted` | - | `StopInv`: `TypeInv`, `Late`, `Stopped` |
| `NoJobIsStranded` | `Solo`: one thread per process | `CustodyInv`: `TypeInv`, `LoopInv`, `Backed`, `Covered` |
| `DeliveriesBoundTheBill` | `Solo`, or no redelivery | `DeliveryInv`: `SingleInv` (`TypeInv`, `LoopInv`, `Backed`, `Fresh`, `Single`) and `Counted` |
| `DocumentedFlowIsImplemented` | `Orderly`: no cancel, crash, redelivery or refused write | `FlowInv`: `SingleInv`, `NoCancel`, `Followed` |
| `RestAgrees` | `Solo` and `Steady`: no cancel, redelivery, refused write or failed Redis call | `AgreedInv`: `SingleInv`, `NoCancel`, `Written`, `Agreed` |

- `CompletedIsBilled` is not inductive: a COMPLETED status is written from the verdict of a
  run. `Late` says that a thread has that verdict only at the last three steps of a run,
  `Earned` that it then stands for a usage event and, once written, for a stored output.
- `StopIsObeyed` needs `Stopped`: a thread of `stopped` works on a job whose flag is still up
  and is not at the charge, so the guard it has ahead sees the flag. `NoWorkIsStarted` is an
  action property of the same invariant.
- `NotStranded` needs `Covered`: somebody who is *going to write* a terminal status has the
  job, or a message of it waits. A crash keeps that because every busy thread's message is
  unacknowledged (`Backed`); a refusal cannot happen because a thread only ever holds a loop
  of its own process (`LoopInv`), which is where `Solo` enters. `JobsStranded` shows that the
  property fails without `Solo`.
- `AnswersAreBilled` compares two counters of which one runs ahead: `Answers` adds to the answers
  posted the threads that are billed and may still post one, and the proof counts the set of them.
- `BilledPerDelivery` has to count the charges that are still to come: the threads ahead of the
  charge and the copies that wait in the broker (`Counted`). That sum is bounded because, until
  the broker redelivers, a job's message exists once, in the queue or with one worker (`Single`),
  and each fault adds one to it. In a pool with redelivery it may grow by itself: a thread whose
  message was redelivered is refused by the running loop and sends a second copy, and a crash of
  the process restores both: four charges for one crash and one redelivery. TLC finds that history
  when the instance of `JobsPool` is given one crash, one redelivery and one retry; it is the loop
  of `JobsStranded` again, seen from the bill.
- `DocumentedFlowIsImplemented` maps the rows of `JobLifecycle` to the statuses of `JobFlow` and
  has every step be one of `JobFlow` or a stutter. `Followed` says which statuses the row may have
  at each step of the thread that works on it, `Single` that this thread is the only one; so it
  holds in pools too, where a refused message is sent again from a row that is still QUEUED.
- `QuietAgrees` relates two copies of a status, of which the row is written first. `Agreed` says
  of a job that waits for nobody that both are terminal and equal, `Written` that a thread about to
  publish has its verdict in the row. A failed write or publication is swallowed by the code, a
  worker that runs beside another one publishes in another order than it commits, and a cancel
  writes from an old read: hence the hypotheses. Crashes need none.

| theorem about `JobStream` | invariant |
|---|---|
| `StreamTypeCorrect` | `TypeInv`: `TypeOK`; `Opened`, a stream has a queue and a forwarder from its opening on |
| `AlwaysFaithfulAlone` | `StreamInv`: `TypeInv`; `Owned`, a queue is named for a stream that uses it itself; `Connected`, what Redis sent to a forwarder are the latest publications. `LineInv`: what a stream alone on its queue received, has queued and has on its connection is one run |
| `CopiesAreAlwaysAccounted` | `Past`, nothing later than the last publication is anywhere; `AccountInv`, the copies in a queue, those received and the connections a message is still on are together at most the streams subscribed in time |

`CopiesAreAccounted` is about a queue that several forwarders fill and several clients empty. A
publication is put on every connection at once and reaches the queue from each of them later, so
the invariant counts connections beside copies: `Publish` adds one for each subscribed stream,
`Forward` trades a connection for a copy in the queue, `Yield` a copy in the queue for one received,
and a forwarder that breaks or a queue that is purged only loses some.

| theorem about `Payments` | invariant |
|---|---|
| `PaymentsTypeCorrect`, `LedgerIsAlwaysExact`, `AnsweredIsAlwaysRecorded` | `LedgerInv`: `TypeOK`, `Sane`, and the two properties themselves |
| `RecordedIsAlwaysLogged` | `LogInv`: while no call of Redis has failed, a handler about to record an event has logged it. `Within`: the budget only shrinks, so that what is unspent now never was |
| `NoCreditIsMade` | `BackedInv`: every balance, and every balance a handler has read and is about to write an award onto, is within what its account opened with and the awards committed so far |
| `SerialIsAlwaysExact` | `ExactInv`: an account no two handlers met on has one handler at most, whose event is not on record before its last step and which writes onto the balance as it is; between its write and its record that award is all the two differ by |
| `MirrorAlwaysFollows` | `MirrorInv`: an account nobody handled twice at a time is `Serial`: one handler at most is at it, and `Keeps` says, step by step, how balance, mirror and what the handler has read hang together |

`Sane` says which kind of event each step of a handler can hold: without it the commit of
`Record` could concern an ignored event, whose `stripe_event` row has no `credit_ledger` row.
`NoCreditFromNothing` alone is not inductive: a handler writes onto what it *read*, which may be
an old balance, but never one from after more awards than there were.

What an account is due is stated as the number of single credits (`Credits`, a set with a pair for
each of them) and not as a fold over its events: what a fold computes for every set takes an
induction the provers cannot do, while the cardinality of a set that grows by the pairs of one
event is a fact of `FiniteSetTheorems` (`CreditAdds`). `Copies` and `Received` of `JobStream` are sets
for the same reason.

| theorem about `ToolCall` | invariant |
|---|---|
| `ToolTypeCorrect` | `TypeOK` |
| `StopsAreBounded` | `TypeOK` and `StopInv`: for a stopped caller whose last look did not miss the flag, the attempts begun since the stop and those still to come (`StillToCome`) are within `MaxRetries + 1` if it was past that look, and none if it was not; nothing is remembered of a flag that is down |
| `OpensOnlyForACause`, `NeverClosesAgain` | `BreakerInv`: `RoomInv`, the breaker stays as it let in the call that is under way; `CauseInv`, a half-open breaker that has seen no success still counts the failures that opened it |

`StopBoundsAttempts` compares a counter with a bound, and says nothing of the retries that are still
to come: a caller in the middle of its attempts would break it in its next steps. `StillToCome` adds
them, step by step of a call, so that an attempt that begins takes from one term what it adds to
the other, and a call that begins behind the stop has none, as its last look sees the flag.

| theorem about `Ingest` | invariant |
|---|---|
| `IngestTypeCorrect` | `TypeOK`; `Held`, a worker whose message the broker holds works on it |
| `CopiesAreAlwaysCaused` | `NumberInv`, each delivery has a number of its own, and rows and keys are of deliveries that have begun; `CopyInv`, every delivery, begun or waiting, comes from the request or from a fault |
| `FailedAlwaysLeavesNothing` | `FailInv`: a delivery before its first part has no rows, one that is failing has none unless it is excused, and one that is called FAILED makes none any more |
| `CompletedIsAlwaysWhole` | `WholeInv`: a delivery that noted no error has stored, at each stage, the parts before it and no others, with the total they have at that stage; one that was called COMPLETED stays whole |

| theorem about `Signup` | invariant |
|---|---|
| `SignupTypeCorrect` | `TypeInv`: `TypeOK`; `Sane`, each kind of request goes its own way and has a tenant where it needs one; `MadeInv`, users are made by the last step but the answer |
| `AccountsAreSingle`, `TokensAlwaysFit` | `ClaimInv`: what a request has read holds still, but for requests that it has met |
| `OrphansAreExplained` | `OrphanInv`: whoever spent an invite that has no user yet still belongs to it, or is lost; likewise for tenants |

| theorem about `Secrets` | invariant |
|---|---|
| `TypeCorrect` | `TypeInv`: `TypeOK`; `Swept`, age and time to the next wake-up of the cleanup are within `MaxAge + Interval` together; `Sane`, a cleanup task was started before anything is remembered |
| `StaleIsAlwaysBounded`, `MissesAreAlwaysBounded` | `AgeInv`: `SourceInv`, what can be read is not gone; `FlightInv`, a result is no older than its retrieval; `CacheInv`, an entry has no more life than its value has left; `HeldInv`, a request holds what its place had, and a tick more if it saw one |

`CacheInv` adds up what a value has behind it and the entry ahead of it: copies between Redis and
the caches keep the sum, whatever their order, which is why no number of managers breaks the bound.

The layout is the same in all proof modules: one lemma per group of actions, one step per
action, and a temporal step at the end. `JobLifecycleProofs` also holds the facts about finite
sets of threads (`LostCopies`) the others use.

The theorems are about `Spec`; where a run checks a specification with fairness, that one implies
`Spec`.

*Only model-checked:* the five liveness properties, `EventuallySettled`, `EndsWithTheJob`,
`EventuallyAnswered`, `Decided` and `EventuallyTold`. What fairness makes happen rests on ENABLED,
which is out of the prover's reach; the invariants they would start from (`CustodyInv`, `LineInv`,
`CopyInv`, `AgeInv`) are proved.

## 5. Not modelled

- *Checklist engine and specialists.* `engine.py` uses names it does not import
  (`parse_checklist_plan`, `ValidationResult`): a plan is lost to the default one and a
  validation raises. A model would describe what the program was going to do. The specialists'
  tool loop never asks the approval callback and never looks at the cancel flag; `RunTasks` is
  one step for that reason.
- *Approval gate.* Nothing calls `approve` or `reject`, and no migration creates its table.
- *Terminal UI.* The Go program under `tui/` does not compile at this commit: `model.go` uses
  a field and two constants that `chat.go` does not have.
- *Trace and UI streams*, whose connection counter is decremented twice on a refusal
  (`subscriptions.py:303`), and the *behaviour monitor* are counters without further state.
- *Other ways into ingestion*: `ingest_gcs_uri` and the upload of single images run the steps of
  `Ingest` inside the request, without a task and a verdict.
- *The vendor-connecting OAuth callback* takes its tenant from the signed state; *logins* write
  nothing but `last_login` (the one for the terminal UI passes an asynchronous session to a
  synchronous function and always fails).
- *Webhook tasks*: the API sends `webhooks.process_*` tasks no worker defines; what the quota makes
  of a webhook is in `ToolCall`.
- *Secrets outside production* (a file or the memory of the tests), lock timeouts of the cache,
  `shutdown` (nothing calls it, and the timer each object starts keeps the object for ever), the
  token cache of the Google tools, which never expires.
- *Deployment*: `cmd_up.py` starts workers on other queues than `executeGoal` sends to, and
  `task_reject_on_worker_shutdown` is no setting of Celery, so that a lost child of the default
  pool has its message acknowledged.
- The checks `executeGoal` makes before it commits and the other mutations; row-level security;
  the text work of prompts, screening and search, whose outcome is a choice in `Screen`,
  `Guard2` and `RunTasks`; the vendors' tools; storage, CLI and migrations. `PROJECT.json` gives
  the reason for each component.

What the models say of the documentation beside the runs that show a violation: a CANCELLED row
returns to RUNNING when the worker starts late, and a terminal one becomes CANCELLED
(`UpdateStatus`, `CancelCommit`), against the flow drawn in `task-lifecycle.md`; a job that is
executed again is billed again, against "tasks must be idempotent" in `error-handling.md`; two
streams of one process share a queue, against `real-time/README.md:44`; a stream opened behind
the terminal status stays silent, against `websocket-lifecycle.md:266`. Two signups that overlap
join with one invite (`ReadInvite`, `SpendInvite`), against "single-use tenant invite token" in
`mutations.py:672`. A secret that was deleted is answered again from the retrieval that `Join`
finds, for up to `MaxAge + Interval`, against "delete ... from storage and clear caches" in
`secrets_manager.py:457` and the test that has `active_requests == 0` behind a retrieval
(`test_secrets_manager_singleflight.py:287`). And `store_secret` answers True for what the storage
refused (`WriteFails`), in production too, against "fallback to local store in non-production" in
`credential_manager.py:150`; `rotate_secret` then has the vendor revoke the old value.

## 6. Plan

1. A pool with redeliveries: the bound on the bill that does hold there (refusals counted as
   deliveries), and a proof of it from `SingleInv`.
2. The trace and UI streams beside `JobStream`; the checklist engine once its names resolve, as a
   refinement of `RunTasks`.
