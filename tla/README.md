# Formal models of orders-api

TLA+ models of the order service: what happens between `POST /orders` and the
message in SQS when requests, workers, PostgreSQL, SQS and the processes
interleave and fail. TLC checks the models on small instances; TLAPS proves the
central results for every instance.

## 1. The system

| Part | Source | State it keeps | Operations |
|---|---|---|---|
| HTTP interface | `app/api/*`, `app/main.py` | one handler per request | bind and validate the body, call the service, map results and exceptions to 201/200/400/422/503/500 |
| Requester client | `app/clients/requester_client.py` | none | one GET to the requester service, outcomes mapped to exceptions |
| Order creation | `app/services/order_service.py`, `app/repositories/*` | rows of `orders` and `outbox_events`; one session, one transaction and at most one pooled connection per request | search by key, insert order, insert event, commit, rollback, search again |
| Outbox table | `app/repositories/models.py`, `alembic` | `status` and `created_at` of every event | written by the API, read and updated by the workers |
| Outbox worker | `app/messaging/outbox_worker.py`, `app/worker_main.py` | running flag, batch in memory, one session per batch, row locks | start, stop, poll, fetch with `FOR UPDATE SKIP LOCKED`, publish, retry, mark, commit |
| SQS publisher | `app/messaging/sqs_publisher.py` | none | `publish` |
| SQS, DLQ | external, `scripts/localstack-init.sh` | messages | send, receive, redrive |
| Settings, secrets | `app/config/settings.py` | two process-wide caches | load with fallback |
| Engine lifecycle | `app/repositories/database.py`, `app/main.py` | `_engine`, `_session_factory`, the pool | lazy creation, session, dispose |
| Observability | `app/observability/*` | a context variable, counters | correlation id, logs, traces, metrics |
| Environment | `docker-compose.yml`, `dev.py`, `alembic/env.py`, `scripts/localstack-init.sh` | containers, the database volume, the resources of LocalStack | up, down, restart, migrate, healthchecks, poll of `/health` |

API and workers share nothing but the database; the worker talks to SQS, the
API to the requester service. Hard behaviours, and what each part must
guarantee:

* **Concurrent requests with one idempotency key.** Both may miss each other in
  the search; the unique index then decides. One order per key, the same order
  for every client, and the conflict path must end.
* **The transactional outbox.** Order and event together or not at all, at
  whatever await the process dies or the database fails, a COMMIT whose
  acknowledgement is lost included.
* **The connection pool.** 30 connections, any number of requests, and a slow
  requester service.
* **The worker's session.** Row locks live as long as the transaction, and the
  transaction ends at the first commit of a batch; a failed statement makes the
  session useless until the batch ends.
* **At-least-once delivery.** Crashes, SQS errors before and after delivery,
  lost COMMIT acknowledgements, and several workers that work on the same event.
* **API and workers together.** A worker may publish an order while its request,
  or a competitor for its key, is still on its way to an answer.
* **The correlation id.** Written once and read at three later awaits, with other
  requests of the same event loop in between; one of the exception handlers
  runs outside the middleware.
* **Module variables.** The secrets cache, the engine and the session factory
  outlive the lifespan that filled them.
* **The environment.** Containers that start in parallel, fail, and are started
  again by the next `up`; an init script that races a healthcheck.
* **What a consumer sees.** How many messages one event may cause, and what
  fills the dead-letter queue.

## 2. Modules

| Module | What it is |
|---|---|
| `OutboxTable` | the rows API and worker share |
| `OrderService` | the detailed model of `POST /orders` |
| `IdempotentOrders` | the abstract service: an atomic map from keys to orders |
| `IdempotentOrdersProofs` | theorems of the abstract service |
| `OrderServiceProofs` | theorems of `OrderService` |
| `OutboxWorker` | the detailed model of any number of workers |
| `OutboxDelivery` | the abstract outbox: at-least-once delivery |
| `OutboxWorkerProofs` | theorems of `OutboxWorker` |
| `OrdersSystem` | `OrderService` and `OutboxWorker` composed over one `OutboxTable` |
| `OrdersSystemProofs` | theorems of the composition |
| `RequestPipeline` | middleware, exception handlers and counters around `OrderService` |
| `RequestPipelineProofs` | theorems of the pipeline |
| `SqsQueue` | the messages the workers of `OutboxWorker` send, and their readers |
| `SqsQueueProofs` | theorems of the queues |
| `ProcessLifecycle` | settings, secrets, engine and pool of one process |
| `ProcessLifecycleProofs` | theorems of the process |
| `Deployment` | the containers, the migration, the init script and `dev.py` |
| `DeploymentProofs` | theorems of the deployment |
| `MC...` | instances for TLC, one module each |

`OrdersSystem`, `RequestPipeline` and `SqsQueue` are built on the two detailed
models by `INSTANCE`: their steps are steps of those, with state of their own
added. `ProcessLifecycle` and `Deployment` stand alone, because what they are
about happens before and around the requests.

The detailed modules contain a section of *slips*: wrong versions of an action
that a plausible bug would produce. No specification uses them; they exist to
show that each property can fail (replace the action by the slip and TLC finds
the property violated).

### OrderService

`stage[r]` is the await at which request `r` is; an action is everything from
one await to the next.

| stage | action | code |
|---|---|---|
| new | `BindRequest` | FastAPI validates `CreateOrderRequest`, 400 if it fails |
| validating | `ValidateRequester` | `validate_requester`; 422, 503, or 500 for `httpx.InvalidURL`, which is no `httpx.HTTPError` |
| lookup | `FindByExternalId` | first search; begins the transaction and takes a connection |
| insert_order | `CreateOrder` | `INSERT` at `flush()`, decided by the unique index |
| insert_event | `CreateEvent` | second `INSERT` |
| commit | `Commit`, `CommitFails` | `session.commit()`, 201, or 500 with the commit applied or not |
| rollback, relookup | `Rollback`, `FindAfterConflict` | `except IntegrityError` |
| reply | `Reply`, `CloseSession` | response and end of `get_session`, in either order |

`PoolTimeout`, `DatabaseError` and `Crash` may hit at every await where the code
can meet them. `Crash` drops one request; the death of an API process is one
`Crash` for each of its requests. PostgreSQL is modelled at READ COMMITTED, its
default, which the code does not change: committed rows are in `orders` and
`outbox`, a row that is not committed exists only as `Writing(r)`, and an
`INSERT` that meets such a row with its key is not enabled until the other
transaction has ended.

An order and its event are identified by the request that writes them: each
request draws two fresh UUIDs and uses them once.

### OutboxWorker

`step[w]` is the await of worker `w`; `session[w]` is `closed`, `open` (in a
transaction), `clean` (between two transactions) or `broken` (a transaction
failed and was not rolled back, so that SQLAlchemy or PostgreSQL refuses every
further statement). `lock[e]` is the worker whose transaction has locked the
row; `CommitProcessed`, `CommitFailed`, `EndBatch` and every fault release *all*
locks of the worker, as the end of a transaction does. The UPDATEs carry no
condition on the status, as in the code. `FetchPending` is one atomic statement.
A failing `publish` may or may not have delivered the message. `queue` is the
set of events whose message reached SQS; how often is abstracted, so duplicates
need no counter.

`FaultKinds` selects the faults: `crash` (the process dies, a COMMIT in flight
may take effect), `connection` (the server drops the connection of an open
transaction), `database` (a connection, statement or COMMIT raises, the COMMIT
applied or not). SQS failures are always possible.

`OrderCommitted` stands for the API: a committed row appears.

### OrdersSystem

`Serve(r)` is a step of one request that leaves the workers' state alone, `Work(w)`
a step of one worker that leaves the requests' state alone; both change
`outbox`. `OrderCommitted` has no part in it. The API's invariants say
that a row is there exactly when its order is; to the API a settled row
looks like a pending one, and to the workers the clock of a row not yet
committed does not exist: these are the refinement mappings `Written` and
`Visible`.

### RequestPipeline

`Dispatch` is `CorrelationIdMiddleware.dispatch` up to `call_next`. `Serve` is a
step of the service together with what it triggers in the process: `Trace` (the
route reads the context variable before its first await), `Explain` (an
exception handler reads it again for the body), `Meter` (a counter per answer)
and `Finalize` (the middleware after `call_next`: duration and header).
FastAPI runs the handler of `Exception` in `ServerErrorMiddleware`, outside
every added middleware, so `Finalize` does nothing for a 500. A generated
UUID is modelled by the request itself: no two requests draw the same one. A
client's id may be shared by requests, or empty.

### SqsQueue

`OutboxWorker` records which events reached SQS. Here every request that SQS
accepts puts a message of its own into `place`: unsent, visible, hidden (received,
within its visibility timeout), deleted, or dead (in `orders-dlq`). A message is
known by its event, the worker that sent it and a number. `publish` makes its
client without a `Config`, so botocore repeats a request whose answer is lost, by
default up to five times in all: one `Send` adds from 1 to `SendRequests`
messages. A repeated request that takes effect late is counted in its attempt.
`receives` is ApproximateReceiveCount. `faulted` is a history variable: a process or the
database has failed, which no action reads. `Proceed(w)` joins `Publish` and a delivering
`PublishFails` with `Send`. The readers are `dev.py sqs-messages`, which never
deletes, and a consumer outside the repository, which may. Both are assumed to do
nothing in particular: `sqs-messages` is a command somebody types once, and the
consumer is not there to be read, so nothing is claimed about messages leaving the
queue.

### ProcessLifecycle

`Startup`, `LoadSecrets`, `Shutdown` are the lifespan of `app/main.py`;
`OpenSession(g)` makes factory and engine on first use and takes a connection from
the pool of engine `g` (or opens one, if that pool has room and the password is
right); `CloseSession(g)` returns it, and the pool closes it when `pool_size`
others are idle already. `Shutdown` happens after the last request has ended,
as uvicorn does it. `Die` clears the module variables, `Shutdown` does not.
`SecretsManagerChanges` and `Rotate` are the environment. `engine` is `_engine`,
`bound` the engine `_session_factory` was made with, `made` what the process has
created; each engine has its own `busy` and `idle` connections. The factory keeps
its engine, which is why a lifespan after the first goes on using a disposed
engine (SQLAlchemy gives it a new pool) that `_engine` no longer names.

### Deployment

`MayStart(s)` is `depends_on` line by line. `CheckHealth`, `Migrate`, `Provision`
(the init script, resource by resource), `Serve` (the application has loaded its
secrets and runs) and `Fail` are the containers; `Up`, `Start`, `ComposeEnds`,
`BuildFails`, `Poll` and `Down` are `dev.py` and the `docker compose` commands it
runs. `started` is what the running `up` has dealt with: an earlier `migrate`
does not count, so every `up` migrates again before it starts an application that
is not running. A service that is healthy stays so until it fails: that it may turn
unhealthy again while it runs is left out.

## 3. What TLC checks

| Run | Instance | Shows |
|---|---|---|
| `order_service` | 3 requests, 2 keys, 2 connections, every failure | `EventIffOrder`, `AnsweredOrderIsDurable`, `ConflictFindsOrder`, `RefusedCreatesNothing`, `NoHoldAndWait`, the strengthening `WritersAlone`, `RequestsOnlyAdvance`, `EveryRequestSettles`, and that `OrderService` implements `IdempotentOrders` |
| `outbox_worker_safety` | 2 workers, 3 events of two ages, batch 2, all faults | `FetchTransactionExcludes`, `ProcessedWasPublished`, `BlockedHoldsNothing`, the strengthening `RowsInHand`, `LocksAreInHand`, `BatchesEnd`, and that `OutboxWorker` implements `OutboxDelivery` |
| `outbox_worker_liveness` | 2 workers, 2 events, crashes and database faults | `PendingIsSettled`, `StopIsHonoured` |
| `orders_system_safety` | 2 requests, 2 keys, 2 workers, crashes | `MessagesNameOrders`, `RefusedIsNeverAnnounced`, `AnsweredOrderIsKept`, and that `OrdersSystem` implements `OrderService` and `OutboxWorker` |
| `orders_system_liveness` | 2 requests, 1 key, 1 worker, crashes and database faults | `SettledIsFinal`, `AnsweredOrderIsSettled` |
| `request_pipeline` | 2 requests, 1 key, one client id, the empty id, generated ids | `OneTracePerRequest`, `CountersAreAnswers` |
| `process_lifecycle` | up to 2 engines with 2 + 1 connections each, 2 rotations | `ConnectionsInOnePool` |
| `deployment` | all six services, 2 polls | `TablesBeforeQueries`, `UpEnds` |
| `sqs_queue` | 1 worker that can die, 1 event, 2 requests per send, up to 7 messages of which 2 are read | `DuplicatesAreBounded`, `ResentOnlyAfterFaults` |

`SqsQueueShared.cfg`, which is not among the runs, checks the last two properties
for two workers that share a batch of two events, without faults and readers.

Each detailed module has its type invariant in one of these runs (`OrdersSystem`
has no state of its own, so those of its parts are its types). What they mean:

* `EveryRequestSettles`: a request that got past the binding is answered or lost
  with its process, and its connection is back in the pool, whatever order
  response and end of session come in.
* `NoHoldAndWait`: no request waits for the requester service or for a
  connection while it holds one, and none is without one from its first INSERT to
  the end of its transaction. So whoever waits for a key waits for a request that
  waits for nothing but the database.
* `RequestsOnlyAdvance` and `BatchesEnd` are the bounds behind the liveness
  properties, free of fairness: each step takes a request to a later await, and
  each await of a batch lowers `WorkLeft` (15 for each event that waits its turn,
  up to 14 for the one in hand). A retry loop that forgot to count, or a conflict
  that started the handler over, breaks them.
* `LocksAreInHand`: the rows `SKIP LOCKED` hides are those of an event its worker
  still has in hand. In particular an event that could not be marked failed is
  free for the next batch, although it was reported as failed.
* `AnsweredOrderIsKept`: an order in a 200 or 201 has a row until its message is
  sent, and keeps it then.
* `SettledIsFinal`: with one worker, the row of an order never leaves `processed`
  or `failed`. With two it can: that is `status_lifecycle` below.
* `MessagesNameOrders` is what the outbox pattern is for: across the rollback of
  a loser of the race, a lost COMMIT answer and a worker that publishes before
  the client is answered, a message in SQS names the one durable order of its key.
* `AnsweredOrderIsSettled` covers the order whose creator died and which a second
  client got with a 200.
* `StopIsHonoured`: a worker told to stop exits, whatever its batch meets.
* `CountersAreAnswers`: every answer is counted once, and `orders_created_total`
  never exceeds the durable orders, although a COMMIT can fail after it applied. It
  is about the increments made; the counters of a new process start from 0.
* `OneTracePerRequest`: no interleaving gives a request another's id. It states the
  two cases in which the documents promise more than the code keeps: an empty id,
  which event and body show as `unknown`, and a 500, which has the id in its body
  only. The promises themselves are `EventCarriesHeader` and
  `EveryResponseIsTraced`, refuted below.
* `DuplicatesAreBounded`: until a process or the database first fails, a worker
  sends an event at most `MAX_RETRIES * SendRequests` times (15 with botocore's
  defaults), however SQS loses answers, and although workers share events. After
  a crash there is no such bound.
* `ResentOnlyAfterFaults`: until then an event that has been sent is pending only
  while its sender has it in hand, a stop between two attempts included.
* `ConnectionsInOnePool`: all connections are in the pool of the factory's engine,
  and within its limit. A shutdown that reset both variables and closed nothing
  would leave a second pool behind; the code keeps the factory, so that what a
  second shutdown fails to close (see below) is at least used again.
* `TablesBeforeQueries` survives failed databases, repeated `up`, and `down -v`.

**Bounds.** Every request and every event occurs once and attempts are bounded
by the code, so the state spaces are finite without further constraints. Three
requests on one key are the least in which a loser of the race and a late comer
coexist; two keys show that requests with different keys do not disturb each
other; two connections for three requests let the pool run out while two
requests still conflict (with one connection they would take turns and no
conflict could occur). Two workers suffice to share an event; a batch of two of
three events, which may differ in age, lets one worker settle one event and wait
with the other while the second worker fetches what the first has left or
released. Symmetry is used in `outbox_worker_safety`, `orders_system_safety` and
`request_pipeline`, where nothing depends on fairness: invariants,
properties of single steps, and refinements that consist of initial states and
steps.
Two requests and two workers are the least in which requests race for a key
while workers share a batch; their product with three of either is beyond TLC,
and the theorems of `OrdersSystemProofs` take its place. `MaxCopies` bounds the
messages of one event and worker that TLC follows: there is room for one more than
`DuplicatesAreBounded` allows, and an event that has as many is not sent again.
`SendRequests` is 2 in place of 5: requests are repeated. `maxReceiveCount` is 3 in
the script and 2 here, and `MaxRead` 2 messages are ever received: the receives of
one message do not depend on those of another, and the theorems hold for any of
these bounds. `PoolSize` 2 and `MaxOverflow` 1 stand for 20 and 10 (several
sessions, a connection closed on return, an exhausted pool), and two `Engines`
are one more than the code ever makes; `MaxRotations` 2 lets the
secret change before and after it was loaded. `MaxPolls` 2 stands for the polls of
a minute: one that fails and one at the deadline.

**Deadlock.** It is checked for the workers, the composition, the queues, the
process and the deployment. The models of requests alone (`OrderService`,
`RequestPipeline`) may stop: all their requests end.

**Fairness.** `WF(Advance(r))` and `WF(CloseSession(r))`, `WF(Advance(w))`:
asyncio runs every ready task, and httpx (timeout), asyncpg, aioboto3 and the
pool (pool_timeout) end every await with a result or an exception; PostgreSQL
grants a row lock that is free. No fairness is put on arrivals, faults or
failures, nor on starting a worker: `docker-compose.yml` has no restart policy
for it. `PendingIsSettled` and `AnsweredOrderIsSettled` therefore assume that some
worker stays up and that faults end; SQS may fail for ever. (The premise about
faults also excludes a worker that is stopped and started for ever: the exit of an
idle worker changes what a crash at that point changes.) `Deployment`: healthchecks
have a
bound on their retries, `docker compose` starts what may be started and returns
when all is started or a condition has become hopeless, the migration ends, and
each poll of `/health` has a timeout; nothing is assumed of the API ever
serving, of the init script, of a repair after a failure, or of a user typing
commands. `SqsQueue`, `RequestPipeline` and `ProcessLifecycle` assume no fairness: their
properties are about single states and steps. That `load_secrets` ends, with
botocore's timeouts, would be an assumption and not a result.

### Disagreements between the documents and the code

Each claim is a property of the module the configuration belongs to, stated as
the document states it, and TLC refutes it. The first three are runs of the
project; the others are reproduced with the configuration named.

| Run or configuration | Claim | What happens |
|---|---|---|
| run `status_lifecycle` (`OutboxWorkerLifecycle.cfg`) | `models.py:56`: pending -> processed or failed | `mark_failed` overwrites `processed` when two workers have the same event |
| run `broken_session` (`OutboxWorkerBrokenSession.cfg`) | `outbox_worker.py:72`: each event is processed individually | after a failed UPDATE or COMMIT nobody rolls back; the later events of the batch are published, three times each, and cannot be marked |
| run `process_lifecycle_password` (`ProcessLifecyclePassword.cfg`) | `settings.py:37`: the password comes from Secrets Manager | the loaded secrets are never read; the password is that of the environment |
| `OutboxWorkerBatches.cfg` | README line 275, `outbox_repository.py:59`: every worker gets an exclusive batch | the first `session.commit()` of a batch (`outbox_worker.py:130`) releases the locks on the rest; another worker fetches and publishes the same events |
| `OutboxWorkerFailureReport.cfg` | README line 294: marks the event `failed` and logs it | if marking fails, the event is logged and counted as failed although its row stays pending |
| `OutboxWorkerLastWait.cfg` | README line 293: attempt 3 waits 30 seconds | the third failure is followed by `mark_failed` at once |
| `RequestPipelineHeader.cfg` | `middleware.py:37-38`: the header is returned and the duration recorded | a 500 is answered outside the middleware: neither happens |
| `RequestPipelineEmptyId.cfg` | README line 300: the client's id is reused | an empty header is returned empty and stored as `unknown` |
| `ProcessLifecycleFallback.cfg` | `settings.py:96`: cached after the first *successful* load | the fallback is cached like a success and outlives the outage |
| `ProcessLifecycleShutdown.cfg` | `database.py:79`: closes all connections on shutdown | the second shutdown of a process finds no engine and closes nothing |
| `DeploymentHealth.cfg` | README line 151: `dev.py` waits for `/health` before it prints the URLs | it prints them after a timeout too |
| `DeploymentResources.cfg` | README line 148: LocalStack becomes healthy (SQS + Secrets Manager) first | an empty list of queues is healthy; the init script may still run, or have failed |
| `SqsQueueDeadLetters.cfg` | README line 306: the DLQ receives what exhausted the worker's retries | the worker only marks the row: an event none of whose sends got through is `failed` without a message that could ever be dead-lettered |

The cached fallback, the unused password and the missing resources belong
together: a process that starts before the secret exists caches the fallback and
never tries again, which goes unnoticed only because nobody reads the secrets.
The fallback and the second shutdown need a second lifespan in one process,
which a server under test or an embedding has, uvicorn alone has not.

Of those of the worker, the status and the shared batches need a second worker
and no fault of the database. The others happen with a single worker: the
broken session and the failure report need a database fault, the missing wait
only three refusals by SQS.

## 4. What is proved

For all sets of requests, keys, events, workers and clock values, any pool and
batch size and any selection of faults, from the named assumptions only
(`None` and `NoOne` are no members of the sets they complete, clock values are
natural numbers, pool and batch size positive):

*`OrderServiceProofs`*

* `TypeCorrect`, `WritersAloneCorrect`.
* `IdempotencyCorrect`: the conjunction `Idempotent` is inductive. The four
  safety properties are not inductive alone: that a COMMIT overwrites nobody's
  order needs to know that no other request writes under the same key, that the
  key has no order yet, and that an order's owner is past its commit. This is
  `WritersAlone`. The proof reduces every action to one of three lemmas: a
  transaction that takes effect, a response that creates nothing, and a step
  that does neither.
* `EventIffOrderCorrect`, `AnsweredOrderCorrect`, `ConflictFindsOrderCorrect`,
  `RefusalCorrect` follow. `ConflictFindsOrderCorrect` says that
  `DuplicateOrderException` and its handler are unreachable.
* `PoolCorrect`: by the finiteness of `connected` and a case for taking and one
  for returning a connection.
* `RequestsOnlyAdvanceCorrect`, from the types alone.
* `ServiceRefines`: `Spec => ImplementsIdempotentOrders`. A request takes
  effect at its COMMIT, a repeated key at the search that finds the order.
* `PromisesAreFinalCorrect` (an answer, the order of a key and its event are for
  ever), `OneOrderPerKeyCorrect` (all clients of a key are given the same order, one
  of them at most a 201): not proved of the detailed
  service but of the abstract one (below), and carried over by the refinement.

*`IdempotentOrdersProofs`*: `OneOrderPerKeyCorrect`, `PromisesAreFinalCorrect`,
if `None` is no key. The inductive invariant `Consistent` says that an answer
which carries an order carries that of its request's key, and that nobody is
answered before he has a key.

*`OutboxWorkerProofs`*

* `TypeCorrect`, and `RowsInHandCorrect`: a row lock belongs to a live
  transaction, a COMMIT writes only a row it has locked, workers handle only
  committed events, and an event about to be marked has been sent.
* `AtLeastOnce`, `FetchTransactionCorrect`, `NoDatabaseDeadlock`, each from
  `RowsInHand`: others take free rows only and settle rows they hold only.
* `LocksAreInHandCorrect`, inductive with `RowsInHand`: a worker lets go of an
  event when its transaction ended, or with a broken session, whose transaction
  the database has ended. The second half, that only a batch has a session, is
  needed for the batch that is fetched next.
* `BatchesEndCorrect`: each await lowers `WorkLeft`. That `todo` has a cardinality
  needs `FinitelyStored`: only finitely many orders are committed at any time, however
  large the set of requests, and a batch is part of them (`RowsInHand`).
* `AloneSettledIsFinal`: with at most one worker a settled row is final. The
  invariant `HandsPending` shows why: as long as the session can write, all
  events in the worker's hands are pending; a COMMIT whose answer is lost breaks
  the session. (A rollback in the handler, which would cure `broken_session`,
  would break this property unless the UPDATE also checked the status: the
  slip `DatabaseFaultRolledBack` shows it.)
* `WorkersRefine`: `Spec => ImplementsOutboxDelivery`.

*`OrdersSystemProofs`*

* The invariant is `SystemInv`: the invariants of both components, which carry
  over because a step of one side looks to the other like a step of its own
  specification or like nothing (`NextViews`), and that a request stamps its
  row before it can commit it.
* `MessagesNameOrdersCorrect`, `RefusedIsNeverAnnouncedCorrect` combine the two
  sides: a message was a stored row (workers), and a stored row has its
  order (API).
* `AnsweredOrderIsKeptCorrect` uses both as well: an answer's order is durable and
  so its row is there (API), and a processed row was sent (workers).
* `SettledStaysSettledCorrect`: with any number of workers a settled row may change
  from `processed` to `failed` or back, but no retry of a client and no worker makes
  it pending again. A request that commits has no row yet, and a worker
  changes a row only to settle it (`WorkSettles`).
* `SystemImplementsService`, `SystemImplementsWorkers`: each part's theorems
  therefore hold of the whole system.
* `SystemSettledIsFinal`: with at most one worker, no step of API or worker takes
  a settled row back. It carries `AloneSettledIsFinal` over to the composition.

*`RequestPipelineProofs`*: `TypeCorrect` and `OneTraceCorrect`. The inductive
invariant treats requests with and without an empty id alike (`Traced`) and adds
that the context variable of a request is what its dispatch wrote,
that a request past the route's first line has its id for the event, and that
only an answer that is ready is sent, so that every response but a 500 passes the
middleware with its own id. `CountersCorrect`: a step answers one request at
most, and counts it in the same step (`AnswerCounted`); so the sets of requests
answered with each status stay finite and their cardinalities are the counters.
That orders counted as created are durable is an injection from the requests
answered 201 to the keys that have an order (`CreatedAreDurable`), which exists
because the pipeline runs the service (`RunsService`) and the service is
idempotent.

*`ProcessLifecycleProofs`*: `TypeCorrect` and `ConnectionsInOnePoolCorrect`, for
any pool sizes and engines. Both rest on `Pools`: each pool is within its sizes, and
an engine that is not the factory's has no connection. The first session binds
the factory before it connects, and no step before the end of the process binds it
again.

*`DeploymentProofs`*: `TypeCorrect` and `TablesBeforeQueriesCorrect`, the latter by an invariant that says what a
completed migration means for the volume, and that only `down` removes the schema,
with every container.

*`SqsQueueProofs`*: `TypeCorrect`, `DuplicatesAreBoundedCorrect` and
`ResentOnlyAfterFaultsCorrect`, for any number of workers, requests per send and
any selection of faults. The invariant `Tally` holds until `faulted` and speaks of
each worker alone: the copies it has sent of an event fit into the requests of its
attempts so far (`SendFits`), it has sent nothing that still waits in its batch, and
what it has sent and is pending is in its hands. Workers that share an event can
only settle it, and a settled event is in no later batch.

Every invariant, action property and refinement of the passing runs is proved. No
run checks `PromisesAreFinal`, `OneOrderPerKey` and `SettledStaysSettled` by name:
they follow from the refinements that are checked.

Only model-checked are the liveness properties (`EveryRequestSettles`,
`PendingIsSettled`, `StopIsHonoured`, `AnsweredOrderIsSettled`,
`UpEnds`): they rest on fairness, and so on ENABLED, which
is beyond the proof system.

## 5. Not modelled

* **Payloads, log lines, traces, the text of `/metrics`, bodies beyond the order
  and the correlation id**: no control flow depends on them. JSON and UUID
  conversions are one-to-one on the identities the models use.
* **`app/domain/entities.py`, `app/domain/ports.py`**: data classes and abstract
  signatures without behaviour. Their identities and statuses are the data of
  `OutboxTable` and `OrderService`.
* **Isolation inside a statement**: the isolation of a SELECT from rows that
  change during its scan is abstracted; a statement is atomic.
* **The order of equal messages**: `orders-queue` is a standard queue, in which SQS
  promises none; `SqsQueue` lets any visible message be received.
* **Manual repair of `failed` rows** is outside the code.
* **`dev.py`'s other commands** (tests, logs, the smoke test, `migrate` inside a
  running container) keep no state of their own; the virtual environment and the
  image build are inputs.
* **`mocks/requester_mock.py`**: a test double; `OrderService` admits every answer
  a requester service can give.
* **Two processes over one secret, or one engine per event loop**: nothing is
  shared between processes but the database, which `OrdersSystem` covers.

Of the plan of this project everything is done. Liveness stays with TLC.
