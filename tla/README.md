# Bunstone in TLA+

A formal model of the concurrent and failure-prone parts of Bunstone, the
framework in this repository (`src/`, a TypeScript framework on Bun: dependency
injection, HTTP, scheduling, CQRS and event sourcing, RabbitMQ messaging). Each
module is written from the source file it names; the runs are checked by TLC and
the theorems by TLAPS. `PROJECT.json` lists components, runs, mutants (a
plausible slip for each property, under which TLC refutes it), the source lines
behind every definition, hazards, findings and theorems.

Run a model with `tlc -config RabbitConsumer.cfg RabbitConsumer` (the table in
section 3 names the module of each run), the proofs of a module with
`tlapm RabbitConsumerProofs.tla` (likewise `CircuitBreakerProofs`,
`SqlEventStoreProofs`, `RabbitConnectionProofs`, `AppLifecycleProofs`,
`RequestPipelineProofs`, `CacheProofs` and `BootProofs`, which has the theorems of
`Container`, `Modules`, `Routing` and `Boot`).

## 1. Inventory

| Component | State | Operations | Interacts with | Hard because |
|---|---|---|---|---|
| Circuit breaker (`messaging/circuit-breaker.ts`) | state, failures, successes, openedAt | `execute`, `current` | message consumers | calls overlap: an outcome arrives in another state than the one that admitted the call |
| Aggregate, repository (`cqrs/aggregate-root.ts`, `repository.ts`) | pending events, version | `apply`, `load`, `save`, `commit` | event store | `save` reads the aggregate, awaits, and changes it |
| SQL event store (`cqrs/sql-event-store.ts`) | tables events, snapshots | `append`, `read`, snapshots | `SqlService`, the database | optimistic concurrency between processes, partial batches, unanswered COMMITs |
| RabbitMQ connection (`messaging/connection.ts`) | connection, channel, closing, ready, set-ups | `start`, `getChannel`, `close`; loops | amqplib, broker, application | several `establish()` at once, losses in the middle, close() at any time |
| RabbitMQ consumers (`messaging/rabbitmq-module.ts`, `retry.ts`) | timers, breaker; in the broker: queues | deliver, ack, retry, dead-letter | connection, breaker, broker | ack before retry, captured channels, redelivery, crashes |
| Application (`core/application.ts`, `lifecycle.ts`, `disposable.ts`) | closed, readiness, instances, disposables | `create`, `listen`, `close` | everything | await by await against requests, jobs, probes, signals; hooks that throw |
| Scheduler (`scheduling/scheduler.ts`) | timers, running flags | `start`, `stopAll` | application | overlap of a job with itself and with shutdown |
| HTTP server (`http/server.ts`, `routing.ts`, `matcher.ts`, `health.ts`) | server, routes map, storage | constructor, `listen`, `stop`, `fallback` | application, Bun.serve | routes merged from many controllers; drain against a timeout |
| Container (`core/container.ts`) | providers, instances, resolving | `register`, `resolve`, `instantiateAll` | modules, application | recursion with failures; order decides the order of hooks |
| Modules (`core/module.ts`) | modules seen, controllers | `compileModules` | container, application, tests | cycles and diamonds of imports, dynamic modules met twice, overrides |
| HTTP pipeline (`http/pipeline.ts`, `params.ts`, `errors.ts`, `guard.ts`, `serialize.ts`) | one context per request | one handler per route | container, rate limit, telemetry | several awaits on one context; every stage may throw; a body read once |
| SSE (`http/sse.ts`) | stream, heartbeat, abort listener | `sseResponse` | pipeline, Bun.serve | a client that leaves against a silent source |
| WebSocket (`http/websocket.ts`) | gateways by path | `collectGateways`, callbacks | server | an instance per path |
| Rate limit (`ratelimit/*`) | buckets, sweep timer | `hit`, `sweep`, `close`, `enforceRateLimit` | pipeline, server stop | window edges, clearing while in use |
| Cache (`cache/*`) | Redis | `get`, `set`, `delete`, `getOrSet` | Redis | read-compute-write by concurrent callers, commands that fail |
| Buses (`cqrs/*-bus.ts`, `cqrs-module.ts`) | handler maps | `execute`, `publish`, `publishAndWait`, `wireCqrs` | application, providers | use before the wiring; handlers that throw beside others |
| Testing (`testing/*`) | overrides, routes map | `overrideProvider`, `compile`, `createTestApp`, `dispatch` | modules, server | same answer as the real application |
| Telemetry (`observability/*`) | SDK providers | start, shutdown, `instrumentRequest` | OpenTelemetry | partial shutdown |
| JWT, CORS, static files, OpenAPI, CLI, logger, errors, decorators | none | pure functions, I/O, metadata | | little a model checker reaches |

What makes each core component correct:

- **Breaker**: it opens and closes exactly at its thresholds, in terms of the
  outcomes really seen in a row; it cools down before a probe; nothing starts
  while it is open; it cannot be kept open for ever.
- **Event store**: a stream is one log, which only grows, by whole saves, each
  event right after what its author had seen; what was acknowledged is there.
- **Connection**: the current channel is a live one; the application is never
  left without consumers and without anyone reconnecting; close() ends it all.
- **Consumers**: a message is never multiplied, never lost while the connection
  lives, tried a bounded number of times, and settled in the end.
- **Application**: providers are destroyed once, in reverse order, after the
  drain; probes and jobs behave during shutdown; close() settles and releases.
- **Container and modules**: one instance per token, dependencies first, cycles and
  missing providers reported exactly when they exist, a failure leaves no trace;
  every imported module compiled once, an importer's provider wins over an imported one.
- **Pipeline**: no handler without admission and every guard; every request is
  answered, each answer has its reason, and what a response held is let go.
- **Rate limit**: no edge, sweep or late request admits more than two windows' worth.
- **Cache**: an old value comes back only from a fill or a `set` under way, and does not last.
- **Buses and routes**: once wired, every handler is reached, whichever other one
  throws; every declared route is found where it was declared.

The hazards (`PROJECT.json`, "hazards") list, line by line, what could go wrong
and which property would notice.

## 2. Modules

    Breaker ---- CircuitBreaker            EventStream <-- SqlEventStore
       |                                   RateLimit + EventSource -- RequestPipeline
       +-------- RabbitConsumer            Container -- Modules + Routing -- Boot
    RabbitConnection, AppLifecycle, Cache  (alone)

`Breaker`, `RateLimit`, `EventSource` and `Routing` hold a class's fields and methods
as operators on a record, a function or a sequence; the modules that extend them have
the variables. `SqlEventStore` implements the abstract `EventStream`. `Modules` extends
`Container` and registers in its variables, and `Boot` composes both with the
hooks, the buses and the routes. `RabbitConnection` and `AppLifecycle` stand alone: each
keeps only what its neighbour needs to know of it (the connection's
re-establishment is one step of `RabbitConsumer`; the connection's disposer is
one step of `AppLifecycle`; its `Listen` begins where `Boot` ends).

A step is what the JavaScript event loop runs without interruption: from one
`await` (or callback) to the next. Definitions commented *Slip* are the mutants:
a plausible mistake in the definition that follows them. They are part of no
specification.

### Breaker, CircuitBreaker (`messaging/circuit-breaker.ts`)

`openedAt` appears as the age of the open state, counted up to the cooldown;
failures are counted up to the threshold: the code only compares them with these.
`Admit` / `Refuse` are `execute` up to `await fn()`, `Succeed` / `Fail` the rest,
`Observe` a read of `current` by anyone. `failed`, `succeeded` and `waited` are
history variables that count what a bystander sees.

### EventStream, SqlEventStore (`cqrs/`)

`EventStream` is the promise: one log, grown by batches, each event stored right
after exactly the events it was decided on. In `SqlEventStore` sessions (request
handlers of any process) `Load`, `Apply`, `BeginSave`, then the transaction of
`append` runs statement by statement: `Select`, `Insert` per event, `Commit`,
and `FinishSave` resumes `save()`. The state that `when()` builds is abstracted to
the sequence of events given to it. The database is external: it isolates
uncommitted rows, makes an INSERT wait for a key held by an open transaction,
refuses a stored key, may roll back at any statement (`Rollback`), and may lose
the answer to a COMMIT (`CommitUnanswered`); a session may `Crash`. One stream is
modelled: statements on other streams do not touch its rows. Snapshots are not
modelled yet.

### RabbitConnection (`messaging/connection.ts`)

Each run of `start()` or `reconnect()` is a *driver*: sleeping, connecting,
creating its channel, or running the set-ups on it (`SetupDone` one by one; the
first is the topology, the others the consumers). `Drop` is a close event from
the broker; `HandleClose` runs only for connections whose listener was set.
`EstablishFailed` covers a step rejected because the connection is gone and one
rejected although it is alive. `Close`, `ChannelClosed`, `ConnectionClosed` are
`close()` await by await. A publisher that awaits a ready promise that is replaced is
`orphaned`: nothing wakes it any more. The whole set of registered set-ups is known before
`start()`, as in `wireRabbit`; `registerSetup` on a live channel is left out.

### RabbitConsumer (`messaging/rabbitmq-module.ts`, `retry.ts`)

One subscription. `Deliver` is the consumer callback up to the handler call, or,
with the breaker open, up to its end; `HandlerResolves` / `HandlerRejects` what
follows the handler; `Retry` a backoff timer. Handlers and timers remember the
channel they captured. What is sent is on the wire until `BrokerProcesses` it, and
lost with the channel (`Drop`, `Crash`), when the broker requeues unacknowledged
copies with their old header. Backoff delays are left out: timers fire in any order.

### AppLifecycle (`core/`, `scheduling/`, `http/server.ts`, `http/health.ts`)

`create()` hook by hook, `StartScheduler` (an invalid cron expression in the
middle throws), `Listen`; requests, probes and jobs that take as long as they
like; `close()` phase by phase: grace period, drain or time-out, destroy hooks in
reverse, disposers in reverse. Any hook may throw. `listen()` is used once, before
`close()`: the documents show no other use. The callers of `close()` are the program, as
often as it likes, and the signals, which have a handler from `listen()` until `close()`
begins (`SignalsInstalled`); a signal without handler, and the `process.exit` at the end of
a signal's `close()`, end the process and are no steps.

### Container (`core/container.ts`)

`resolve()` is synchronous and recursive; the model runs it as a stack machine so
that a failure in the middle leaves what it leaves in the code. `frames` is the call
stack, `resolving` the container's own array of tokens, popped in `finally`
(`Unwound`); `instances` is the Map, in its insertion order, which is the order of
the hooks in `AppLifecycle`. `ReturnCached`, `NotRegistered`, `Circular`, `Enter` are
the branches of `resolve`, `Construct` and `ConstructFails` the end of an
instantiation; `Register` is any set of providers, `Resolve` and `InstantiateAll` what
callers ask for, again and again, after failures too. A provider is its list of
injected tokens. `docs/modules.md:100` speaks of reverse registration order for the
destroy hooks: the code's order is that of construction. Left out: `registerValue`,
which only a unit test calls, and the skipping of a value object seen twice in
`getInstances`.

### RateLimit, EventSource, RequestPipeline (`ratelimit/`, `http/`)

A request is a record: what its `RequestContext` holds for later stages, and its
`stage`, the `await` it is suspended at. `Arrive` is the route handler up to its
first `await`: context, static headers and, on a limited route, the `hit` (counted
synchronously, in `MemoryStorage`). `Enforce`, `JwtGuard`, `CustomGuard` (one guard
per step, the class's first), `ReadParam` (one parameter with its schema per step),
`CallHandler` and `HandlerReturns`/`HandlerThrows`/`HandlerStreams` are the
continuations. `Failed` is the catch block, `Answered` a response with the headers
collected so far, when the span of `instrumentRequest` ends. What user code answers is
free: a guard passes, refuses, throws or reads the request's stream; a schema rejects
or throws; a handler throws, or answers with a status of its own. What it throws may be any
exception, those of the framework too (`Throws`); `chosen` in the history says that user
code chose the status, while `Refuses` is an exception of the framework and notes its name.
`AnswersAreReal` asks for the reason of a status only where user code did not choose it, and
for the headers in any case: user code is taken not to delete headers that it did not set.
`taken` is the request's stream, read once; `bodyRead` the context's memory of a parsed body. An event stream keeps a
`Stream` record: the loop of `sseResponse` with its timer and listener; `SourceYields`
is a message (one that `JSON.stringify` cannot print throws), `SourceEnds` the end or
an exception, `ClientGone` the abort. `Stop` closes the storage as `HttpServer.stop`
does first; requests on connections kept alive still arrive. Two clocks of the code are
one: `now`, in model milliseconds. `log`, `took` and `admitted` are history. All requests share
one key. Of parameters, those that read no stream are all `plain`.

### Cache (`cache/cache.service.ts`)

One key. `Get`, `Factory`, `Set` are `getOrSet` await by await; writers change the
source of truth and then `Delete` or `Overwrite` the key. Redis is external: single
commands are atomic, may fail with or without having had their effect, and the key
expires (`Age`). In `EmptyVersions` the factory returns `null`, which is stored and
never counts as a hit. `floor` is history: the version that a delete without an older
fill under way made the oldest one to be seen.

### Modules, Routing, Boot (`core/module.ts`, `http/server.ts`, `cqrs/`, `testing/`)

`Modules` runs the recursive `visit` of `compileModules` as a stack: `VisitRoot`,
`VisitImport`, `SkipImport` (a class seen before, whatever metadata the second import
brings), `RegisterModule` (after its imports; `Map.set` keeps a token's place and
replaces its provider). `Merged` puts a dynamic module's metadata behind the
decorator's. `Routing` is the routes map with the endpoints of OpenAPI and health written
over it, the matcher and dispatch of in-memory tests, and the server's fallback. A path
is the sequence of what stands between its slashes, so that `/` is one empty segment and
`/users/` ends with one. Parameters keep their names in the map's keys (`/users/:id` and
`/users/:name` are two entries); in `Matches` a parameter takes one segment that is not
empty, and the wildcard, wherever it stands, the empty string or more, also over slashes, as
the expressions of `RouteMatcher` do. Parameters and wildcards are whole segments here. Bun's
own router is external: it is taken to match as `RouteMatcher` does. `Boot` is `Application.create`, and
`TestingModuleBuilder.compile` with `createTestApp`, from `compileModules` to the
routes: `Instantiate` and `ResolveNext` take `Container`'s steps, also of constructors that
throw, `InitHook` runs the hooks in
the order of `instances`, `WireCqrs` finds the handlers among the instances (a value that
overrides a class carries no decorator), `MakeServer` makes the map. Callers may use the
buses from the moment that they exist, as constructors and hooks do. `HandlerSettles`
is one `dispatch`; `wired` is the set of the event's handlers, because they are all called
at once. Constants name whatever may be registered, imported or mounted (`Entries`,
`Controllers`, `Programs`), so that the theorems range over all of it. One event, one command, one token for the three buses;
`QueryBus` is `CommandBus` under another name. `publish` and `publishAndWait` differ
only in who awaits.

## 3. Runs

| Run (module) | Bounds | Shows |
|---|---|---|
| `circuit_breaker` (`CircuitBreaker`) | 3 callers, thresholds 2, cooldown 2 | thresholds exact, cooldown complete, not open for ever |
| `event_store` (`SqlEventStore`) | 2 sessions, 4 events | the log invariants, atomic saves, progress, refinement of `EventStream` |
| `event_store_shared` (violation) | 3 events, apply during save | an event applied during save() is forgotten |
| `rabbit_connection` (`RabbitConnection`) | 1 loss, 2 rejected set-ups, 2 set-ups, retries 0 and 2 | live channel, reconnects, close ends the loops, publishers get their channel |
| `rabbit_consumer` (`RabbitConsumer`) | 2 messages, 3 attempts, 1 loss or crash | one copy, conservation, bounded calls, settling |
| `rabbit_consumer_loss` (violation) | 1 message, 1 loss | a message lost between ack and retry |
| `app_lifecycle` (`AppLifecycle`) | 2 providers, 2 jobs, 2 calls of the program and a signal, 1 request, 1 probe | order of shutdown, drain, readiness, overlap, settling, release |
| `container` (`MCContainer`) | 3 tokens, up to 2 dependencies each | every graph of providers: outcome as the graph says, one construction, dependencies first |
| `boot` (`MCBoot`) | 6 decorated modules, 10 tokens, test roots of up to 2 imports, 5 kinds of override, 3 routes in 2 controllers over 5 paths and 2 prefixes | modules once and importers first, overrides, handlers reached, routes found |
| `request_pipeline` (`MCRequestPipeline`) | 3 requests, limit 1, window 2, 2 ticks, 2 guards, 2 uses of the body | limit over window edges, admission before handlers, reasons of answers, everything answered, streams let go |
| `event_stream_silent` (violation) | 1 stream | a silent source keeps everything after the client has gone |
| `cache` (`Cache`) | 2 callers, 2 writers, 2 writes, 1 fault, time to live 2, one version without value | what a stale value may do, and that it expires |

Why the bounds are enough to meet the interesting cases: three callers let two
late outcomes meet a third call's probe; four events give batches of several rows
against each other and a repeat after an unanswered COMMIT; one loss with two
rejections gives two overlapping loops and a connection left behind whose close
event hits the healthy one; three attempts and two messages let one message's
failures open the breaker for the other before, between and after its attempts;
a signal and two calls by the program let another call come before, during and after the
one that works, whoever made it; three tokens with two
dependencies each give diamonds, cycles of every length, repeated and missing
dependencies. A limit of one and three hits on one key over two windows decide whether
an edge, a sweep or a stop gives a hit away; a JWT guard, a guard of the user's and two
body parameters give every order of reading the body, and the form parameter of another
route fails on content and type. In `MCBoot`, `users` and `orders` import each other,
`extra` and `cqrs` are dynamic (`extra` in two versions), one class is no module, one
provider needs itself, and roots import in both orders; the three routes range over paths
that coincide, overlap through parameters of two names or a wildcard, match the root and URLs
that end with a slash, and collide with `/health`, with the OpenAPI endpoints off, on, and on
with their page. Two
fills against two invalidations on one key, one of them failing, give every order of
read, write, delete and store. `MCContainer` treats tokens as interchangeable: sound,
because the run checks only invariants, and they name no token.

The violation runs state what a document says and the code does not do; each is
explained in `PROJECT.json`, "findings", with the quoted line.

`CHECK_DEADLOCK FALSE` stands where the system really comes to rest: a closed
connection, a stopped application, all messages settled, all requests answered, an
application that serves or was rejected and whose bus calls are over.

### Fairness

- `CircuitBreaker`: only the clock. Callers may stop calling, `fn()` may hang.
- `SqlEventStore`: the database answers and the event loop resumes `save()` (weak
  fairness); a waiting INSERT has its turn although others take and release the key
  (strong fairness: databases queue the waiters of a key). Callers need not go on.
- `RabbitConnection`: timers fire and pending calls are answered (weak); an attempt
  to connect that is made again and again succeeds at some time (strong fairness of
  `Connected`). Rejected set-ups are bounded, hence no fairness is needed for them.
- `RabbitConsumer`: the broker delivers and processes frames, handlers settle in
  either way, timers fire, a lost connection is replaced.
- `AppLifecycle`: the steps of `close()`: its timers fire, hooks and disposers settle.
  Nothing of requests, probes and jobs.
- `RequestPipeline`: the continuations of a request that arrived (promises of guards,
  schemas and handlers settle). None for clients, sources, the sweep and the clock.
- `Cache`: Redis answers or fails, factories settle, time passes; nobody has to call.
- `Boot` and `Container` have safety properties only and no fairness.

### Known deviations

Differences between the code and its documents that the models show and that no run
of their own keeps. The models follow the code in each.

- A call admitted before the breaker opened can succeed while it is half-open and
  closes it without a probe (`circuit-breaker.ts:59`; `docs/messaging.md:86`, "half-opens
  to test recovery before closing again").
- While the breaker is open each delivery counts as a failed attempt, so a message can be
  dead-lettered without one call of its handler (`rabbitmq-module.ts:124`;
  `docs/messaging.md:79`).
- `close()` during `establish()` leaves the connection that it makes open
  (`connection.ts:44`, `:61`; `docs/deployment.md:37`, consumers "are released").
- A destroy hook that throws leaves timers, consumers and disposables as they are
  (`lifecycle.ts:30`; `docs/scheduling.md:57`, "all cron jobs, intervals, and timeouts are
  cleared when the application closes").
- An `@Sse` response carries neither the static headers nor `X-RateLimit-*`
  (`sse.ts:97`; `docs/rate-limiting.md:3`, "to every response").
- `TestApp` takes the first path that matches and answers 405 if it lacks the method; the
  server goes on to other entries and to its fallback (`test-app.ts`;
  `docs/testing.md:3`, "exactly as in production"). So with `GET /users/:id` and
  `POST /users/:name` it answers `POST /users/1` with 405. `RoutesAreFound` says which of
  the two answers what and claims agreement where one path matches.
- A `keyGenerator` that throws is answered by the catch block without `X-RateLimit-*`, as
  the hit was not counted (`enforce.ts:16`; `docs/rate-limiting.md:52`, "Every response to a
  rate-limited route carries").
- `docs/modules.md:134` lets `close()` run the destroy hooks first and dispose the HTTP
  server afterwards, with the other resources. The code stops and drains the server before
  the hooks (`application.ts:127`), as `docs/deployment.md:35` says and
  `DestroyedAfterDrain` states.
- A readiness probe that began before `close()` can be told that the application is ready
  afterwards, as the flags are read before the checks are awaited (`application.ts:63`;
  `docs/deployment.md:34`, "`/ready` starts returning `503`"). `NoReadyAfterClose` is about
  probes that come after `close()` has begun.
- The override of a controller that the testing module itself mounts is lost, because
  controllers are registered after providers (`module.ts:87`; `docs/testing.md:33`).
- On a cycle of imports a module's provider can be overruled by one that it imports only
  indirectly; `ImporterWins` excludes it.
- `docs/modules.md:100` speaks of reverse registration order; it is the reverse of the
  order of construction.

## 4. Proofs

`CircuitBreakerProofs` proves, for every set of callers and all positive
thresholds and cooldowns (`BreakerAssumption`), type correctness, `NeverLate`,
`CoolsDownFirst` and the action properties `NeverEarly` and
`NothingStartsWhileOpen` (which no run repeats). None is inductive alone: `IInv` adds that the counter of
the current state is the history of outcomes (failures when closed, successes when
half-open) and that the age of an open breaker is at most the time really waited.
The lemmas on `Opened`, `Closed`, `Current`, `OnSuccess`, `OnFailure` say what each
method does to a record of the type; one lemma per action shows that it keeps
`IInv`. The action properties follow from `IInv` and the same lemmas.

`SqlEventStoreProofs` proves, for any set of sessions, any number of events and
whether or not aggregates are changed during their `save()`: type correctness,
`StreamIsALog`, `AckedIsStored` and the action property `GrowsByWholeSaves`. The
invariant `IInv` rests on one observation. An event at place i of a stream, of an
aggregate or of a batch was applied to an aggregate of exactly i - 1 events
(`Placed`), so no event can be stored under two versions, even when a save whose
COMMIT was not answered is repeated. Neither the code nor the state says so, which is why
`basis` is kept as history. `SaveInv` adds what an open transaction knows: a batch
that holds keys starts right after the committed rows, and `OneHolder`: at most one
transaction holds keys, because every first key is the same one. Without them a
COMMIT could leave a gap. `SessionStep` and `CommitStep` carry the preservation
argument; each action is reduced to one of them, `ApplyIInv` stands for itself.

The second half of the module assumes `~ApplyDuringSave`, the discipline under which the
run checks `ImplementsEventStream`, and proves `CleanAggregateIsPrefix` (an aggregate
without unsaved events is a past state of the stream) and `ImplementsEventStream`
(`Spec => Stream!Spec`). `GInv` adds that an aggregate is a
prefix of the stream followed by its unsaved events, that a running `save()` is about
exactly these, and that every event was applied to exactly the events before it
(`Grounded`). Then COMMIT makes the stream equal to what the aggregate holds
(`CommitMakes`), which is the abstract `Store`; `apply` is the abstract `Decide`, and
all other steps stutter. The assumption is needed: `event_store_shared` shows what
happens without it.

`RabbitConnectionProofs` proves, for any retry limits, set-ups, losses, rejections and
publishers, type correctness, `CurrentIsOpen` and `EstablishApart`: two runs of
`establish()` never hold the same connection. `CurrentIsOpen` does not follow from itself:
the last set-up of one loop may run while another loop's connection is lost. `DriverInv`
gives every loop a connection of its own, one that nobody else knows while its channel is
being made; `ConnInv` that only an open connection can be used or watched; and
`CurrentInv` that the current one is watched, so its loss reaches `HandleClose`.

`RabbitConsumerProofs` proves, for any messages, attempts, prefetch and faults, with or
without a dead-letter queue, type correctness, `CallsBounded`, `AtMostOneCopy` and
`Conserved`. The copies are in the broker's queues, in handlers, in timers and in frames
on the wire, so that counting them action by action leads nowhere. `PlaceInv` says instead
where a message is: in exactly one of *ready*, *delivered*, *waiting* in a timer, *under
way* on the wire and *dead-lettered*, or nowhere (`IsGone`, `IsNew`). One thing makes this hard: the
code acknowledges first and sends the retry later, so the broker may still hold the old
copy and give it back on a loss. It never has both, because on one channel
the acknowledgement stands on the wire before what is sent after it (`IsUnderWay`), and a
timer of a lost channel publishes nothing that arrives (`Alive`). Each place also bounds
the number of calls by the attempt in the copy's header and the deliveries undone by
faults: that is `CallsBounded`. `AckInv` and `RunInv` relate handlers and frames to what the
broker holds, `CountInv` a message's calls to its outcomes. A step that touches one message
leaves the others where they are (`Still`). `LiveFacts` turns places into numbers of copies.

`AppLifecycleProofs` proves, for any providers, jobs, requests, probes and callers of
`close()`, type correctness, `OrderlyShutdown` and `ReleasedUnlessHookThrew`. `OneWorks`
says that at most one call of `close()` is past the test of `closed`; then its phase alone
decides which providers are destroyed (`DestroyInv`), that the server no longer accepts and
is drained or forced (`DrainInv`), and that armed timers still have someone to clear them
(`ReleaseInv`). `BootInv`, `JobInv` and `ProbeInv` hold `create()`, the overlap guard and the
probes together with it.

`BootProofs` has four parts. Of `Container` it proves, for any tokens and any providers
registered at any time, type correctness (`ContainerTypeCorrect`), `OutcomeIsReal` and
`DependenciesFirst`. What a token needs (`Needs`) is the
least set closed under dependencies, which needs no recursion. `StackOK` is the heart: each
call on the stack waits for the one above it and the dependencies before that one exist, so
the token of a call needs all above it, and meeting a token again means a cycle.
`Ordered` (dependencies first) makes the instances a closed set without a cycle, hence a
success is one; and the stack of tokens is the stack of calls, so that a failure, which
empties both, leaves no token behind.

Of `Modules` it proves `ModulesCompose` for any classes, decorators and entries, with
cycles, diamonds and classes met as several dynamic modules (`ModulesAreComposed`).
`VisitsOK` reads the stack of visits: they are of different modules, each one reached from
those below it, the root at the bottom; the lists that a visit works on cover what its
module declares, so that an import that is not seen yet is still to come (`Covers`). `VisitedOK` is what a finished visit leaves: its imports are
visited, or in progress, and then they may import it in turn, and no provider of its own has been
overruled by a module below it. When the stack is empty nothing is in
progress, so the compiled modules are closed under imports and hold all that the root
reaches. `RootWins` follows because the root's visit is the first one and registers last.
`Imports` is contained in `MayImport`, the relation that counts every entry of a class: only
this one is needed when a class is met with other metadata than those compiled.

Of `Routing` it proves, for any declarations, what `buildRoutes()` makes: after n of them
each path has one entry, entries stand in the order of the first declaration of their path,
and each method has its last handler (`RoutesUpTo`); the endpoints of OpenAPI and health
replace an entry's methods or add an entry, and move none (`Enlarges`). So the first entry
that matches is the first declaration that does (`DispatchAsDeclared`).

Of `Boot` it proves type correctness (`BootTypeCorrect`), `BusesReachHandlers`
(`BusesReach`) and `RoutesAreFound` (`RoutesFound`), for any program, requests and number
of bus calls. `BootIInv` joins the invariants of the container and the compiler with
`BootPhaseInv` (after `instantiateAll()` every registered token has an instance), `WiredInv`
(so the wiring finds every handler of the application, and before it there is none),
`CallsInv` (a call that is not early has all handlers behind it or before it, whichever
threw) and `RoutesInv` (the server's routes are those of the registered controllers). They
rest on `ContainerAssumption`, `ModulesAssumption` and `BootAssumption`, which type the
constants and no more; run `boot` evaluates them.

Folds are written as recursive functions here (`KeysAfter`, `BuildRoutes`; `FlattenSeq` of the
library is one). Such a function is the one that has the values of the rounds, if
there is one; `IterationExists` shows by the smallest counterexample that there is, and the
facts about it are proved round by round (`UpTo`): sets take the place of the operators that
the library's induction theorems want.

`RequestPipelineProofs` proves, for any requests, routes, limit, window and clock, type
correctness, `AtMostTwiceTheLimit`, `HandlerWasAdmitted` and `AnswersAreReal`.
`MemoryStorage` forgets a window when it ends; `LimitInv` keeps the windows that the
admitted hits fell into (`Windows`) as the witness of an existential quantifier: windows do not overlap,
none has more than `MaxHits`, and a span of one window's length meets at most two of them
(`TwoWindowsApart`). Sweeping and stopping keep it. The other half is about one context at
a time: `Legal` relates its stage to its history, the parts of the body that
it read and the headers collected so far; one lemma per action (`EnforceLegal`,
`ReadParamLegal`, ...) shows that it leads from a legal context to a legal one, and
`Answerable` is what the catch block needs to know to answer as `AnswersAreReal` demands.

`CacheProofs` proves, for any callers, writers, writes, time to live and faults, type
correctness and `NothingOlderAfterQuietDelete`. `FloorInv` says where a value older than
the floor can not be: not in a readable entry, and not with anyone about to store it; a
caller's own floor is one of the past.

For the proofs' sake `LiveCopies` of `RabbitConsumer` counts copies by `Cardinality`,
`Needs` of `Container` and `Reach` of `Modules` are least closed sets, and the methods of a
route are a function written out: the provers could not follow a recursion, or `@@`.

Every safety property that a passing run checks, invariant or action property, is proved.
Only model-checked: liveness and everything under fairness (`OpenIsNotForever`,
`SavesSettle`, `Reconnects`, `LoopsStop`, `AwaitedChannelArrives`, `EveryMessageSettles`,
`CloseSettles`, `RequestsAreAnswered`, `StaleExpires`), which is out of the proof system's
reach.

## 5. Plan

1. Done: breaker, event store, connection, consumers, application, container; proofs of
   the breaker and of the event store with its refinement.
2. Done: visiting of modules composed with the container, buses, routes and tests
   (`Boot`); the request pipeline with rate limit and event streams; the cache.
3. Done: proofs of every safety property of the connection, the consumers, the
   application, the container, the pipeline and the cache.
4. Done: proofs of every safety property of the modules, the buses and the routes.
5. Possible: a subscriber of the dead-letter queue as a second `RabbitConsumer`; snapshots;
   a channel on which publishers meet the set-ups of `RabbitConnection`.

### Not modelled

- Snapshots of the event store (the repository never uses them), `registerSetup` on a
  live channel, what `publish()` does before the topology is declared.
- Dynamic modules other than the root bring providers but no imports of their own in the
  instances; overrides are by value (`useClass` registers a class as any provider does);
  parameters and wildcards are whole segments of a path; every OPTIONS request asked about is a
  preflight request; paths of the OpenAPI and health endpoints are the defaults.
- Storages for rate limits other than `MemoryStorage`, several `@RateLimit` windows on one
  key, the order in which Bun's router prefers matching paths, the callbacks of a
  WebSocket, the file contents and headers of static files and CORS.
- JWT verification, OpenAPI documents, the configuration of Bun's SQL and Redis clients, the
  OpenTelemetry SDK's start and shutdown, CLI and scaffolding, errors, logger, colors: pure
  functions, formatting or I/O without state of their own.
