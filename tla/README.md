# servekit: specification, model checking and proofs

Servekit is a Go library for building services: a server that runs HTTP and
gRPC listeners together, and kits around it for clients, authentication,
databases, chat bots and errors. This directory holds TLA+ specifications of
the parts that have behaviour over time, TLC configurations that check them on
small instances, and TLAPS proofs for every size of the instance.

## Inventory

The parts of the system, what they keep and what makes them correct. "Hard"
names what tests hardly reach.

| Part | State | Operations | Hard | Correct when |
|---|---|---|---|---|
| `Server` (server.go) | the map of listeners, its RWMutex | `RegisterListener`, `Serve` | the lock is kept for as long as Serve runs; goroutines that end in any order | Serve serves what is registered, ends with its context or with a listener's failure, leaves nobody behind, reports the failure |
| HTTP and gRPC listeners (http_listener.go, grpc_listener.go) | the server object; two or three goroutines per call | `Serve`, `handleShutdown` | a shutdown before, during and after the start; a deadline racing the end of a drain; a second Serve | every Serve that is told to stop returns, no request outlives it, a cut is reported |
| HTTP client (http_client.go) | per request: counter, last response; the breaker is shared | `NewClient`, `RoundTrip`, `doRequest`, `sleepWithContext` | attempts, bodies and errors on every way out of the loop; cancellation asleep | all attempts are made, one body at most is open, cancellation ends it |
| M2M token cache (kinde/m2m.go) | token and expiry behind an RWMutex | `Token`, `tokenRequest` | double-checked locking; a slow answer near the expiry | no dead token is returned, no request is redundant |
| JWKS provider (jwtkit/jwks.go) | key store, key cache, time of the last fetch behind an RWMutex | `refresh`, `fetchJWKS`, `getVerifier` | look-up and refresh lock separately; failed or odd documents | keys are those of a fetch not older than the interval |
| Schema evolution (litekit/schema_evolution.go) | the database file: schema, version | `MutateSchema` | crashes between statements; starts that overlap; older releases | every mutation is applied once and whole releases at a time |
| litekit connection (litekit/conn.go) | database handle, replication; outside of it the file and its replica | `New`, `Close`, restore and backup | partial failure of the constructor; crashes and lost disks between backups | what is in the replica, or was in the file at a clean close, is not lost |
| retry (retry/retry.go) | a counter | `Do`, backoffs | timer against context; the last attempt | attempts and waits as configured |
| HTTP pipeline (middlewares.go, respond.go, handlers of http_listener.go) and gRPC interceptors (grpckit) | the log hook in the request's context | middlewares, health handlers, error responses | a hook nobody set; a header written after the body | one response per request, its error logged once |
| Kinde management API (management.go) | none; it uses the token cache | `do` | a token that dies between the cache and the API; a revoked token that stays cached; whose error it is that a call reports | a call is told that it is unauthenticated only for a token that was revoked, or by the token endpoint |
| Kinde client, middleware (kinde.go, middleware.go) | discovered configuration | `NewClient`, middleware | a discovery that fails | claims reach the handler |
| jwt token manager (jwt.go) | keys | `Sign`, `ParseVerify`, `Validate` | time boundaries | a token is valid exactly in its interval |
| errkit reporter, sentrykit | process-wide `reporter`, `sync.Once` | `RegisterReporter`, `Report`, `Init` | two registrations at once | one reporter, a second registration is told so |
| pgkit, pgmigrate | a pool, one acquired connection | `New`, `Close` | Close waiting for a connection nobody releases | Close returns |
| tgkit payments (bot.go, payments.go) | bot configuration; the rest is Telegram's and the program's | options, invoices, refunds, subscriptions, `PaymentFromUpdate` | order of options; updates that repeat and overtake; a crash between the key and the grant; answers that get lost; sums of prices | every charge is granted once or lost in a crash, what was reported done is done |
| tgkit Mini Apps (miniapp_auth.go) | none | the two validators, the middleware | clocks that differ; data of other bots and environments | accepted data is what Telegram issued to this bot, not long ago |
| tgkit channels, buttons (channel.go, miniapp.go) | none | checks of arguments, one call each | limits | only what Telegram accepts is sent |
| slackkit | client | messages, block validation | limits | only what Slack accepts is sent |
| chkit, mongokit, rediskit, hashkit, idkit, logkit, mailkit, tern | none of their own | constructors, one external call | nothing of theirs | - |

How they interact: `Server.Serve` calls `Serve` of each registered listener in
an errgroup and passes it the group's context; a listener owns a net/http or
grpc-go server, whose requests run through the middlewares and interceptors
and report errors through the log hook and errkit; the Kinde client uses the
M2M cache for its own requests and the JWKS provider for those it receives;
the management client takes the token of each of its calls from the M2M cache;
the HTTP client takes its backoff from retry; a program that uses litekit opens
the database, evolves its schema and then serves; a bot is itself a listener of
the server, or has its webhook mounted on the HTTP listener.

## Plan

In the order of how much depends on them; done up to the line.

1. `Server`, `Listener`, and `ServeKit`, which composes them and implements
   `Server`; the proofs `ServerProofs`, `ListenerProofs`.
2. `HTTPClient`.
3. `M2MToken`, `JWKS`: the two caches of authentication.
4. `Evolver`: the database's schema over starts, failures and crashes.
5. `Pipeline`: one request through middlewares, handlers and interceptors,
   with the log hook and the response it gets.
6. `Litekit`: the connection (`New`, restore, replication, `Close`) over
   crashes and lost disks, with the partial failures of the constructor.
7. `Retry`: `Do` and the backoffs.
8. `Management`: the calls of the management API over the token cache.
9. `Payments` and `MiniApp`: the two parts of tgkit with behaviour over time.
10. The proofs of all of them but for what "Only model-checked" below lists:
    `ManagementProofs`, `JWKSProofs`, `RetriesProofs`, `LitekitProofs`,
    `TelegramProofs`, `PipelineProofs`, and in `ServerProofs` the simulation of
    `Server` and of `Listener` by `ServeKit`.
11. `ChargesAreSane` as a theorem, with the lemmas on sums it needs; what the
    liveness properties rest on, as invariants and descents of steps.

---

12. `Reporter`: the one-time registration of errkit; the rules of slackkit and
    of tgkit's channels, as operators checked against a reference definition.

## Modules

Every module names the Go it models in its comments; the names of actions and
variables are the code's where that is possible. An operator whose comment
begins with "Mutant:" is a plausible mistake in the code, kept beside the
definition it would replace: the property that is meant to catch it fails when
it does.

### Server

One Server object, any calls of `RegisterListener` (`Registrars`) and of
`Serve` (`Serves`). `sync.RWMutex` is modelled with its writer preference: a
writer announces itself (`Lock`), waits for the readers inside, and makes later
readers wait (`pc = "blocked"`). `Serve` keeps the read lock until it returns,
as the code's deferred `RUnlock` does. Each turn of its range is an action
(`StartListener`), so that listeners may already run, fail and cancel the
group while others are being started. `groupErr` is the errgroup's first
error. A listener is only the `Listener` interface: `ListenerReturns` and
`ListenerFails` are possible at any time; the fairness assumption
`ListenerStops` is what the interface asks of an implementation.

### Listener

Any calls of `Serve` (`Calls`) on any listener objects (`Of`), HTTP or gRPC
(`Kind`). A call has the goroutine that serves (`serve`), the one that runs
`handleShutdown` (`shutdown`) and, for gRPC, the one that runs `GracefulStop`
(`stopper`). The server objects of net/http and grpc-go are external and are
known by the calls made on them: `closing` (no new connections), `stopped`,
and `busy`, the number of connections that carry a request. A request may
never end: only `ForcedStop` makes it. `Deadline` may come at any time in the
drain, also when the drain has just ended, since the code's `select` may take
either.

### ServeKit

A `Server` whose listeners are `Listener`s. The module extends `Server` and
instantiates `Listener` with one call for each goroutine that a Serve may start
(`Goroutines`); the context of such a call is a state function of Server's
variables (`ListenerCtx`), and each goroutine ends with what its listener
returned. A Serve whose group's context ends cancels the context of all its
calls at once, which is why `Cancel` of `Listener` is about a set of calls.
`ImplementsServer` states that this composition satisfies `Server`'s
`FairSpec`: what `Server` assumes of listeners is shown of the kit's own.
`ReturnedIsQuiet` and `NilMeansNothingCut` say what follows for the program, and
neither module could state them alone.

### HTTPClient

`RoundTrip` of several requests that share one client. The client is any that
`NewClient` makes of its options (`NewTripper`), or the retry loop as it is
written with attempts to repeat: `NewClient` never sets `maxAttempts`, so no
client it makes repeats an attempt, and the loop's own bounds are checked on
`RetryLoop`. An attempt ends in an outcome (`Outcomes`), which `Decide` sorts
as the code does; a backoff that is nil panics. The circuit breaker is external:
it may open at any failure and refuses attempts over its concurrency limit.

### M2MToken

`Token` with its double-checked locking, as read lock, write lock, second
look and request, and a clock: an answer is issued by the authorization server
at some instant (`Issue`), read later (`Store`), and its lifetime counts from
the reading. The assumption on the constants states what makes the buffer
work: a request takes less time (the HTTP client's timeout) than the buffer
takes off. An error of the token request is one of two kinds: the endpoint has
answered with a status other than 200 (`Rejected`), which `tokenRequest` wraps
as `ErrUnauthenticated` whatever the status, or anything else has failed
(`Fails`).

### Management

The calls of the management client, each of which is one of `M2MToken`'s
callers: the module extends `M2MToken`, and every step of `Token` is a step of
the call that waits for it. A request carries the token that `Token` returned
and arrives at the API within the HTTP client's timeout; the API answers 401 if
the token has died, by the server's count of its lifetime, or was revoked, and
any other status if not. `MapHTTPError` decides which of them the call reports
as "unauthenticated". `do` wraps the errors of `Token` too, so that a call whose
token request was `Rejected` reports the same with no request sent; `refused`
tells the two apart (`Refuse`). The assumption on the constants is what the buffer must
cover: the token request and the API request together. With the defaults (30
seconds and twice 10) it does, unless tokens live for less than 40 seconds.

### JWKS

Calls that verify tokens against the keys of a provider. Time is one bit: the
refresh interval is over or not. Documents are sets of keys, sets of keys in
which a member has the wrong type (decoding changes the store and then fails),
documents without keys, and the value null, which makes `refresh` panic with
the lock deferred. Entries are taken to have all of their members.

### Evolver

Starts of a program on one database file. Statements of the schema script
commit one by one; the version is read before the transaction; each turn of the
loop is an action inside it; any statement may fail, any two may have a crash
between them, and starts may overlap. In the states the model reaches the
version is never negative, so the first `continue` of the loop is never taken.
The backup is only a statement that may fail: what the copy contains depends
on SQLite's write-ahead log, which is not modelled. The model also reaches, by
a crash between creating the version table and inserting its row, a database on
which every later start fails to read its version.

The code takes a mutation's version to be its place in the sorted directory
(schema_evolution.go:234). `ReleasesExtend` is what it relies on by that: a
later release adds its files after those of an earlier one. The instance of the
run meets it and the theorems assume it; without it an applied file would change
its version, and the properties fail.

### Litekit

The connection of one database over many processes. `New` goes through
`configureBackups` call by call (stat, the restore target, the restore, opening
the replication), then connects; any call may fail, and what was opened before
stays open, as in the code. The file, the replica and what a `Close` that
returned nil has promised are sets of writes. The program writes until
`DB.Close`, hence also while the backup is being closed; litestream copies at
any time; the process may exit anywhere; the disk may be lost while it is down.

### Retry

`Do` as a loop of one call and one wait, with the context ending at any time.
Durations are whole milliseconds, which is what the constructors cut them to;
`NextWaits` is the set of all the waits that `Next` may return, and is empty
where `rand.Int64N` panics. The factor of an exponential backoff is any natural
number: the constructor takes 0 as well, with which it waits for no more than
its jitter from the second retry on.

### Payments

One bot, one invoice. The bot is the one `New` makes of a list of options; the
invoice is validated as the call it is offered with does; then Telegram, which
is external, asks, charges, renews, refunds, and tells of it in updates that it
delivers in any order and again. A call may be refused, fail, or fail after it
was carried out (`Answers`). The options are those that can touch the mode or the
secret of a webhook: `WithMode`, `WithWebhook`, and `WithTelegramOptions`, which
hands the client any options of its own in call order and so can set the secret
again or clear it, without `New` noticing.

The program is the one that the comment of `PaymentEvent` describes. An update
is in the bot's memory once the client has taken it (`Receive`), and may or may
not be delivered again; the program persists the idempotency key (`Handle`) and
then grants (`Grant`), in two steps, and may crash between any two (`Crash`).
`lost` remembers the charges that only its memory had. A webhook whose secret is
not set takes a request from anybody (`Foreign`), so that the check of the
options matters for what is granted. Prices are integers of the width `MaxInt`
gives and wrap around. The lengths of texts are one flag.

### MiniApp

Initialization data, its way through a client that may alter or keep it, and
the services of several bots. Hashes and signatures are records of what they
were made with and over: two are equal only if that is equal, which is what HMAC
and Ed25519 are for. `now` is the service's clock and Telegram's is `skew`
ahead. Which acceptance the history variable `first` remembers is left open.

### Pipeline

One request goes down a chain of layers, through a handler, and up again. The
chain is the program's global middlewares followed by those that
`configureHealth`, `configureMetrics` and `configureProfiler` give their
routes, or the interceptors of a gRPC server. A handler is the sequence of what
it does: sends a status, writes, calls the log hook with or without looking
whether there is one, fails to render, panics, returns an error. The kit's
handlers and response functions (`JSON`, `TemplateHTML`, `TEXT`, `HTML`,
`Status`, `ErrorHTTP`, `ErrorGRPC`) are operators that give all the sequences
their code allows (a status the program sends is 0, for none, or one that
net/http does not panic on: `PipelineConstants`); the program's own handlers do one of these things or panic.
Every logging layer has its own `reqErr` and `skip`, and hides those of the
layers above it, as the context's values do. The first status sent is the one
that counts, for the wrapped response writers as for net/http. What
`WithErrorReport` adds is left to the reporter's module.

## Runs

All runs disable deadlock checking, because every one of these programs ends.
Three runs check two independent parts of a kit each (`retries`, `litekit`,
`telegram`). `Retries`, `Database` and `Tgkit` put the two parts side by side,
so that one module has the properties of both; in the run's MC module a variable
`part` says which of the two a behaviour is of, and the other part keeps its
first state. In `telegram` the payments are split once more: one kind of
behaviour has every bot and two invoices, another every invoice, one bot and only
what leads to a charge. Types (`TypeOK`) are a part of each inductive invariant that is
proved, and no run checks them; nor do the runs check `NoOrphans` and
`CutIsReported`, which are proved too and which the properties of `servekit` rest
on.

| Run | Instance | Shows |
|---|---|---|
| `server` | 2 names, 1 listener, 2 Serves, 2 registrations | `ServesTheMap`, `ResultFaithful`, and under fairness `StopEndsServe`. Two of each actor are what the lock needs to be contended, two names what a failure needs to have a bystander |
| `listener` | three listeners, any two of five calls, 1 busy connection | how a Serve ends: `NilOnlyAfterCancel`, `ReturnMeansQuiet`, and under fairness `ShutdownTerminates`, `ServeEndsWithServer`. Two calls on one object are the smallest instance in which one call's shutdown meets another's start |
| `servekit` | an HTTP and a gRPC listener, 1 busy connection each, one Serve, two registrations | `ReturnedIsQuiet`, `NilMeansNothingCut`, `ImplementsServer`. Two listeners are what one's failure needs to shut another down |
| `retries` | the client: 2 requests, nine clients, 2 retries, a breaker for 1 attempt at a time; `Do`: 0, 1 and 4 attempts, 50 backoffs | `OneOpenBody`, `AllAttemptsMade`, `ResultIsTheCalls`, `WaitsAreBounded`, `AttemptsAreBounded`, and under fairness `CancelEndsEither`. Four attempts let a growing backoff reach its maximum and stay there |
| `client_retries` | a client made with 2 retries | violated: `ConfiguredRetriesAreMade` (http_client.go:262) |
| `m2m_token` | 2 callers, lifetimes of 0 and 4, a buffer of 2, requests of at most 1, 8 ticks | `ReturnedIsLive`, `NoRedundantRequest`, `RefusedOnlyIfRevoked`, and under fairness `CallsReturn`. Eight ticks are two lifetimes: a token is obtained, renewed and expires again |
| `jwks` | 3 calls, 3 keys, 4 documents, 2 intervals | `CacheIsLastAnswer`, `NoExpiredKeys`, `FetchOnlyWhenStale`, `CallsEnd`. Two expiries let a call's fetch be overtaken by the end of the next interval. The documents of this run all have keys; what one without them does is the next run |
| `jwks_withdrawn` | a document without keys | violated: `CacheIsLastAnswer` (jwks.go:80) |
| `litekit` | the schema: 4 starts of 3 releases; the connection: all access modes, with and without backups, 4 writes, 2 replications in a process | `AppliedOnceInTurn`, `WholeReleases`, `OkMeansApplied`; `NothingReplicatedIsLost`, `CleanCloseKeeps`, `WritesSurvive`. One release is started twice, so that a start that failed is repeated, and the directory has a file that is no mutation; four writes are one before and one after each of a copy and a loss |
| `evolver_twice` | 2 starts of a release | violated: `AppliedOnce` (schema_evolution.go:156) |
| `telegram` | payments: every list of at most two options that makes a bot, an invoice in Stars and one in euros, 2 charges; what leads to a charge: one bot, 214 invoices in each of three calls, prices at zero, at the limit and at the ends of an int64, tips at their order, number and maximum; Mini Apps: 3 bots, 2 users, 2 issues, 4 instants, 3 skews | `GrantedOncePerCharge`, `ToldIsDone`; `ChargesAreSane`; `AcceptedIsAuthentic`, `AuthenticIsAccepted`. Two charges let one update repeat before and after another, and one be granted while a crash loses the other; two options that set the mode or the secret can contradict each other in either order; what is charged does not depend on how the bot was made; two issues let a hash or a signature be moved from one to the other; two of the bots differ in their environment only |
| `pipeline` | every built-in route and response function, every join of six sentinels, six chains of middlewares, four of interceptors | what the client, the log and the metrics see of a request: `OneStatus`, `ErrorIsLogged`, `RenderFailureIs500`, `SameVerdict`, `AbortsAreKnown`. Requests share nothing in these layers, so one is enough; two logging layers are the smallest chain in which one hides another |

Bounds: `MaxBusy` (connections with a request), `MaxTime` (the clocks),
`MaxFetches` (ends of the refresh interval), `MaxWrites`, `MaxStreams`
(replications a process may leave open), `MaxCharges`, `MaxIssued`, at most one
revocation, and in `MCListener` two calls out of five (`AtMostTwoCalls`).
Nothing else is cut. The users of `telegram` are symmetric: no definition tells
them apart, and the run has no liveness property.

The models also show some things that are no run of their own. A client made
without `WithRetries` has no backoff, and `Decide` panics for it on a 5xx, on
a 429 without Retry-After and on a transport error. A sleep that is cancelled
after a retryable answer, a context that ends before the next turn closes that
answer, and the panic of a nil backoff leave its body open (`open[r] = 1` with
`ret[r]` "ctx" or "panic"): `OneOpenBody` allows it in these cases and no other.
A listener that was shut down and is served again takes `ErrServerClosed` for
its own success and waits for its context, which is the exception
`ServeEndsWithServer` makes. Serve's comment speaks of retries and of
`ErrRetryLimitReached`; the code makes no retries. The same comment says that a
Serve whose context is canceled returns the context's error (server.go:56); it
returns nil if its listeners end without an error, and a test expects that
(server_test.go:58). `ResultFaithful` states what the code does. After
a last attempt that failed in the transport `RoundTrip` returns neither a
response nor an error (`ret[r] = "nilnil"`).

Of the pipeline: with the default configuration, in which no layer logs, a
health check that fails calls a nil hook and panics; the JSON report of a
failed check is written before its 503 and so is answered with 200, the
message of the error after it; a logging interceptor panics on an error that
was not given to the hook, also when an interceptor below took it; a plain
error is counted by `MetricsInterceptor` with the code of success; a panic
that goes through a logging layer leaves no line. `AbortsAreKnown` and
`ErrorIsLogged` say exactly when. The comments of respond.go (176, 249) say that
an error given to the hook will be logged with the access log line, and those of
190, 214 and 238 that errors of writing after the status can be logged;
`LoggingMiddleware` writes the hook's error only if the status is 500 or more
(middlewares.go:76), so that of a 404 by `ErrorHTTP`, or of a write lost after a
200, is in no line. `ErrorIsLogged` states what the code does.

Of the server: README.md:43 of the repository says that Serve blocks "until all
listeners stop or the context is canceled". A Serve queued behind a registration
that is itself queued behind a running Serve has no lock yet and does not see its
context; `StopEndsServe` makes this exception, and says that there is no other.

Of the databases: if `New` fails after the replication was opened, the
replication goes on and is closed by nobody (`streams` stays above zero in
`failed`), and if the ping fails the handle is not closed. What is written
between the closing of the backup and that of the handle is in no copy:
`CleanCloseKeeps` speaks of what the file had when `Close` was called. A restore
timeout that is left at zero expires at once. `JournalModeFromString` compares
lower case with upper case names and knows none (conn.go:110). The backup that
`MutateSchema` makes copies the main database file only, and every start
overwrites the last; a crash in the schema script leaves a database on which
every later start fails.

Of retry: the last attempt is followed by a wait like the others; the limit's
error says nothing of the last failure; a jitter below a millisecond, which is
cut to zero, makes `Next` panic at the first retry; with jitter a wait may
exceed the maximum (`WaitsAreBounded` says by how much); an exponential backoff
of factor 0, which its constructor accepts, keeps no minimum.

Of authentication: a token endpoint that answers with anything but 200, a 503
included, makes a call of the management API report `ErrUnauthenticated`
(m2m.go:116, management.go:118), with no token refused. A revoked token stays in
the cache after the API has refused it, until the client would have renewed it
anyway. `RefusedOnlyIfRevoked` says that there is no third case.

Of tgkit: prices whose sum is below the smallest int64 count as positive; a
negative price of a subscription does not, since Stars take one price only. Initialization data that is
dated ahead of the service's clock is good for as long as it is ahead plus its
age (`AcceptedIsAuthentic`). A program that persists the key of a payment before
it grants, as `PaymentEvent` asks (payments.go:62), loses the grant in a crash
between the two: the update that comes again is a duplicate by its key. So does
one that crashes with an update in memory that will not be delivered again.
`GrantedOncePerCharge` allows these losses and no other. `WithTelegramOptions`
(bot.go:244) after `WithWebhook` can clear the webhook's secret while `New`
takes the webhook for configured; what such a bot grants may be anybody's
(`bot.secret = "cleared"`), and only what such a bot grants.

## Fairness

- Goroutines that can run are scheduled: weak fairness of the steps between two
  blocking points, in every module.
- Locks: the writer that holds the RWMutex's inner lock gets in once the
  readers have left (`Server`); neither readers nor writers starve
  (`M2MToken`, `Management`, `JWKS`, strong fairness, as `sync.RWMutex`
  documents).
- Timers fire: the shutdown timeout (`Listener`), the timeout of the HTTP client
  that fetches keys and tokens. `HTTPClient` assumes no answer at all, since
  by default it sets no timeout, but the transport and the sleep give up when
  the context ends. `Retry` assumes nothing of its timer either, and of the
  function only that it returns once its context is done.
- Nothing is assumed of callers (no cancellation is fair), of requests
  (none need end) or of listeners failing.

## Proofs

Each module of proofs defines an inductive invariant of named parts and proves
that the initial states have it, that every action keeps each part, and that it
implies the properties. The theorems hold for any values of the constants that
the assumptions below allow: any sets of callers, listeners, names, keys,
documents, releases, options or layers, and any bound.

| Theorem | States |
|---|---|
| `ServerProofs!TypeCorrect` | `Spec => []TypeOK` |
| `ServerProofs!MapIsServed` | `Spec => []ServesTheMap` |
| `ServerProofs!NoneLeftRunning` | `Spec => []NoOrphans` |
| `ServerProofs!ResultIsFaithful` | `Spec => []ResultFaithful` |
| `ServerProofs!NoCircularWait` | `Spec => []BlockedBehindServes` |
| `ServerProofs!WriterIsNotOvertaken` | `Spec => WriterIsNext`, of steps |
| `ServerProofs!KitImplementsServer` | `KitSpec => Spec` |
| `ServerProofs!KitRunsListeners` | `KitSpec => LP!Spec`, the specification of `Listener` |
| `ServerProofs!ProgramMayExit` | `KitSpec => []ReturnedIsQuiet` |
| `ServerProofs!NilIsGraceful` | `KitSpec => []NilMeansNothingCut` |
| `ServerProofs!ProgramIsNotStuck` | `KitSpec => []ProgramGoesOn` |
| `ListenerProofs!TypeCorrect` | `Spec => []TypeOK` |
| `ListenerProofs!NilAfterCancel` | `Spec => []NilOnlyAfterCancel` |
| `ListenerProofs!QuietOnReturn` | `Spec => []ReturnMeansQuiet` |
| `ListenerProofs!CutsAreReported` | `Spec => []CutIsReported` |
| `ListenerProofs!NobodyIsStuck` | `Spec => []NeverStuck` |
| `ListenerProofs!EndsAreNoticed` | `Spec => []EndIsNoticed` |
| `ListenerProofs!ReadinessStays` | `Spec => StaysReady`, of steps |
| `ListenerProofs!StepsAreFinite` | `Spec => StepsDescend`, of steps |
| `ManagementProofs!TokensAreLive` | `Spec => []ReturnedIsLive`, of `M2MToken` |
| `ManagementProofs!RequestsAreNeeded` | `Spec => []NoRedundantRequest`, of `M2MToken` |
| `ManagementProofs!RefusalsAreRevocations` | `ManagementSpec => []RefusedOnlyIfRevoked` |
| `ManagementProofs!ImplementsCache` | `ManagementSpec => Spec` |
| `ManagementProofs!LockIsGivenBack` | `ManagementSpec => []LockIsShort` |
| `ManagementProofs!StepsAreFinite` | `ManagementSpec => StepsDescend`, of steps |
| `JWKSProofs!ExpiredKeysAreNotUsed` | `Spec => []NoExpiredKeys` |
| `JWKSProofs!FetchesAreNeeded` | `Spec => []FetchOnlyWhenStale` |
| `JWKSProofs!WaitsAreForFetches` | `Spec => []LockMeansFetch` |
| `JWKSProofs!StepsAreFinite` | `Spec => StepsDescend`, of steps |
| `RetriesProofs!BodiesAreClosed` | `Spec => []OneOpenBody`, of `HTTPClient` |
| `RetriesProofs!AttemptsAreMade` | `Spec => []AllAttemptsMade`, of `HTTPClient` |
| `RetriesProofs!DoResult` | `Do!Spec => []ResultIsTheCalls` |
| `RetriesProofs!DoWaits` | `Do!Spec => []WaitsAreBounded` |
| `RetriesProofs!DoAttempts` | `Do!Spec => []AttemptsAreBounded` |
| `RetriesProofs!CancelEndsRoundTrip` | `Spec => CancelledRoundTripEnds`, of steps of `HTTPClient` |
| `RetriesProofs!CancelEndsDoSoon` | `Do!Spec => CancelledDoEnds`, of steps |
| `LitekitProofs!ReplicaIsKept` | `Conn!Spec => []NothingReplicatedIsLost` |
| `LitekitProofs!PromisesAreKept` | `Conn!Spec => []CleanCloseKeeps` |
| `LitekitProofs!WritesAreKept` | `Conn!Spec => WritesSurvive`, of steps |
| `LitekitProofs!NothingIsLeftOut` | `Spec => []OkMeansApplied`, of `Evolver` |
| `LitekitProofs!MutationsAreAppliedOnce` | `Spec => []AppliedOnceInTurn`, of `Evolver` |
| `LitekitProofs!ReleasesAreWhole` | `Spec => []WholeReleases`, of `Evolver` |
| `LitekitProofs!NothingWithoutItsRow` | without the row of schema_version: no mutation applied, no call returned nil |
| `LitekitProofs!RowlessIsForGood` | `Spec => [][Rowless => Rowless']_vars`, of `Evolver` |
| `TelegramProofs!SaleTypes` | `Spec => []TypeOK`, of `Payments` |
| `TelegramProofs!AmountsAreSane` | `Spec => []ChargesAreSane`, of `Payments` |
| `TelegramProofs!EachChargeIsGranted` | `Spec => []GrantedOncePerCharge`, of `Payments` |
| `TelegramProofs!NilMeansDone` | `Spec => []ToldIsDone`, of `Payments` |
| `TelegramProofs!AcceptedWasIssued` | `A!Spec => []AcceptedIsAuthentic`, of `MiniApp` |
| `TelegramProofs!IssuedIsAccepted` | `A!Spec => []AuthenticIsAccepted` |
| `PipelineProofs!StatusesAgree` | `Spec => []OneStatus` |
| `PipelineProofs!LinesAreWhole` | `Spec => []ErrorIsLogged` |
| `PipelineProofs!FailuresAre500` | `Spec => []RenderFailureIs500` |
| `PipelineProofs!VerdictsAgree` | `Spec => []SameVerdict` |
| `PipelineProofs!BreaksAreKnown` | `Spec => []AbortsAreKnown` |

Hardly any of the properties is inductive by itself. What has to be added to
them, beside the types:

- `Server`: what a Serve in the middle of its range has done (what it started
  is what is registered, because no writer can be inside while it is), that a
  Serve not yet inside has started nothing (`MapInv`), that the group's error is
  the name of a listener that failed (`ErrInv`), and that the result is that of
  the group (`ResultInv`).
- `Listener`: a call whose shutdown goroutine has passed its wait has its
  context done or an error recorded, and a cut leaves an error in the group
  (`CauseInv`); a server some call has begun to force or has finished shutting
  down is closing, and a finished shutdown left nothing busy (`QuietInv`); Serve
  returns what the group kept (`ReturnInv`).
- `ServeKit`: two simulations. A step of the program is one of `Server` or
  leaves it alone; it is also one of `Listener`, where the end of the group's
  context is one cancellation of all the calls of that Serve (`ContextStep`).
  Both specifications' theorems then hold of the program, and `LinkInv`
  (a goroutine that has ended has what its call returned, one that has not been
  started has a call that has done nothing) joins them into `ReturnedIsQuiet`
  and `NilMeansNothingCut`.
- `M2MToken` and `Management`: the writer is the caller between its lock and the
  end of its request (`LockInv`); a request is within its timeout, and the cache
  has nothing valid while it lasts (`RequestInv`); an answer was issued after it
  was asked for (`AnswerInv`), hence the client's expiry is before the server's
  (`TokenInv`), and before it by the duration of an API call (`MarginInv`,
  `SentInv`).
- `JWKS`: the writer fetches, and only when the keys are stale (`LockInv`); the
  oldest fetch a call may use is the last one, or the next if the keys are stale
  (`SinceInv`).
- `HTTPClient`: the one open body is that of the response in hand (`BodyInv`),
  and the counter counts the attempts sent (`CountInv`). `Retry`: every call so
  far failed retryably (`CallsInv`), every wait is one its backoff gave for the
  attempt before it (`WaitsInv`).
- `Litekit`: how many replications may be open at each step of `New`
  (`StreamsInv`); the file is never behind the replica, and `New` goes on
  without a file only if there is no replica (`FileInv`); what `Close` has
  promised, or will, is replicated (`PromiseInv`).
- `Server`'s lock: the pending writer is the one registration that has asked for
  it, and a Serve waits only behind one (`LockInv` of `ServerProofs`).
- `Evolver`: a transaction stands at the version of the last mutation in it
  (`TxInv`); up to the version anyone is at, no mutation of any release is left
  out, whatever overlaps (`CoverInv`); without overlap the database has the
  mutations up to its version in their order (`TurnInv`). Of schema_version: as
  long as it has no row nobody is past reading it (`RowInv`), whatever the
  releases are.
- `Payments`: a webhook has a secret, or had one that was cleared (`BotInv`), so
  that updates tell of charges, or come to a bot without its secret
  (`UpdatesInv`), and charges are what the sale asked for (`ChargesInv`). A
  payment in hand has its key persisted, is the only one with it, and is of a
  charge that is not lost (`HandInv`); the same holds of what is granted, which
  is in hand no more (`GrantedInv`); a key is persisted only of a charge that is
  in hand, granted or lost (`KeysInv`), a charge with no key is still coming or
  lost (`ComingInv`), and what is lost cannot come into hand again (`LostInv`).
  What was reported done is (`ToldInv`). What is charged is what the invoice that was accepted asks for
  (`OfferInv`), and the validator's running total is the sum of the prices as
  far as an int64 has it (`TotalIsSum`). `MiniApp`: what is issued is dated by Telegram's clock and of
  one of the bots (`IssuedInv`), the request in hand was judged at its time
  (`LastInv`), and what was accepted first is not ahead of it by more than the
  validator allows (`FirstInv`).
- `Pipeline`: the chain and the handler are ones that a server may have
  (`ShapeInv`), what is left of the handler is the end of it (`ProgInv`), and a
  request is where its handler's progress says (`PlaceInv`); panics come from a
  panic or from a hook nobody set (`CauseInv`); a handler that answered has sent
  a status (`StatusInv`); the layers that the request has left report the same
  (`ReportInv`); nothing of an answer that does not render is sent
  (`BrokenInv`); a layer is skipped once the layer that silences it was passed
  (`SkipInv`); the error is with the innermost logging layer (`HookInv`), and
  each layer that was left has its line (`LinesInv`); an interceptor was told
  what the method returned (`RPCInv`).

Sums and powers are recursive functions (`Sum`, `Total`, `Power`). What such a
function computes for every length of a list is an induction, and the
library's induction theorems take a predicate, which the provers cannot
instantiate. Its theorem on minimal elements takes a set instead: the lemma
`UpTo` says that a set with 0, and with every number whose predecessor it has,
has them all, since otherwise those it lacks would have a least one.
`LoopExists` (the values of a loop exist), `TotalIsSum` and `PowersArePositive`
rest on it.

### What liveness rests on

That something happens in the end needs the fairness of the steps, and that is
where the proofs stop. What fairness has to act on is proved, for any constants:

- `Listener`: a goroutine that can take its step can until it does
  (`StaysReady`), every step brings its call closer to the return and none of
  another takes it back (`StepsDescend`, at most 13 steps), and a call that is
  stopped or has failed always has a step to take, or one of a call on the same
  listener does (`NeverStuck`). A request that does not end is no obstacle:
  `ShutdownReady` has the timeout, and the forced stop after it. Each goroutine's
  `Ready` is a state predicate that stands for ENABLED of its step; that they
  are the same was checked on the instance of the `listener` run. `EndIsNoticed` is the
  same for `ServeEndsWithServer`.
- `Server`: there is no circle in the waits for its lock
  (`BlockedBehindServes`), and a registration that waits is overtaken by nobody
  (`WriterIsNext`). `ListenerStops`, the fairness that `Server` asks of its
  listeners, is met by the kit's as far as `ProgramGoesOn` says: one whose
  context is done is never stuck.
- `M2MToken`, `Management`, `JWKS`: whoever waits for the lock waits for a call
  that is inside its timeout (`LockIsShort`, `LockMeansFetch`), and a call has a
  handful of steps (`StepsDescend`).
- `HTTPClient`, `Retry`: once the context is done neither loop goes round again,
  and what is left of it is at most three steps (`CancelledRoundTripEnds`,
  `CancelledDoEnds`).

### Hypotheses

The hypotheses are the assumptions on the constants that the modules state
(`ServerConstants`, `ServeKitConstants`, `ListenerConstants`, `TokenConstants`,
`ManagementConstants`, `JWKSConstants`, `ClientConstants`, `EvolverConstants`,
`PipelineConstants`, and, stated in the theorems because the modules are
instantiated, those of `Retry`, `Litekit` and `MiniApp`, and `PaymentsConstants`
for the theorems on the sale), and `ReleasesExtend` as said above. There is no
theorem for `CacheIsLastAnswer`: it holds only of documents that have their
keys, which the endpoint is not bound to send, and the run `jwks_withdrawn` shows
that it fails of others.
`NothingWithoutItsRow` and `RowlessIsForGood` need no `ReleasesExtend`. The
powers of `Retry` are those of whole numbers: where `math.Pow` overflows to
+Inf, `math.Min` takes the maximum as it does for any large number. Only a
minimum of zero, times +Inf, would be no number, after more retries than the
factor has powers in a float64.

Only model-checked: `CacheIsLastAnswer`, and everything under fairness, that is `StopEndsServe`,
`ShutdownTerminates`, `ServeEndsWithServer`, `CancelEndsEither`, `CallsReturn`,
`CallsEnd`, and of `ImplementsServer` the fairness (its safety is
`KitImplementsServer`). The proof system does not reach liveness or ENABLED.

## Not modelled

chkit, mongokit, rediskit, hashkit, idkit, logkit, mailkit and tern are thin
constructors over libraries, with one external call or none. TLS, dialer and
pool settings only configure net/http. Durations are not computed with: a
Retry-After or an expires_in that overflows a Go duration is outside the
models, and so is a backoff. slackkit, and the channels and buttons of tgkit,
check lengths and combinations of arguments before one call. The Kinde client's
discovery, its middleware and the jwt token manager are one call after another
on values; the reporter of errkit and pgmigrate are below the line of the plan
or, for the latter, one acquired connection that `Close` of the pool waits for.
Metrics and logs appear only where a property is about them.
