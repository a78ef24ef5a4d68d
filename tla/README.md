# Verification of the SendsPlatform core

TLA+ models of the concurrent and distributed parts of this repository, checked with TLC on small
instances and, where a result matters for every size, proved with TLAPS. Every module is
translated from the Go source; `PROJECT.json` maps each definition to the lines it stands for.

## 1. The system

A student platform of five Go services behind a gin gateway: `user` (login and binding), `school`
(scrapes the school's pages), `boBing` (a daily dice game), `yearBill` (a yearly statement) and
`gateway` (HTTP and websocket front). They share MySQL, Redis, RabbitMQ and etcd. Under
`app/common` is the platform's infrastructure: four transaction coordinators, circuit breakers,
registries, worker pools, caches, configuration, security, observability.

### Inventory

| Component | State it keeps | Operations | Hard behaviour | What makes it correct |
|---|---|---|---|---|
| TCC transaction manager (`tcc/txmanager.go`, `txstore.go`, `idempotency.go`) | log row in MySQL, copy in Redis, idempotency marks, monitor lock | `Transaction`, try goroutines, `advanceProgress`, monitor `run`, `GetHangingTXs`, `TXUpdate`, `TXSubmit` | several nodes advance one transaction; read-modify-write of the component list; lock expiry; crash; timeout against late answers | Confirm only after all ACKs, Cancel only for a cause, every transaction settles |
| TCC coordinator (`tcc/tcc.go`) | map of transactions with status | `BeginTransaction`, `ExecuteTransaction`, `CleanupTransactions` | concurrent executions of one transaction, calls that take effect and report an error | nil means all confirmed; what is cancelled is released; calls return |
| Etcd coordinator (`tcc/transaction_coordinator.go`) | record in etcd | `StartTransaction`, `RetryTransaction`, compensation | executions overwrite each other's record, writes whose error is dropped | a confirmed record is real |
| Saga orchestrator (`tcc/saga_orchestrator.go`) | execution records | `Execute`, `compensate` | deadline between steps, failing compensations, two calls with one ID | backward compensation of executed steps, whole completion |
| Dice game (`boBing`) | rank row, submission rows, records; Redis key, dice positions, counts, ranks, blacklist | key, publish, forward, count, day initialisation, broadcast check | values read early and written back late, two goroutines sharing `err`, a key fetched and destroyed in two calls | scores agree, quota kept, a replay never counts and is banned |
| Year bill (`yearBill` with the gateway session) | users, bills, learns tables; cached rank and data; counter; task queue | websocket session, `DataInit` task, rank, data, appraisal | early acknowledgement, redelivery, expiry, crash, overlapping tasks of a student | a place has one holder, a stored bill stays, a student gets the bill |
| Discovery breaker (`discovery/circuit_breaker.go`) | state, generation, counts, expiry | `Execute`: `beforeRequest`, `afterRequest` | requests outlive generations | counts belong to their generation, only probes close |
| Gateway breaker (`gateway/middlewares/circuit_breaker.go`) | the same | the same, and the gin middleware | the same, no expiry | a half-open breaker is decided, and refuses only while it waits for a probe |
| Worker pool, priority pool (`performance/worker_pool.go`) | job channel, pool channel, contexts; priority queue | `Submit`, `SubmitWithTimeout`, `dispatch`, `Stop`; `Push`, `Pop`, `sort` | channel rendezvous against `Stop`; push and pop in two sections | a job is in one place and is executed; most urgent first |
| Request merger, batch processor (`performance/request_merger.go`) | request channel, batch, response channels | `Submit`/`Add`, collector, `Close` | send on a closed channel, nil from a closed channel | nothing lost, doubled or reordered |
| TCC participants and registry (`*/service/tcc_components.go`, `tcc_integration.go`, `tcc/registry.go`) | Redis reservations, the row and the counter they touch | `Try`, `Confirm`, `Cancel` of nine components, five operations | the key a reservation is stored under and the key it is looked up under; expiry; repeated tries; a Try that panics | what a successful transaction promised is written, a place is reserved once |
| Back pressure, limiters (`performance/semaphore.go`, `request_merger.go`) | channels, rates, counters | acquire, release, adjust, `Stop` | a limiter replaced while requests wait on it; counters behind another lock than the permits | bounds hold across replacements, waits are served |
| Gateway rate limiters (`rate_limiter.go`, `limiter.go`) | tokens, windows, keys with expiry in Redis | `Allow` | arithmetic of elapsed time, window edges, expiring keys, scripts whose answer is lost | at most so many requests in a window |
| Tokens (`security/jwt_manager.go`, `utils/jwtUtils.go`, `gateway/middlewares/auth*.go`) | keys, refresh tokens, sessions | issue, refresh, revoke, rotate, replace the secret of an id; the checks of a request | two refreshes of one token, revocation during a refresh, rotation between the two reads of the keys, late answers after a timeout | dead tokens stay dead, a refused token had a cause, one answer per request |
| Roles (`security/rbac.go`, `rbac_manager.go`, `middlewares/rbac_enhanced.go`) | roles, permissions, users with copies of permissions; policies and an enforcer | add, update, delete, assign, remove, check, of roles, users and policies | the copies must follow every order of operations, from lists a caller hands over; a rule the enforcer refuses, a removal that fails unnoticed | a permission is held through roles and what the caller gave; the enforcer differs by failed calls only |
| Configuration (`config/*.go`, `governance/config_management.go`) | value per key in etcd and in each node's cache; versions, changes; backups | set, delete, roll back, watch; create, activate, reload; backup, restore | a cache written by calls and by any number of watches, each at its own pace; values and version read under two locks; watchers told outside the lock | a stale copy has a cause, one version is active, a backup is not newer than its version |
| Hot reload (`utils/hot_reload.go`) | registered clients, the channel of changes | register, swap, reload, close | a client closed under its user; two receivers of one channel; one kind of client failing; names that come and go with the file | registered clients are open, one kind does not hold up the others |
| Events (`patterns/observer.go`, `event_persistence.go`) | subscriber slices, queues; stores, archive, snapshots | subscribe, publish, sort; save, archive, restore, replay | slices that share an array; archiving against saving | everybody told once, archiving loses nothing |
| Caches (`container/cache_manager.go`, `advanced_cache.go`), warmer, scheduler, adaptive pool (`performance/cache_warmer.go`) | two levels per node, guards, jobs, workers | get, set, delete; block, call; schedule, stop; submit, scale | write-back of a deleted value; a map written under a read lock; a send while the lock is held; a channel closed under a sender | staleness has a cause, stop is received, the counter counts |
| Discovery (`utils/discovery`, `discovery/service_registry.go`, `load_balancer.go`), governance, database router | leases and keys in etcd, cached lists, counters, breaker per service, health of slaves | register, keep alive, build, resolve, watch; select; call with retries; query, shard | one Resolver under the clients of four services; expiry and failure at any point of a registration, fetch against watches, pointers that outlive their service, a call that panics with a lock held, overflow of a hash | the lists follow etcd, shares follow weights, calls return |
| Retry and recovery (`errors/*.go`) | policy, strategies | execute, classify, recover | the order of a Go map decides the class of an error; zero delays with jitter | attempts and delays within bounds, an execution ends |
| Websocket broadcast, user logins outside TCC, school scraping, routers, handlers, observability, factories, encryption, generated and deployment files | – | – | – | not modelled, section 8 |

Interactions: the gateway calls the services over gRPC; the year bill's session publishes to
RabbitMQ and polls Redis; the TCC manager calls participants registered by the services; the
monitor of every node works on the same MySQL log under one Redis lock; registrations and
configurations meet in etcd, where every process sees the others through leases and watches. The
breakers, pools, limiters, guards, buses and balancers are libraries used inside one process and
share no state with one another.

## 2. Modules

| Module | Models | Granularity |
|---|---|---|
| `TXManager` | one transaction, its try goroutines, foreground, monitors of all nodes, both copies of the log, marks, lock | one step per Redis, database or component call; any call may fail, and a failed write may have been applied; a node may crash between steps |
| `TCCOutcome` | the abstract contract: Confirm and success need every acceptance, effects are final | – |
| `TCCCoordinator`, `TransactionCoordinator`, `Saga` | one transaction or saga with overlapping executions | one step per component call and per write of the record |
| `BoBing` | one player, one day | one step per Redis or database call, the look-up of one position of a throw among them; `UpdateRank`, a database transaction, is one step; the shared `err` of the two goroutines is a variable of its own |
| `YearBill` | students, tasks, requests, queue, cache, tables | one step per call; the transaction of `StorageData` is one step |
| `CircuitBreaker`, `GatewayBreaker` | one breaker, concurrent callers | one step per critical section; a clock for the first |
| `WorkerPool`, `PriorityPool`, `RequestMerger`, `BatchProcessor`, `Permits`, `AdaptiveLimiter`, `AdaptivePool`, `Scheduler` | one pool, merger, limiter or scheduler | one step per channel operation or critical section; a rendezvous is one step of both sides; a send that waits while its sender holds a lock is a state of its own |
| `RateLimiters` | four limiters over one key | a Lua script is one step, and was applied or not when its answer is lost; discrete seconds, keys that expire |
| `CacheGuards`, `TwoLevelCache` | guards of the cache; one key on several nodes | one step per call of a level; the delete under a read lock is entered and left, so that two may be inside |
| `Recovery` | one execution under any of the back-offs, with the recovery strategies | one step per call of the operation and per wait; an error is the set of patterns in its text, the errors a policy lists as retryable are any set of them |
| `TCCParticipants` | the nine components in the five operations of the services, over the registry | one step per Redis or database call of a Try; the manager is reduced to what `TXManager` is shown to keep |
| `RefreshTokens`, `GatewayAuth` | keys, tokens, sessions, requests | one step per period of a lock, the two reads of the keys of a check among them, and one per look-up, mark and save of a token, parse and unlink; key material is an identity |
| `RBAC`, `RBACManager` | roles, permissions, users; policies and the enforcer | an operation is one step (one lock); a user comes with any of the lists of `Entry`; the enforcer may refuse any rule and fail to remove any |
| `DistributedConfig`, `ConfigVersions`, `ConfigBackups`, `HotSwap` | a key on several nodes, with any number of watches per node; versions and watchers; values, version and backups; clients by name and kind | one step per etcd call, lock period, event a watch takes and call of a watcher or client; a caller makes and registers a client in two steps |
| `EventBus`, `EventStore` | one type of event; two stores | a slice is a header over an array that others share, and Unsubscribe moves one element a step, the sort reads one priority a step; the filters are asked after the lock is released; one step per call of a store |
| `Discovery`, `ServiceRegistry`, `Balancers`, `Governance`, `DatabaseRouter` | registrations and one Resolver that any number of clients share; registry with cache and the goroutine of each Watch call; five strategies; breaker and retries, with calls that panic; slaves and shards | one step per etcd call or lock period; the shared list is read and written in steps of their own; leases expire at any time; the hash of a shard key wraps at the width of an int |
| `*Proofs` | theorems: `TXManagerProofs`, `YearBillProofs` and `BoBingProofs` of the module they are named after; `CoordinatorProofs` of `TransactionCoordinator`, `TCCCoordinator` and `Saga`; `ResilienceProofs` of the parts of `MCResilience` but the rate limiters and of `ServiceRegistry` and `Discovery`; `PlatformProofs` of the other parts of `MCPlatform` and of `RateLimiters` | – |
| `MC*` | instances | `TXManager`, `BoBing` and `YearBill` are run as they are, with the constants of their cfgs; `MCCoordinators`, `MCResilience` and `MCPlatform` hold components that share nothing: the first state picks the part that runs, and the behaviour is one of that part |

`MCResilience` and `MCPlatform` keep the variables of the running part in slots `s1`, `s2`, …: an
`INSTANCE` per part substitutes them for the module's variables. A property of these modules is a
conjunction over the parts, `part = p => …`, of properties that are stated and explained in the
component's module.

Names follow the source. `pc`-like variables name the point a goroutine has reached; the
variables called history or ghost in the declarations (`acked`, `confirmed`, `executed`,
`granted` …) record what happened and are never read by an action of the code they observe.
An operator whose comment begins with "Mutant" is a wrong variant of the definition below it; it
is used only to show that the property it is listed with in `PROJECT.json` can fail.

Abstractions worth knowing:

- Transactions of `TXManager` share only the lock, so one is modelled. `age` has three values:
  young, past `Timeout`, past 30 minutes. The monitor's back-off only delays a tick. A retry of
  SETNX inside the Redis client is not modelled.
- The dice themselves, encryption and decoding are reduced to: which flag, which positions,
  whether the key that was read is the one the client used and whether the parameters are valid.
- A bill is `full`, `lacking` or absent; what the school's pages contain is not modelled. One
  gateway and one consumer with prefetch 1; tasks overlap because the consumer moves on after
  8 seconds.
- The clock of `CircuitBreaker` ticks on its own. `GatewayBreaker` needs none: `toNewGeneration`
  never sets an expiry, so `Timeout` and `Interval` have no effect.
- Where a duration is zero in an instance it means "until the next tick": `TTL <- 0` of `Auth` is
  a token that is fresh at the time it was made and expired one tick later.
- `Governance` and `CacheGuards` have a breaker each; both hold their lock during the call, so the
  call is a state with the lock held.
- Where Go iterates a map (archive, classifier, restore, jobs of the scheduler) the order is any.
- A `Build` of `Discovery` sets the fields of the shared Resolver in one step, and a sync appends
  what it read in one step; an answer of etcd holds one event; a slice is a value. `clientv3.New`
  failing is left out, as `rpc.Init` ends the gateway with `logger.Fatalf` then; a value in etcd
  always parses. The part `shared` leaves the changes of a weight to `names`.
- A caller of `RBAC` and `RBACManager` hands over objects of its own, in lists that name nothing
  twice, and the rules of policies have ids of their own.
- Data races are steps that may interleave (`IsUsed` of a token, the shared array of the bus, the
  limiter pointer of `adjustRate`); a write to a Go map under a read lock is only marked, and
  `OneWriter` says when two meet.
- The claims of CustomClaims hide the registered expiry, so parsing a token does not test it; only
  `ParseToken` does, and only the masses check calls it.
- The packages `tcc`, `performance`, `discovery` and the gateway's middlewares declare some types
  more than once, and `RequestMerger.merger` is a pointer to an interface, so they do not compile
  together as committed (`HashShardingStrategy.GetTable` returns a string where it declares an
  int); each part is modelled by the meaning of its own file.

## 3. Runs

`tlc -config <cfg> <module>` in this directory. All passing runs are exhaustive within the bounds.

| Run | Instance | Properties | Shows |
|---|---|---|---|
| `tx_race` | 2 components, 1 node, timeout | `ConfirmNeedsAllAcks`, `CancelHasCause`, `LogIsBacked`, `SettledIsClaimed` | lost updates of the log delay or cancel a transaction, they never confirm it wrongly; no outcome without the second phase claimed |
| `tx_nodes` | 1 component, 2 nodes, 2 attempts, 30 minute expiry | `ImplementsTCC`, `OneSecondPhaseRun` | whatever executors overlap, the manager implements `TCCOutcome`, and the marks let one of them begin a Confirm or Cancel |
| `tx_crash` | 1 component, 1 node that may crash once, restart | `EventuallySettled`, `EventuallyReturns` | liveness under failing calls and a crash at any point |
| `bobing_publish` | 2 publishes of 2 dice with 2 positions, 1 day initialisation, 1 throw a day, 2 flags, 2 keys | `ScoresAgree`, `RowsSound`, `NeverOverdrawn`, `ReplayIsBanned` | after all requests the two scores are the sum of the records; spare rows unused; quota of a row never below zero; a throw with a position that was saved before it was decoded never counts and bans, however the look-ups of other throws fall between |
| `bobing_faults` | a publish, a forward, a query, a broadcast check, any call failing | `ConditionWithinGrants` | lost updates lose throws, never invent them |
| `yearbill_faults` | 2 students, 2 tasks, 2 clients, 3 requests, Redis, database, broker faults, expiry, 1 crash | `IndexHasOneHolder`, `CacheAgrees`, `StoredOnce` | a place has one holder, cached data is stored data, a stored bill never changes |
| `yearbill_live` | the same without faults | `RankedIsCovered`, `PublishedIsPending`, `MadeIsStored` | "initialised" is never left over, and every student with a row gets the bill |
| `coordinators` | 2 components, first execution and 2 retries, lost writes, a compensator that accepts failed transactions (`DefaultCompensator` does not, so with it compensation never runs: section on claims, `BreakOffIsCompensated`); 2 callers and 2 `BeginTransaction` of one id; a 4 step saga with 2 calls | `ConfirmNeedsAllAcks`, `ConfirmedIsReal`, `TCCSafety`, `SagaSafety`, `SagaUndoBackwards`, `CallsReturn` | what remains true when executions of one transaction overlap |
| `resilience` | the parts below | `CountsAddUp`, `PoolSafety`, `LimiterSafety`, `GuardSafety`, `OnlyProbesClose`, `OpenForTimeout`, `WedgedIsForever`, `ResilienceSteps`, `ResilienceLiveness` | breakers, pools, merger, batches, limiters, guards, retries, scheduler |
| `platform` | the parts below | `AccessSafety`, `CopySafety`, `DiscoverySafety`, `ParticipantSafety`, `PlatformSteps`, `PlatformLiveness` | tokens, roles, configuration, events, caches, discovery, governance, router, TCC components |
| `tx_atomicity` | as `tx_race` | `AllOrNothing`, violated | one executor cancels on the timeout what another confirms |
| `bobing_quota` | 2 publishes, 1 throw a day | `ThrowsWithinQuota`, violated | both are recorded |

### The parts of `resilience` and `platform`

| Part | Instance | What holds |
|---|---|---|
| discovery | 3 callers, 2 probes, trip after 2, time 7 | late reports do not disturb a later generation; with fewer probes than failures needed it stays half-open for ever once all probes failed (`WedgedIsForever`) |
| gateway | 3 callers, 2 of them behind the middleware | requests accounted for; who is refused is refused while a probe is in flight; behind the middleware only a panic trips it, half-open is decided |
| pool, priority | 2 workers, 3 jobs, queue of 2, one Stop; 4 jobs of 3 priorities | a job in one place, handed to live workers, executed; pops match pushes, the most urgent first, equals in order |
| merger, batch, full | 2 requests of 2 keys, 2 closes; 4 items in batches of 2; a queue that is full | in one place until answered, the collector answers; handed over in order |
| adaptive, permits | 2 requests, rates 1 to 2, 2 generations; 3 clients, 2 permits | one bucket per generation; who waits on a replaced full limiter waits for ever, everybody else is served; statistics lag by the steps under way only |
| rate | capacity 2, windows of 3, keys of 5 seconds, time 6 | the bound each limiter really has |
| recovery | 0 or 2 retries, delays 10 to the limit, errors with none, one or two patterns, two of them listed as retryable or none | attempts and delays bounded, a listed error is not given up early, an execution ends |
| guards | 2 keys with colliding hashes, 2 callers | breaker counts, no false negative |
| jobs, scaled | 2 jobs, 2 callers, 2 strategies; 1 to 2 workers, 3 spawned | who sends Stop has a receiver, one goroutine per job, the lock is given back; the counter counts, only ScaleDown can make a Submit panic |
| tokens, signed | 2 callers, 2 tokens of one key; 1 caller, 2 key ids whose secrets are replaced | dead tokens stay dead, also when a Save puts one back; a signed token validates until it expires, or the secret of its id was replaced |
| auth, rotations | 2 key ids, 2 keys, a session, a request; one rotation and a clock, two rotations without | answers accounted for; a token is refused for its expiry or for a key that was gone at some moment of the check; a user leaves the cache with a cause |
| roles, policies | a user that comes with nothing, a role or a permission, 2 roles, 2 permissions; a policy of 2 rules | copies are those of the roles, and what the caller gave, in every order of operations; the enforcer matches but for rules refused and removals that failed |
| config, lagging | 2 nodes, 2 callers, a watch, 2 revisions; a caller on one node, two watches on the other, 3 revisions | a cache has the value of one of its watches or of an own call; a node that makes no calls converges |
| versions, updates | 2 versions and 1 reload; 1 version updated under 2 reloads | one active version; an undisturbed reload tells everybody |
| backups, restores | 2 setters, 3 versions; 1 setter, 4 versions | a backup is not newer than its version, backups ordered |
| swap, uses | 2 kinds; 3 clients, a reload; 2 clients, a user, two reloads of which the first drops the Redis client from the file and the second names it again | registered clients are open, open ones accounted for, one kind does not hold up the other |
| bus, async | 3 subscribers in one array; one with a queue of 1 | a Publish no Unsubscribe overlaps tells everybody once, and in order if no priority changes during its sort; listed once |
| events | 1 event, 2 jobs, time 3 | only old events are archived, archiving loses none |
| cache | 2 nodes, 2 callers | a stale local value has a cause |
| names, shared | a server of 2 leases, a client, 1 fault; a server of 1 lease, 2 clients that share the Resolver | the client of the last Build is told what etcd has; only another client disturbs a sync; with one client: back in etcd after every expiry, the resolver converges |
| registry, leases | 2 callers, 2 watches and a foreign process; 1 caller that registers twice | what a watch has handled is cached unless a fetch raced; Stop empties |
| balance | 3 instances of weights 2, 0, 1 | shares are weights, connections counted, the ring moves with health only |
| calls | 2 clients, trip after 2, 1 retry, calls that fail and panic | closed below the threshold and not from there on, nobody inside an open one, the lock is used, calls return |
| router | 2 slaves of which one connected, 16 bit hash | the rotation is fair, errors are slave queries |
| tries, retries | 2 transactions; 1 with 3 attempts, every operation | a place is reserved once, the dice transaction never succeeds, and Confirm and Cancel of a component that keys by open id find nothing |

### Bounds

Each bound is a constant with a comment. Two components are what a lost update of the list needs,
two nodes what a stolen lock needs, one attempt more than one what a retry needs; crashes,
requests, keys, leases and appraisals are bounded by the smallest number that lets each of the actions
happen before and after each other one. `N = 2` with two nodes and retries is beyond five
minutes, which is why the three TX runs divide the dimensions; the invariants of `tx_race` are
proved for all of them. `MaxTime = 7` lets the breaker open, half-open, close and open again;
`MaxAdmitted` bounds the requests of a closed generation. Saga steps: 4 with 1, 2 and 4
compensable, so compensation passes two compensable steps in order; a step that is not
compensable is passed over when three were executed. A part of the union runs appears twice when
one instance with both dimensions would be too large (`versions` and `updates`, `backups` and
`restores`, `swap` and `uses`, `auth` and `rotations`, `config` and `lagging`, `names` and `shared`,
`registry` and `leases`, `tries` and `retries`): each pair covers two callers with few
resources and one caller with more. The shard hash wraps at 16 bits instead of 64, so that a key
of two characters overflows. Symmetry is used over requests or tasks of
one kind, in runs without liveness.

`CHECK_DEADLOCK FALSE` where a finite set of requests ends; the TX runs check deadlock, as the
monitors never stop.

### Fairness

- `TXManager`: weak fairness of every goroutine, of the clock and of the expiry of the lock key
  (Redis does that); strong fairness of taking the lock, of querying and of submitting, because
  a monitor repeats each of them on every tick and a store that fails for ever is not what
  `EventuallySettled` is about. Nothing is assumed of Confirm and Cancel but that they return.
- `YearBill`: delivery, running tasks and served requests progress. No request has to come.
- Coordinators: a call that began runs on; its steps end with their contexts.
- `GatewayBreaker`: an admitted request ends and a waiting one is tried; nothing is assumed about
  its outcome.
- Pools: workers, dispatcher and collector run when they can, tickers fire, callers take a ready
  answer. Nobody has to submit, close or stop.
- Limiter and scheduler: strong fairness of a waiting Acquire and of the handshake of Stop, as the
  Go runtime hands a channel to its waiters in turn. Registrations: the loop, the watch and the
  tickers go on; the number of failing calls is bounded, as `RegisteredAgain` is about what
  happens once etcd answers. Governance: strong fairness of the breaker's lock (Go's mutex does
  not starve a waiter); the function that is called ends, in any way.
- In `MCResilience` and `MCPlatform` the fair steps of different parts share a number in
  `Goes(n)`. A behaviour has steps of one part only, so weak fairness of a numbered step is that
  of the part's own step.

## 4. Proofs

Checked with `tlapm <module>`; no step is omitted. A theorem rests on the named `ASSUME`s of the
module it is about and on the assumptions in its own statement, which are repeated here. They say
what kind of value a constant is (a finite set, a number, a marker that is not an element) or,
where a fault is excluded, name the fault; none excludes an interleaving. One relates numbers
the code does not relate: `RatesAssumption`, below.

- **`TXManagerProofs`** (any number of components, nodes, attempts and crashes): `Typing`,
  `ConfirmSafety` (`ConfirmNeedsAllAcks`), `CancelSafety` (`CancelHasCause`), `LogSafety`
  (`LogIsBacked`). `ConfirmNeedsAllAcks` is not inductive: a decision is taken from a copied list.
  `OutcomeInv` adds that every copy of the list (row, Redis, locals of goroutines and executors)
  says only what a Try answered (`LogIsBacked`), that a decided outcome is justified
  (`OutcomeJustified`), and that the goroutines start after the log row (`TryClaimedOnce`).
  `OneRunSafety` (`OneSecondPhaseRun`) follows from `RunsClaimed`: a Confirm or Cancel runs once
  at most, and not at all before its idempotency mark is set. `ClaimSafety` (`SettledIsClaimed`)
  needs to know of an executor in the middle of its loop that the components it has passed are
  marked (`ClaimedBy`, in `ClaimInv`). `Refinement` is the step simulation `Spec =>
  ImplementsTCC`: `OutcomeInv` gives the guards of `TCCOutcome`, and `LoggedFirst` with
  `NotYetLogged` that before the row exists no goroutine moves but the caller's and idle monitors.
- **`CoordinatorProofs`**. Over etcd (any components and retriers, lost writes): `EtcdTyping`,
  `EtcdConfirmSafety`, `EtcdRecordSafety` (`ConfirmedIsReal`). `BackedInv` ties an execution's
  position to the acknowledgements and Confirms before it, and every copy of the record, which may
  be written back at any time, to the components; `RetryInv` keeps the count of an admitted retry
  below the limit. `TCCCoordinatorSafety` (`TCCSafety`, any callers): `TCCInv` says of each phase
  what a caller knows of the components it has passed (`Knows`), and of a caller that ran alone
  what became of them (`AloneInv`). `SagaOrchestratorSafety` (`SagaSafety`) and
  `SagaRunsBackwards` (`SagaUndoBackwards`, any steps, compensable or not, and calls): `SagaInv`
  has `CallInv` for each call, which relates its position to the steps executed, undone and failed
  to undo, and says that the record shown is that of a call that has begun. The last three are
  about the specification of `MCCoordinators` with its constants left open, its parts included.
- **`YearBillProofs`** (any students, tasks, clients and all faults, the failing commit and the
  crash included): `Typing`; `IndexSafety` (`IndexHasOneHolder`) and `CountSafety` from
  `IndexInv`, which follows indices through the counter, tasks, cache, table and requests, and
  `IdleInv` (who is idle holds none); `StoredForGood` (`StoredOnce`) from `StoredInv` (a stored
  student has rows, so `StorageData` refuses) and `FetchedInv` (what a task stores is not empty).
  Three theorems exclude faults, as the properties fail under them: `CacheSafety`
  (`CacheAgrees`, no fault `commit`) from `AgreeInv`, which says of a task that is about to store
  and of a request that is about to cache what they hold; `CoveredSafety` (`RankedIsCovered`,
  under `StoresWork`: Redis, database and commit work and the service does not break) from
  `CoveredInv`; `PendingSafety` (`PublishedIsPending`, under `AllWorks`: the broker and the expiry
  too) from `PendingInv`, where a task that `CheckRank` drops has another task of the student
  ahead of it.
- **`BoBingProofs`** (any publishes, forwards, keys, flags and failing calls): `Typing`, whose
  `KeyInv` counts the keys issued against the requests served; `RowSafety` (`RowsSound`),
  `GrantSafety` (`ConditionWithinGrants`) and `CountSafety` (`CountWithinGrants`) from `QuotaInv`:
  of a request in flight, that the row it read is within the grants and has a throw left
  (`FlightInv`); of the row, that its count and condition stay within what was granted (`RowInv`).
  `OverdraftSafety` (`NeverOverdrawn`) holds on a day without forwards: a forward may write back
  an older condition below a count that is already higher, and `CountSafety` is the bound that
  remains then. `ReplaySafety` (`ReplayIsBanned`, on a day without failing calls, any number of dice) needs
  `ReplayInv`: while a throw with a saved position is looking its positions up, one of them is
  still ahead of it.
  `ScoreAgreement` (`ScoresAgree`) needs `ScoreInv`, on a day without failing calls: `StageInv`
  says which of its writes a publish has behind it, and `LedgerInv` that the rank row, the records,
  the two ranks of Redis and the rare throws each are the sum or the number over exactly the
  publishes behind that write. The sums over sets of publishes are lemmas proved from the least
  number for which they would fail (`WFMin`, `NatLessThanWellFounded`).
- **`ResilienceProofs`**, one section per component, with that component's constants and
  variables. The theorems say what holds for any number of callers, jobs, requests and nodes.
  - Breaker of the discovery package (`CircuitBreaker`, extended; any settings): `CountSafety`
    (`CountsAddUp`), `ProbeSafety`, `ProbesClose` (`OnlyProbesClose`), `OpenDwell`
    (`OpenForTimeout`), `WedgedForGood` (`WedgedIsForever`). `BreakerInv` adds that no request
    belongs to a generation still to come, so a new one starts with nothing in flight, that a
    half-open breaker counted at most `MaxRequests`, and that the expiry of an open one is its
    opening plus `Timeout`.
  - Breaker of the gateway (`GatewayBreaker`; finitely many callers, at least one probe):
    `GatewayProbeSafety` (`ProbesAccounted` and `RefusalHasProbe`), `GatewayTransitions`;
    `GatewayInv` accounts for each generation's requests (`Accounted`).
  - `WorkerPool` (`N` positive, `Cap` a number, `NoJob` no job): `OnePlaceSafety`, `StopSafety`.
    `JobInv` says where a job is at each position of dispatcher and workers, `PoolInv` that a
    worker in the pool channel waits for one, `StopInv` what each stage of `Stop` has ended.
  - `PriorityPool` (finitely many jobs): `UrgencySafety` from `QueueInv`, which counts the jobs in
    the heap against the submitters that have pushed and not popped; `MostUrgentFirst`, two action
    properties of the bubble sort. A pass and the sort are folds: `FoldExists` and `FoldIsUnique`
    give their recursive definition, `PassMovesOne` what a pass over a sorted queue with one new
    job does, `SortInserts` that the job ends up behind those that are as urgent.
  - `RequestMerger` (`Nil` no request): `MergerSafety`; `MergerInv` says that channel and batch
    hold no request twice or both (`NoneTwice`) and where the request of each caller is
    (`PlaceInv`), with the loop over the batch half done. `BatchProcessor`: `BatchSafety`;
    `BatchInv` adds that nils are received after Close only, when nothing is accepted any more.
  - `Permits` (finitely many clients): `PermitSafety`; `PermitInv` counts the clients at each
    position against the tokens and the statistics.
  - `AdaptiveLimiter` (the base rate between the bounds): `OneTokenGoroutine`, `StuckStaysStuck`,
    `StoppedHangs`; `LimitsInv` adds what a limiter that is not made yet looks like (`MadeInv`) and
    what the adjuster holds (`AdjustInv`).
  - `Recovery`: `RetrySafety`; `RetryInv` relates the position in the loop to the calls made and
    the limit of the policy (`LoopInv`) and bounds what a back-off computes.
  - `CacheGuards` (a positive threshold; a hash is a number, `HashAssumption`): `CacheGuardSafety`,
    from `GuardInv`.
  - `Scheduler`: `SchedulerSafety` (`StopHasReceiver` and one goroutine per job) from `SchedInv`:
    who is under way has the lock, and has jobs of the map to stop (`LockInv`), whose goroutines
    live (`GoroutineInv`).
  - `AdaptivePool` (`minWorkers` at most `maxWorkers`): `ScalingSafety` from `ScalingInv`; before
    the first `Start` the counter is ahead by the workers it will make (`CountInv`).
  - `ServiceRegistry` (finitely many instances, any watches): `RegistrySafety`. `LeaseInv` says that no key
    hangs on a lease still to be granted and no two calls have the same, `SeenInv` of each watch that an
    instance with a key it has seen is cached, has its event still to come there, or a call has
    overtaken it, and `BoundInv`
    that every goroutine that renews, and every call about to start one, was granted a lease.
  - `Discovery` (finitely many servers; any clients that share the Resolver): `NamesSafety`
    (`CaughtUp`, `ListedOnce`, `OnlySharingDisturbs`). `ServerQueueInv` says that the last event
    about a server in a watch is about the key it has, `CalmInv` that while one goroutine at a
    time has worked since the last sync, what it carries (`Carries`) and what rests in the list is
    right but for the servers in `Untold`, and `SingleInv` that a client alone finds the Resolver
    as it left it.
- **`PlatformProofs`**, likewise:
  - `RefreshTokens` (`NoKey` no key): `DeadTokensStayDead`, `SignedStaysValid`
    (`SignedValidates`). `HeldInv` says that the token of an exchange was issued, and is used once
    it is to be saved, `KeyInv` that who is about to sign holds the secret of the current key, unless
    a change of the keys has overtaken it, and that a header names a key of the manager.
  - `RBACManager`: `PolicySafety` from `PoliciesInv`, with the rules that were refused and the
    removals that failed as variables. `RBAC` (finitely many roles): `RoleSafety`; `RolesInv`
    counts the copies a user has of a permission, one for each of its roles that grants it and
    those its caller gave, until a role is updated or deleted; an operation changes both sides
    alike (`Follows`). A list that did not agree with the roles bounds them from above.
  - `GatewayAuth` (`NoToken` no key material): `AuthSafety`, `RotationIsSafe` and
    `CacheIsLostWithCause` from `AuthInv`, which bounds the answers by the position of a request and
    says of one between the two reads of the keys what became of its key (`lost`).
  - `DistributedConfig` (every caller and watch has a node): `ConfigSafety`; `ConfigInv` adds
    that a call under way carries a revision its node wrote or fetched.
  - `ConfigVersions` (`NoVersion` no version): `VersionSafety` (`OneActive` and the watchers told)
    from `VersionsInv`; `RecordInv` and `ContentInv` give the types of what the bounds limit.
    `ConfigBackups`: `BackupSafety`; `HistoryInv` keeps the values of every version, `CallSound`
    what a call took between the two locks. `HotSwap`: `SwapSafety`; `OwnershipInv` gives a client
    one name at most, `OpenIsAccounted` says why a client is open, `CurrentInv` that the names a
    reload has passed have a client made from what it read, or a registered one.
  - `EventStore`: `ArchiveSafety`, `ArchiveLosesNothing` from `EventInv` (the list of a job holds
    events older than a cutoff the clock has passed). `EventBus`: `SubscribedOnce`; `SliceInv` and
    `ListInv` follow an Unsubscribe that has moved some elements of the shared array.
  - `TwoLevelCache`: `CacheSafety` (`StaleHasCause`) from `CacheInv`.
  - `TCCParticipants`: `ParticipantSafety`, `SecondPhaseFindsNothing` from `TriesInv` (indices are
    given out below the counter; the Try of the record component gets no further than its panic).
  - `Governance` (`Threshold` positive): `GovernanceSafety` from `CallsInv`, which says who is
    inside each breaker, the replaced ones included; a panic leaves nobody inside.
  - `DatabaseRouter` (finitely many callers): `RouterSafety`. `RotationInv`: a healthy slave has
    been passed over at most as often as leaves its turn to the healthy ones ahead of it.
    `ReadersInv` counts the queries that may still report an error.
  - `RateLimiters`: `RatesSafety` (`FixedBound`, `SlidingBound`, `BucketBound`). `FixedInv` and
    `SlidingInv` tie what Redis keeps to what was let through; `BucketInv` says that what was let
    through since any second and what is left make up the capacity and what was refilled. The
    theorem assumes that a key of Redis outlives the window and that a bucket is full again
    before its key expires (`RatesAssumption`). The code does not enforce that: the scripts write
    the 3600 seconds of `EXPIRE` down and take capacity, rate and window from the caller. With
    slower rates an expired key grants a full bucket early, and the bound fails.
  - `Balancers` (finitely many clients): `ConnectionSafety`, by counting (`ConnInv`).

The least-element argument replaces induction where a lemma is about all finite sets or all
positions of a sequence: the library's induction theorems take an operator as parameter, which
the provers here cannot instantiate, while "there is a least number for which it fails" is
first-order (`WFMin`). It reaches sums, cardinalities and the fold over a sequence.

Only model-checked:

- liveness, as fairness and `ENABLED` are out of the prover's reach, and so the leads-to
  conjuncts of the instances and the fair part of every specification;
- `SharesAreWeights` and `LookupsAreStable` of `Balancers` and `UndisturbedIsComplete` of
  `EventBus`: they rest on `SelectSeq`, of which the prover has neither definition nor theorem;
- the type invariants of six modules that compute with what the provers cannot follow: `Recovery`
  (powers), `Scheduler` (`SetToSortSeq`), `EventBus` and `Governance` (recursive functions),
  `DatabaseRouter` (the fold of a hash), `Balancers` (`SelectSeq`). The types their safety
  invariants rest on are in the inductive invariants.

The invariants of `MCResilience` and `MCPlatform` are conjunctions over instances with fixed
constants; the theorems are about the component modules for all constants, conjunct by conjunct.

## 5. Claims the code does not keep

Two are kept as runs that must fail. For the others the definition stands in its module and no
run lists it; put it into a cfg of that module (with a definition in the MC module for the
instantiated ones) to see the behaviour, which the instances of section 3 have unless the table
says otherwise. Quoted paths are relative to `src/`.

| Definition | Claim | Behaviour |
|---|---|---|
| `TXManager!AllOrNothing` (run `tx_atomicity`) | `app/common/tcc/README.md:25` 保证数据的一致性和原子性 | every executor derives the outcome from its own copy of the log (`txmanager.go:233`) and none records it before acting |
| `FailureIsCancelled` | `app/common/tcc/README.md:199` 超过指定时间的事务会被自动标记为失败，并执行Cancel操作 | `GetHangingTXs` (`txstore.go:172`) marks the expired transaction failed and its second query leaves it out: no Cancel |
| `SuccessIsConfirmed` | `idempotency.go:33` "already processed" | a Confirm is marked before it is executed (`txmanager.go:246`), the next executor takes it for done |
| `OneMonitor` | `txmanager.go:154` 加锁，避免多个分布式多个节点的监控任务重复执行 | the lock expires under a slow batch and `Unlock` deletes another's (`txstore.go:228`) |
| `TrueIsNotCancelled` | `txmanager.go:316` 如果全量执行成功，则批量执行 confirm，然后返回成功的 ack | two concurrent `TXUpdate` lose a result (`txstore.go:80`) |
| `FalseIsNotConfirmed` | `txmanager.go:359` 也需要视为处理失败 | a `TXUpdate` that reports an error after its write was applied |
| `BoBing!ThrowsWithinQuota` (run `bobing_quota`) | `boBing.go:142` 检查今日是否还有次数，没有直接跳出 | count tested on a submission read earlier (`boBing.go:147`) |
| `KeyUsedOnce` | `boBing.go:156` 销毁 | `GetKey` and `UnlinkKey` are two calls (`boBing.go:152`) |
| `BannedRecordsNothing` | `app/boBing/pkg/verify.go:12` 不管如何投掷都不记录信息 | the blacklist is read once, at the gateway (`internal/bobing.go:33`) |
| `CheatIsBanned`, `RankedIsRecorded` | `cache/common.go:289` 已进入黑名单; `boBing.go:243` 将这条记录写入保存用于之后校验 | two goroutines assign the same `err` (`boBing.go:230`, `:244`) |
| `ConditionCountsGrants` | `models/submission.go:13` 增加的次数 | two writers of a value read earlier (`dao/submission.go:74`) |
| `CountIsCurrent` | `internal/bobing.go:292` 博饼获取当天剩余次数 | an older count is filed after a newer one (`cache/common.go:297`) |
| `ToldIsStored` | `internal/yearBill.go:120` 数据初始化成功 | crash between `SaveRank` and `StorageData` (`dataInit.go:199`) |
| `CacheAgrees` under the fault `commit` | – | the error of `Commit` is not looked at (`dao/user.go:89`) |
| `StoredIsFull` | `model/user.go:8` 数据初始化是否成功 | errors of the two fetches are dropped (`dataInit.go:172`) |
| `CachedRankIsStored`, `CountIsParticipants` | `internal/yearBill.go:205` 获得这是第几份年度账单数据; `dataInit.go:23` 同时统计参与人数 | two tasks of a student both take an index (`dataInit.go:195`) |
| `AppraisalIsCurrent` | `internal/yearBill.go:231` 对年度账单活动进行评价 | `SaveRank` caches appraisal 0 (`dataInit.go:201`) |
| `TCCCoordinator!AllOrNothing`, `CancelOnlyTried` | `README.md:25`; `tcc.go:194` 对已成功的组件执行Cancel | the status is not consulted (`tcc.go:139`); every component is cancelled (`tcc.go:269`) |
| `BreakOffIsCompensated` | `transaction_coordinator.go:454` 只有在Try阶段成功的情况下才能补偿 | the status is failed before `CanCompensate` is asked (`:211`) |
| `RetriesBounded` | `transaction_coordinator.go:272` "max retries exceeded" | read and write of the count are two calls (`:271`) |
| `FailedUndoIsReported`, `FailureIsCompensated` | `saga_orchestrator.go:250` 补偿失败，记录错误但继续执行其他补偿; `:165` 执行补偿 | `compensate` returns nil always (`:249`); the deadline returns without it (`:154`) |
| `StopStopsWorkers` | `worker_pool.go:115` 停止所有工作者 | `Stop` cancels the context, then sends to goroutines that may have left (`:113`) |
| `NilIsSubmitted` | `worker_pool.go:237` Submit 提交优先级任务 | the answer is about the job popped (`:244`) |
| `ClosedIsAnError`, `CloseIsClean` | `request_merger.go:57` 请求合并器已关闭 | `Close` between the check and the send panics (`:71`); the collector then reads nil for ever and dereferences it |
| `AdaptiveLimiter!EveryWaitIsServed` | `semaphore.go:239` Wait 等待获取令牌 | a request waits on a limiter `adjustRate` has stopped (`:211`) |
| `Permits!ControllerBounds` | the field `maxConcurrency` (`request_merger.go:154`) | a Release without an Acquire gives another's permit back (`:197`) |
| `RateLimiters!SlidingIsExact`, `LocalBound`, `BucketRefills` | the limits of the configuration | a sorted set with the second as member counts requests of one second once (`rate_limiter.go:146`); a refused request adds the elapsed time and does not move the clock (`limiter.go`); every request moves the refill time (`rate_limiter.go:66`) |
| `AdaptivePool!PoolSurvives` | `cache_warmer.go:372` 缩容 | the queue is closed while a Submit sends to it (`:400`), and a worker whose queue is closed executes nil |
| `CacheGuards!OneWriter` | – | `IsBlocked` deletes under the read lock (`advanced_cache.go:154`) |
| `Recovery!NeverPanics`, `RecoveredIsDone` | `retry_policy.go:85` 执行重试; `error_recovery.go:255` 恢复成功 | `rand.Int63n` of a jitter of zero panics (`retry_policy.go:141`), as does the modulo of the recovery strategy (`error_recovery.go:127`); a strategy that only waits reports success |
| `RefreshTokens!ExchangedOnce`, `RevokedIsGone` | `jwt_manager.go:246` 检查令牌是否已使用; `:273` 撤销用户所有令牌 | check and mark are two steps without a lock (`:247`, `:252`); a pair under way is saved after the revocation |
| `GatewayAuth!ExpiredIsRefused` | `utils/jwtUtils.go:306` 检查token是否过期 | the user check does not call `ParseToken` (`auth.go:44`), and parsing does not see the expiry |
| `RBAC!OnlyByRoles` | `rbac.go:88` 更新角色, `:103` 删除角色 | the copies in the users stay |
| `RBACManager!DeletedIsUnenforced` | `rbac_manager.go:319` 删除策略 | an update that a refused rule ended has left rules the policy no longer lists |
| `DistributedConfig!HistoryLooksBack`, `EveryNodeConverges` | the field `OldValue` (`distributed_config.go:47`), which `RollbackConfig` restores | the watch may have stored the new value before it is read as the old one (`:102`); a call's write comes after the event of a later revision |
| `ConfigVersions!WatchersAgree` | `config_version_manager.go:518` 通知所有观察者 | a watcher is told of the reload of one version while another is activated |
| `ConfigBackups!BackupExact`, `RestoreIsComplete`, `LastToldWins` (the last with two values) | `config_management.go:365` 查找指定版本的备份; `:378` 恢复配置 | values and version under two locks; keys the backup lacks stay; a goroutine per notification |
| `HotSwap!UsedIsOpen`, `ReloadReachesClients`, `NothingLeaks` | `hot_reload.go:65` 异步关闭旧客户端; `:433` 监听配置变更 | closed under its user; the signal goes to one of two receivers; a client that fails its check is not closed |
| `EventBus!ToldOnce` | `observer.go:128` 通知所有订阅者 | the array is moved while it is copied (`:91`, `:199`) |
| `EventStore!NoEventIsLost` | `event_persistence.go:486` 删除已归档的事件 | an event saved between the list and the deletion (`:474`, `:487`) |
| `TwoLevelCache!LevelsAgree` | `cache_manager.go:158` 多级缓存策略 | nothing tells the local level of another node's write or of the expiry in Redis |
| `Discovery!OwnAddressesOnly`, `EveryClientConverges` (both with two clients, the latter under `Discovery!Spec`) | `resolver.go:48` "Build creates a new resolver.Resolver for the given target" | it returns the one object (`resolver.go:56`), which the gateway gives to every dial (`gateway/rpc/init.go:35`): a later `Build` takes `cc`, prefix, list and channels over, so the goroutines of an earlier client serve the last one, which may be told addresses of another service, and the earlier client hears nothing more |
| `Discovery!StoppedStaysOut`, `WeightsFollow` | `register.go:20` "gracefully shut down operations by notifying goroutines to stop execution" | the loop does not return after a Stop (`:117`) and registers again when the channel of the revoked lease closes; an event for a listed address is dropped (`resolver.go:126`) |
| `ServiceRegistry!DeletedIsForgotten`, `CachedOnce`, `RegisteredStays` | `service_registry.go:197`; `:86` 保持租约活跃 | the deletion event carries no value; Register appends what the watch has added; the keepers renew the lease registered last |
| `Balancers!LeastIsTaken` | `load_balancer.go:197` 找到连接数最少的实例 | select and increment are two calls |
| `Governance!HalfOpenIsProbed`, `SelectedIsRegistered`, `OneInside`, `DelayIsCapped` (the last with `BaseDelay` above `MaxDelay`) | the state's name; the look-up of `service_governance.go:194`; the field `MaxDelay` | a probe that panics gives the lock back half-open (`:352`), and later callers go in without the timeout; the balancer keeps the pointer; a breaker is replaced while a call is inside; the cap follows a multiplication |
| `DatabaseRouter!ReadsUseSlaves`, `ShardInRange` | `database_router.go:202` 读操作使用从库; `:424` | a slave is unhealthy until somebody says otherwise, and choice and check are two lock periods; the hash overflows to a negative int (`:336`) |
| `TCCParticipants!SuccessIsApplied` | `boBing/service/tcc_components.go:104` 执行实际的数据库操作; `yearBill/service/tcc_components.go:263` 保存排名到缓存 | Confirm looks for a key without the open id (`:93`), fails, and is marked as processed |

## 6. Hazards

`PROJECT.json` lists them at their lines with the properties that cover them. A note names the
stronger claim where the code does not keep it (section 5).

## 7. Plan

Done: the TCC manager, its contract and its participants, the other coordinators, the dice game,
the year bill, the breakers, pools, limiters, guards, retries, scheduler, tokens, roles,
configuration, hot reload, events, caches, discovery, governance and the database router. Each of
them has theorems, but for the contract, which the manager is proved to implement.

Left, most important first:

1. `TCCParticipants` under `TXManager` itself instead of under its contract, with the refinement
   proved from `OutcomeInv`.
2. The shares of the weighted balancers and the ring look-up, once `SelectSeq` is replaced by a
   set of positions in their models.
3. The websocket hub of the dice game and the logins of the user service.

## 8. Not modelled

- The websocket broadcast (`gateway/internal/bobing.go:150`): a map written under a lock and
  iterated without it. In Go an iteration that meets a write ends the process, so a model would
  show that and little else.
- Logins outside a transaction (`user/service/routine.go`): the remote calls are external and the
  insert is independent of other state; the same operations are in `TCCParticipants`.
- School scraping, WeChat login, HTTP helpers: single remote calls, pure I/O.
- Routers, handlers, rpc stubs, cors, versions, validation, headers: one request, no state.
- Metrics, logs, traces, health reports, audit lists: written, never read by a decision.
- Factories, dependency injection, containers, start-up, connection settings: construction.
- Encryption and hashing of passwords: cryptography.
- Generated protocol code, API documents, tests, deployment files.
- Operations left out of modelled components are named in the component's note in `PROJECT.json`.
