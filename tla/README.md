# A verification of Lasagna Multitenancy

TLA+ modules for the parts of the AdonisJS package under `src/src/` that keep
state and run concurrently, the TLC runs that check them on small instances,
and TLAPS proofs of the results that matter most for every instance.

    tlc -config TenantLifecycle_purging.cfg MCTenantLifecycle.tla
    tlapm TenantLifecycleProofs.tla

## The system

The package gives every tenant of an application storage of its own (a schema,
a database, a file) and routes requests, jobs and caches to it. It runs in
several Node processes at once: web servers, queue workers, `ace` commands from
a shell or from cron. They share PostgreSQL (the central registry of tenants,
the satellite tables, the tenants' schemas) and Redis (caches, counters,
queues). No handler takes a lock or opens a transaction over a tenant's row:
each loads what it needs and awaits between its steps, and everything below is
about what other handlers do in those gaps.

| Part | State | Operations | Depends on, is used by |
|---|---|---|---|
| Tenant lifecycle (`jobs/`, `commands/`, `admin/admin_controller.ts`, the doctor's fix) | the row's `status` and `deletedAt`; the storage; the queued jobs | create, install, uninstall, destroy, activate, suspend, restore, purge, migrate:fresh, doctor --fix | isolation driver, queue, hooks, events; read by the guard |
| Tenant guard (`middleware/`) | none | let a request through or refuse it | the row, the circuit, the driver |
| Isolation drivers (`services/isolation/`) | the map of open connections, least recently connected first | provision, destroy, reset, connect, disconnect, migrate | Lucid's connection manager |
| Circuit breakers and tenant queues | a map per service instance; the persisted state in Redis | get, fire, reset, destroy; dispatch | the guard, the jobs, the health report |
| Bootstrappers and tenancy scope (`tenancy.ts`) | the registered bootstrappers; the tenant of the running scope | register, unregister, run a function in a tenant's scope | cache, mail, drive, session, transmit |
| Package cache (`utils/cache.ts`) | memory layers, a Redis layer, a bus | get, set, delete, getOrSet | impersonation, feature flags, branding, SSO |
| Impersonation | a cached session; the audit log | start, verify, stop, revokeById | the cache |
| Quotas | a counter per tenant, quota and day; a snapshot value | check, consume, track, setUsage, reset | Redis, the plan of the tenant |
| Rate limit | a sorted set of request times | handle a request | Redis |
| Webhooks | hooks, deliveries | dispatch, send, retry run, manual retry | PostgreSQL, the receivers |
| Backups and retention | archive files, a metadata list, S3 objects | backup, restore, list, delete, sweep | pg_dump, the file system, Redis |
| Clone, SQL import, splitter | two tenants' schemas | clone, its retries, import | the lifecycle, the driver |
| SSO | the state of a login, the discovery documents | build the URL, handle the callback, discover | Redis |
| Feature flags, branding | a row, cached | read, write | the cache |
| Read replicas | cursors, added connections | resolve | Lucid |
| Metrics | counters, daily rows | increment, flush | Redis, PostgreSQL |
| Row scoping, adapter | the tenant column | every query of a scoped model | the scope |
| Resolution | the resolver chain, a memo per request | resolve | the guard |
| Gates and maintenance mode (`middleware/`, `extensions/request.ts`, `tenant:maintenance`) | the registry of resolvers, the maintenance flag and message | resolve, guard, universal, central-only; enter, exit | the row, the circuit, the driver |
| Hooks | an array per event and phase | register, clear, run | every lifecycle operation |
| Migrate, rollback, seed and exec commands | the batches in each tenant's schema | one loop over the tenants each | Lucid's migrator and its lock |
| Doctor, health | a snapshot; a registry of checks | run, fix, watch; /readyz, /livez | reads everything |
| Provider | the singletons of one application, and what modules cache of them | register, boot, start, shutdown | everything |
| Admin API documents, events, exceptions, crypto, logs | none that another part relies on | | |

What makes each part correct, and what is hard about it, is the hazard list of
`PROJECT.json`: each entry names the line where it bites and the properties
that would catch it. In short:

- Concurrency: nothing is locked, so every load-await-save is a read of state
  that may be stale when used (lifecycle jobs, the first use of a session, retry
  runs, the backup list, quota check and track, the connection map).
- Failure: jobs are retried and redelivered; processes die between two writes of
  one operation; some failures are swallowed (evictions, sweeps), some stop more
  than they should (a secret that does not decrypt).
- Ordering: hooks and bootstrappers unwind in reverse; cache invalidations
  arrive late or never; the guard and the adapter find the tenant separately.
- Time: install attempts and webhook backoff run out, retention windows and
  sessions pass, counters start over at midnight.

## The modules

| Module | Models | State, and what it stands for |
|---|---|---|
| `TenantLifecycle` | every handler that changes a tenant's row or storage | `status`, `deletion` (deletedAt: unset, within or past the retention window), `old` (createdAt more than thirty minutes ago), `storage`, the queued jobs (`waiting`, `left`), and per worker `proc`: operation, next step and the copy of the row it loaded |
| `ServedTenants` | the abstract promise: storage before service | `served`, `stored` |
| `LayeredCache` | BentoCache as the services use it: a memory layer per process, Redis, a lossy bus; a get that misses memory is two steps (`Keep` is the second) | `local`, `shared`, `bus` |
| `Impersonation` | impersonation sessions, EXTENDS `LayeredCache` | a session is a cache key, unused or used; `request` is where each request stands, and what a get found in Redis; `crossed`: which gets a delete fell into |
| `Quota` | check, consume, track, setUsage, reset and midnight | `count` and `ttl` per day, the snapshot, `call` per caller |
| `Webhooks` | deliveries, retry runs in slices, admin retries, dying sends | `status` and `attempt` of the row, `run[r]` the copies a retry run holds |
| `Backups` | dump, list, S3 mirror (an upload is two steps), and the retention sweep, which not every backup is followed by | `disk`, `s3`, the list in Redis and its sidecar, `worker` |
| `Restores` | the restore job and command, with the download from S3 and a sweep | `archive` (none, partial, whole), `content` of the schema, `restorer` |
| `Cloning` | the clone job with its retries and overlapping deliveries, and the command | the destination's `storage`, `rows` and row; `cloneJob` |
| `SqlImport` | the cutting of a dump into statements and COPY blocks, a line per step, and its import: one transaction with savepoints, psql, or a dry run | `dump`, `split` (the line, whether it is in a block, the tokens so far), `import`, `applied`, `searchPath` |
| `SqlSplitter` | `splitSqlStatements` as a state machine, against PostgreSQL's lexical rules (`Pieces`, a definition of where lexemes begin and end that does not scan) | the loop's own variables |
| `Batches` | the commands that go over the tenants one by one | `batches` of each tenant's migrations, `locker` (Lucid's lock), `batch` per run |
| `BootstrapperScope` | registration and `tenancy.run` scopes | the registry, and per scope what it has entered and is to leave (`due`) |
| `ConnectionPool` | the connection map of schema-pg and database-pg | `lru`, `registered` (Lucid's manager), `releasing` |
| `TenantRequests` | guard, resolvers, adapter; EXTENDS `ConnectionPool` | `request`: what it carries, the guard's tenant, where its queries ran; `warm`: whether `tenancy.run` was called |
| `AsyncContext` | `tenancy.run` and `unscoped`, nested | a stack of scopes per piece of work |
| `RowScope` | the row-scoping mixin and the rowscope driver; EXTENDS `AsyncContext` | `rowsOf` each shared table, `builder`, `instance` |
| `TenantResources` | what the disk, cache, mail, session and transmit bootstrappers hand out; EXTENDS `AsyncContext` | `stored` keys, with the tenant they begin with or none, against `own`: what they would be if each tenant had a resource of its own |
| `Hooks` | registration and runs of one event and phase | `arrays`, `hookRun` |
| `ReadReplicas` | the three strategies and the connections added on demand, under database-pg and schema-pg | `cursor`, `primary`, `replica`: what each connection reaches |
| `DatabaseDriver` | database-pg: provision, destroy and reset beside queries | `exists`, `pooled`, `sessions` |
| `Metrics` | increments and flushes of daily counters | `counter`, `row`, `flusher` |
| `RateLimit` | the sliding window of one address, a step per command of the pipeline | `members` of the sorted set, `hit` |
| `Breakers` | the breaker and queue of one tenant in every server, what they share in Redis, and the uninstall job's fresh instances | per server `breaker`, `logging` and `writing` (what has still to reach Redis) and `queue`; shared, `persisted` and `jobs` |
| `Doctor` | the ten checks and two fixes over a snapshot | `doctor` per run, and the tenants it looks at |
| `Health` | /readyz with its registry and timeouts | `healthChecks`, `ready` per probe |
| `Settings` | feature flags and branding; INSTANCE of `LayeredCache` | `row` and its cached copy, `reader`, `writer` |
| `Sso` | logins, the configuration they meet, discovery documents | `login`, `callback`, `config` |
| `Gates` | the four middleware, the walk of the resolver chain, maintenance toggles | the tenant's row, `known` and `chain` (the registry), `gate` (a request), `toggler` |
| `Provider` | the applications a process boots one after another | `booting`, `wired`, and `modules`: what each module of the package has cached, and of which application |

`MC*` modules give the constants of TLC runs; `*Proofs` modules hold theorems.
Parts that share no state are checked side by side: the `MC` module EXTENDS them,
a variable `part` says which of them a behaviour is of, and the others stay as
they begin. Nothing is lost, for a step of one could never be seen by another;
parts that do share state (`TenantRequests` and `ConnectionPool`, `RowScope` and
`AsyncContext`, `Impersonation` and `LayeredCache`) are composed for real.
Each action is one handler up to its next await, or one step of it: what a
handler does without awaiting is one action, and everything else may happen
between two of them. A variable whose comment says *history* is not in the
program; it records what a property needs to tell the code's own guarantee from
what it does not promise.

How the operations correspond to the code is the `map` of `PROJECT.json`. What
needs explanation:

- **A row.** Lucid's `save` writes the columns a handler changed on its copy and
  no others. `Save` does that with the copy in `proc`, which is why a stale copy
  overwrites the status but seldom `deletedAt`.
- **Jobs.** BullMQ delivers at least once: `Redeliver` starts the job of a worker
  that stalls a second time while the first goes on, `Fail` ends one early, and
  `left` counts the attempts.
- **Deployments.** `Ops` is the set of entry points a deployment uses;
  `ActivateFrom` and `SuspendFrom` say which tenants its operators activate and
  suspend (the code accepts any).
- **Faults** are a process that dies, a hook or query that throws, a message that
  is lost. `MaxFaults` and its like bound them, per run; no proof depends on their
  values.
- **A retry run** sends a delivery and stores the outcome in one step (`Settle`): the
  receiver cannot tell when within a request the row is saved, and what other
  runs do meanwhile is in the copies they took before.
- **Requests.** In `TenantRequests` the tenants a request names are a function from
  the places a resolver looks at (`Places`): the first label of a custom domain may be
  another tenant's id, and request data is under the configured keys for the chain and
  under `tenant_id` for `resolverStrategy`.
  In `Gates` there is one tenant, and each resolver finds its id, its domain,
  something that is no id, or nothing.
- **Opossum.** When a breaker opens is not modelled: any transition of its three
  states may come at any time, each with the event the service listens to.
- **Dumps** are sequences of what a line does (a statement that works or fails, a
  COMMIT, a COPY block and its end, a comment), and splitter inputs sequences of
  the symbols its states tell apart.

## The runs

| Run | Checks | Instance | States |
|---|---|---|---|
| `lifecycle_all` | `TypeOK`, `DeletionIsSticky`, `NoLimbo`, `ExpiredIsReclaimed` | 1 tenant, 2 workers, every entry point but suspend (to the row it is activate with another status) | 0.35 M |
| `lifecycle_purging` | `RoutableHasStorage`, `DropsOnlyDeleted`, `ServedTenantsSpec` | 2 tenants, 2 workers, a deployment that destroys and purges and does not restore | 0.94 M |
| `lifecycle_purge_race` | violates `PurgeDropsOnlyDeleted` | every entry point | |
| `impersonation_revocation` | `FinalRevocation`, `OnlyTheBusLags`, `UseIsAudited`; `SettingIsFresh`; `LoginsAreSound`; `GatesAreTrue`; `AppsAreTheirOwn` | 1 session, 2 processes, 2 requests; 2 readers and 2 writers; 2 logins, 2 callbacks; 1 request, 2 resolvers, 2 toggles; 3 applications, 2 lookups | 5.2 M |
| `impersonation_resurrect` | violates `RevokedIsNotFound` | 2 requests, 1 process | |
| `quota_calls` | `BoundedOvershoot`, `OnlyFaultsLeak`; `FlushKeepsCounts`; `WindowIsLimited`; `BreakersAreSound`; `ReportsAreRight`; `HealthIsTrue` | 2 callers, limit 3, amount 2, 3 days; 2 metrics, 2 flushes; 3 requests, limit 2; 2 servers with a breaker and a queue; 2 runs of the doctor, 2 tenants; 2 probes, 3 checks | 4.6 M |
| `webhooks_retries` | `AttemptBudget`, `SuccessIsNotRetried`, `EveryRetrySettles` | 2 deliveries (one with an old secret), 2 retry runs, 3 attempts | 0.43 M |
| `webhooks_poisoned` | violates `RetriesReachEveryone` | a secret stored under the former APP_KEY | |
| `backups_sweeps` | `RecentAreKept`, `OnlyFaultsOrphan`; `RestoreEndsMean`; `ClonesAreSound`; `ImportIsExact`; `SplitsLikePostgres`; `BatchesAreExact` | 2 workers, a list of 3, 4 backups, a fault; 2 restores; 2 clone deliveries, 3 tables; all dumps of 4 lines; all inputs of 5 symbols; 2 command runs, 2 tenants, limits of 0, 1 and none | 6.2 M |
| `scope_scopes` | `LeavesMatchEnters`; `RowsAreScoped`; `ResourcesArePrivate`; `HooksRunInOrder`; `ReplicasAreSound`; `DriverKeepsItsContract` | 2 scopes, 3 names; 2 works, 2 tenants, 2 tables, depth 2; 2 keys; 2 runs, 3 hooks; 3 replicas, cursor of 2 bits; 2 jobs, 2 servers | 2.6 M |
| `requests_pool` | `StaysRegistered`, `OpenIsBounded`, `HostDecides` | 3 tenants on 2 connections, 2 requests, hosts only | 1.9 M |
| `requests_routing` | violates `OwnStorage` | a chain that differs from `resolverStrategy` | |

A property that names several things (`GatesAreTrue`, `ClonesAreSound`) is the
conjunction of the named parts defined above it in its module.

What they show:

- A deletion is never undone by a stale save: only restore clears `deletedAt`. No
  tenant stays in provisioning and no expired schema stays forever, whatever one
  fault does, because the doctor and the purge come again. In a deployment that
  purges and does not restore, no request reaches a tenant without a schema and
  no live tenant loses one. With restore, the purge drops the schema of a tenant
  restored while it waited (finding).
- A session revoked while no request holds an unmarked copy of it stays revoked;
  another process accepts it only until the bus, or its memory layer's expiry,
  reaches it. A get that awaits Redis while the session is deleted puts it back into its
  own memory layer, and then no message is on its way (`crossed`). A revoke that falls between the read and the write-back of a first
  verify is undone (finding).
- Racing calls overshoot a quota by at most one amount each but for the first,
  across midnight and resets; the bound is reached. Only a call that dies between
  INCRBY and EXPIRE leaves a counter without an expiry.
- Whatever overlaps, a delivery that succeeded is not sent on; without overlap a
  receiver sees at most `MAX_ATTEMPTS` requests, plus one per send that died
  before its outcome was stored. Every retry settles while secrets decrypt; one
  that does not can keep everyone behind it waiting (finding).
- As long as the list writes succeed and do not cross, the newest backups are
  listed and on disk, provided the cap of the list leaves room for the backups at work
  (see the proofs): with a cap of thirty and `keepLast: 30`, two processes at once lose
  one of the newest from the list. Without faults, what is not listed is deleted, with two
  exceptions the property names: the copy in S3 when a sweep fell into its upload, and an
  archive that fell off a full list, which backups without a sweep fill; almost thirty
  newer ones were saved by then.
- A scope leaves what it entered, in reverse, unless bootstrappers are removed
  under it. Under a tenant's name a shared disk, cache, session or
  channel has what that tenant put there and nothing else, but for `deleteAll` without a
  key, a key that climbs and a second channel prefix. What disk methods outside
  `KEYED_METHODS` and the raw session put is under no tenant's name, and so is a message
  sent with a mail instance. Work in a tenant's scope reaches other
  tenants' rows only through an `orWhere` chained after the scoped predicate, or an
  instance whose tenant column was not loaded.
- A running hook sees hooks registered meanwhile, calls all it began with, in order,
  and a clear does not stop it. Replicas are picked fairly but for the wrap of the
  cursor; under database-pg a connection reaches the tenant's own database, unless the tenant's
  connection was released while it was copied; under schema-pg it does not reach the
  tenant's schema, and nothing is said of it. database-pg's jobs are idempotent when nothing runs beside
  them.
- A flush never loses what an earlier one stored, but on days whose counters have
  begun to expire or whose flushes overlap. No window passes the rate limit, but for
  requests of one millisecond, and for one whose commands ran late. Redis ends with the
  state of the breaker of the server that wrote last (of the others' the key says
  nothing), but for a write that failed, a restart, and an event that comes after its key
  was deleted. A queue that one server destroyed has jobs again when another, which knows
  nothing of it, dispatches one.
- What is wrong all through a run of the doctor is found, what is not wrong is not
  reported (orphans of a run about one tenant, a replica whose probe another run
  closed aside), and the command finds no breaker of the server's. /readyz tells
  what was so during the request, and asks the default checks that were not removed.
- A finished restore has the whole archive, unless another ran beside it, whichever of the
  two began first; a download
  that broke off stays on disk and fails every later attempt. A clone has all
  its rows or none, and a finished one is kept, unless two attempts overlap or one begins
  after it; its sequences are never set. An import's counts are what happened; a COMMIT in the dump, a commented
  `SET search_path` and an unterminated COPY block are the exceptions. The splitter
  cuts as PostgreSQL does, but for inputs with an odd comment (`HasOddComment`): `/*/`,
  which opens a comment for PostgreSQL and is a whole one for the splitter, and a comment
  in a comment. A batch command meets every tenant that stays, and a tenant it does not
  count as failed has every migration.
- A process reads an old flag only while a write, a crossing reader or get, or the bus is
  the reason. A callback logs in its own login, with the provider its user was sent to.
- A route runs for a tenant only if it was ready at some moment of the request, and is
  refused only for what was so at one; the walk of the chain ends with what some
  moment makes of it, or with nothing when the registry was cleared.
- What modules cache is the running application's, but for a lookup that crossed the
  shutdown and for the resolvers' registry, which `shutdown` does not reset.
- A tenant's connection is not taken from its users before as many others were
  connected as the cap allows, unless it was being released when it was handed
  out. The bound on open connections holds until a connect crosses a release:
  from then on the map holds a name without a connection, evicting it frees
  nothing, and the number of open connections can pass the cap and stay there.
  Where chain and strategy are by host, nothing else a request
  carries changes whose storage it queries: its own tenant's, or, for a custom domain
  whose first label is a tenant's id, that one's. With a chain that overrides
  `resolverStrategy` a header decides it as well (finding).

### Bounds

Two workers (processes, runs, scopes) are enough for one to act between two steps
of another; two servers share what one of them believes
  its own. Two callers make
the overshoot an amount; that it is one amount per further caller, for any number
of them, is a theorem. One tenant suffices for the liveness of
the lifecycle, since handlers of different tenants share only workers and the
loops of purge and doctor, which `lifecycle_purging` runs over two. Two
deliveries are a slice of `Concurrency` and its neighbour. Four backups against a
list of three reach the cut of the list. Three tenants on two connections reach
eviction, an eviction of a name whose connection is gone, and two releases of one
connection in flight. Two or three attempts have a first, a last and (for
webhooks) one between. `Limit` 3 with `Amount` 2 is the case in which the limit is
not a multiple of the amount. One fault shows every single failure at every step;
restores and clones have two, so that a second attempt may fail as well.
Four lines hold a block with its end, a statement after it and one that ends the
transaction; five symbols open and close any construct and leave one outside. A
cursor that wraps at four over three replicas is the case in which the wrap skips.
Two tenants with pages that end at either are a page of two and two of one; the two runs
of `Batches`, which nothing tells apart, are a symmetry set, and nothing is said of
liveness in that run. One change of a tenant, the registry or a circuit is what can fall between any two
steps of a request; two toggles are what can cross. Three applications show what
outlives a second restart.

Some runs turn deadlock checking off: requests, deliveries, backups and
registrations are bounded in number, so that a behaviour may have nothing left
to do.

### Fairness

`TenantLifecycle!Fairness`: a process that runs goes on (WF of each worker's
steps; death is a separate action); queue workers take waiting jobs and the cron
fires the purge and the doctor again and again (SF, since a worker is free only
between its operations); time passes (WF of the ageing actions, and of the
dispatch that finds a job's tenant missing). Nothing is assumed of people.
`Webhooks!FairSpec`: a retry run goes on, some due time comes, and so does the
next run (WF); the retry command is documented for cron.

## The proofs

- `TenantLifecycleProofs`: `TypeCorrect`; `DeletionSticky`, by cases on the
  handlers that save a deletion; and, under `SafeDeployment` (storage is dropped
  of deleted tenants only, nothing that drops is combined with restore,
  operators activate and suspend what is in service), `StorageInvariant`,
  `RoutableStorage`, `LiveStorageKept` and `ImplementsServedTenants`.
  `RoutableHasStorage` alone is not inductive: a worker about to save "active"
  relies on its schema still being there. `StorageInv` says that a tenant is
  *settled* (it has storage, or it is deleted and nothing restores) whenever it is
  active or suspended and whenever a worker is about to save one of the two
  (`WorkerInv`), and that destroy and purge are about to drop deleted tenants
  only. Without restore deletion is for good, and whoever drops does not restore;
  so what is settled stays settled. The refinement then maps a status save to
  Serve or Withdraw, provision to Provision, a drop to Reclaim and all else to a
  stutter.
- `ImpersonationProofs`: `TypeCorrect`, and `RevocationIsFinal` through `GoneInv`:
  a session revoked for good is gone from the Redis layer, nobody holds an unmarked
  copy of it, in a memory layer or in a request about to write it back, and it
  was started once, so that no start caches it again.
  With `GoneInv` no get that begins later finds such a session, which makes the property of
  `RevocationArrives` inductive: whoever keeps a copy has a message on its way, or had
  begun its get before.
  `FirstUseIsAudited` is inductive with the types: the request that marks a session
  goes on to write its row.
- `AccessProofs`, of who is let in and as what. `AppsStayApart`, for any number of
  applications, through `CachedInv` (nothing of a former application is left in what
  shutdown resets, but for a lookup that crossed it), `SeededInv` and `WiringInv` (what
  each step of boot has wired so far). `LoginsStaySound` through `CallbackInv` (a
  callback that took its state finds it gone, so no later one finds it) and
  `CrossedInv` (two that found one state have crossed, whatever became of them).
  `SettingsStayFresh` through `ReaderInv`: a reader has what the table or Redis has, or
  something that was written or deleted since. `GatesStayTrue` through `GateInv`: the history of a request holds
  whatever its walk, its row and its circuit have been since it came, now included
  (`NowIsWitnessed`), the walk so far is one along a chain that was there (`WalkIsAlong`),
  and what the request read and decided is part of that history (`ReadWasSo`).
- `QuotaProofs`, of what is counted and watched. `TypeCorrect`, and `OvershootIsBounded`
  for any number of callers, limit and amount through `OvershootInv`: beside the count
  there is always room for every call that passed the check and has not counted yet.
  `CountersGetExpiries` is the same argument caller by caller: who makes a counter
  owes it its expiry until it is set or the call dies. `FlushesKeepCounts` through
  `FlushInv` and `OverlapInv`: a flush on a day of its own carries, from the moment it
  begins, no less than the last one left. `WindowsAreLimited` through `RateInv`: a
  request that counted itself within the limit stays a member of the set until it has left
  every window, so that the count another reads is no less than what passed in its own,
  whatever commands fall between the two. `BreakersSettle` through `LastWords`: of what a
  server has still to write the last is the state of its breaker, and so is what Redis has
  when it wrote last; and `QueuesEmptied`. `ReadyzStaysTrue` through `RequestInv` and, of
  the registry, `HealthInv`. `ReportsStayRight` through `DoctorInv`: a check
  passes over the copy the run read, so the invariant relates that copy to what has been
  wrong all along; what lasts from the first read on shows in the copy, and once its
  check is behind a run it is told, mended, or the check threw.
- `TenantRequestsProofs`: `ConnectionsStay` and `BoundHolds` for any number of
  tenants and connections, through `PoolInvariant`. The map has to be proved to be
  least-recently-used: `OrderInv` (whatever stands later in it was connected since
  what stands earlier), so that the name an eviction takes has seen all the others
  go by; `SureInv` (a tenant whose connection was made undisturbed is in the map, or
  `Cap` others were connected since); `CalmInv` (until a connect crosses a release
  the map names exactly the connections that stay open). `QueriesStay`, where chain and strategy are by host
  (`HostsOnly`): the two name the same tenant of a subdomain and differ for a custom
  domain only by its first label.
- `WebhooksProofs`: `TypeCorrect`; `SuccessStays` through `HolderInv` (unless an admin
  has retried, a send in flight and a copy of a run are of a row that was sent, so
  what they save can only settle it); `BudgetHolds` through `BudgetInv`: while nothing
  overlaps one holder has each delivery, and there is room for the attempt it is
  about to make.
- `ScopesProofs`, of tenant scopes and what tenants have of their own. `LeavesMatch`
  through `BootInv`: what a scope has entered and not left is a stack over the
  registry's array, which registrations only lengthen; while nothing is removed
  under the scope the stack holds exactly the bootstrappers with a leave in the array's
  first places, the last place on top (`Stacked`). `RowsStayScoped` through `RowInv`:
  the first alternative of a query is that of the scope it was built in.
  `ResourcesStayPrivate`; `HooksKeepOrder` through `HookRunInv` (an array a run iterates
  over only grows); `ReplicasStaySound`, under either driver, through `TurnInv` (a replica that had its turn is
  one pick ahead, by the arithmetic of a cursor modulo the hosts that wraps at its
  own width); `DriverContractHolds`: a job beside which none ran finds what it
  left (`AloneFinds`) and ends as it should (`Finishes`).
- `DataProofs`, of what moves and changes a tenant's data. `RestoresEndWell` through
  `OneLoadInv` (a restore that counts as alone has no other loading beside it),
  `LoadedInv` and `UndisturbedInv`. `ClonesStaySound`, for any tables, deliveries and
  attempts, through `InsertedInv`, `AloneInv` (what one attempt may count on while it
  runs alone) and `Settled` (what a finished one has left). `BatchesStayExact`, for any
  tenants, runs, pages and limits, through `StayedInv` (who stays was met, or is in the
  list, or comes after the page), `UpInv` (what a migration has made of what was
  visited), `LockInv` and `WalkInv` (a run meets nobody twice). `RecentStayKept` and
  `NothingIsOrphaned`, for any workers, cap and `keepLast`, rest on `BackupInv` (while no
  write fails or crosses another, a list about to be written is the stored one with its
  change). Entries stand in the order in which they were saved, and archives are numbered
  in the order in which they were dumped; so the last entry, which falls off a full list,
  may be newer than others. What saves it is `LateInv`: fewer archives than there are
  workers were dumped before it and listed after it, for each is another worker's. So
  it is not one of the newest `keepLast` when the cap has room for the workers besides
  (`RoomForRecent`: `keepLast` + workers <= cap + 1), which is `RecentInv`. `NothingIsOrphaned` needs no such room, and no sweep after
  a backup: `OrphanInv` says that what was saved is listed, planned to be deleted, swept,
  or out of room, and `LateInv` alone that what falls off a full list has the rest of it
  for newer ones, but for what the other workers listed late (`CutIsOutOfRoom`). Neither
  bound is an artefact: TLC refutes `RecentAreKept` where the cap is below `keepLast` +
  workers - 1, and `OnlyFaultsOrphan` without either of its exceptions, or with a room of
  one archive less. `ImportsStayExact`, for any dump,
  through `CutInv` (the tokens cut so far are the lines before this one that begin one, each
  once, and the splitter is in a block when its line is), `TransactionInv` and `PsqlInv`
  (what is pending or applied is what the tokens run so far come to, and the counts are
  theirs).
  `SplitsStayRight`, for any input, of any length: the reference `Pieces` says by sets of
  positions where a lexeme begins (`Begins`), so that two lemmas about lexemes carry the
  proof: a lexeme ends before another begins (`LexemesAreApart`), hence no cut and no psql
  command begins inside one (`InLexeme`). The invariant is `PlaceInv` (in its default state
  the splitter stands where a lexeme begins, in another inside the lexeme its state names)
  with `TextInv` (it holds the text since the last cut, and the pieces before it). Where
  `HasOddComment` does not exclude `/*/`, the proof fails at just that step.

Assumptions: the ones named in the modules (`ConstantsAssumption`, `RateAssumption`,
`DoctorAssumption` and their like: sets are disjoint, bounds are natural numbers, the
source's tables are numbered in the order they are copied), and `SafeDeployment`,
`HostsOnly` and `RoomForRecent` where the theorem says so. Where a proof needed a model to be said differently, the model was
changed and not the property: `BootstrapperScope` keeps what is due as a stack, and
`Batches` a set of tenants to come instead of a list in one order, with pages of any
size, so that the runs now cover more than they did; `Backups` has the archives that a
sweep is to delete as a set whose newest goes first, instead of a sorted list;
`SqlImport` cuts a dump as the code's loop does, a line per step, so that the tokens are
state and not the value of a fold; and the reference of `SqlSplitter` defines lexemes by
where they begin and end, without a second scan.

Only model-checked: liveness (`NoLimbo`, `ExpiredIsReclaimed`, `EveryRetrySettles`), which
is out of the prover's reach. Every safety invariant and action property of a passing run is
stated by a theorem.

## Known, and not a run

Behaviours met while modelling that the models reach and no run reports:

- The doctor's fix saves "failed" from its snapshot over an install that
  completed meanwhile (`services/doctor/checks/provisioning_stalled_check.ts:32`).
- Two first verifies both write the first-use row
  (`services/impersonation_service.ts:170`).
- An admin's retry of a delivery that a run is sending can put a success back to
  retrying; a delivery whose dispatch died stays pending and nothing selects it.
- Two processes that write a backup list at once lose an entry; a deletion that
  fails on disk or in S3 is taken off the list all the same
  (`services/backup_service.ts:138`, against the comment at
  `services/backup_retention_service.ts:96`); `keepLast: 90`, which the package's
  README gives as an example (line 642), exceeds the list's cap of thirty. Backups
  without a sweep (`--no-retention`, which says "keep all archives untouched",
  `tenant:backup`, the job) push the oldest off the list, whose file nothing deletes or
  restores any more (`services/backup_service.ts:158`).
- A sweep within an upload leaves an object in S3 that no list names
  (`services/backup_service.ts:200`).
- A replica's connection does not take over schema-pg's search path, which is beside the
  settings it copies (`services/read_replica_service.ts:96-107` against line 74:
  "The schema search_path is preserved").
- The id sequences of a clone are never set: the `DO` block is given parameters, which
  the statement cannot have, and its failure is logged
  (`services/clone_service.ts:176-191`).
- A message sent as a mail instance carries no `X-Tenant-Id`
  (`services/bootstrappers/mail_bootstrapper.ts:96-104` against lines 82-84), and disk
  methods that `KEYED_METHODS` does not name take their keys as they are
  (`drive_bootstrapper.ts:37-56` against line 61).
- `cb:state` has the breaker of whichever server wrote last, and the uninstall job, which
  makes its services anew, deletes that key and leaves the jobs of the queue
  (`jobs/uninstall_tenant.ts:30-31`).
- `resolverStrategy: request-data` reads `tenant_id` whatever `requestData` says
  (`extensions/request.ts:72-74` and `services/resolvers/builtins.ts:112-114`), and takes
  the first label of a custom domain for a tenant's id (lines 62-63).
- A get of the package cache that awaits Redis while another process deletes the key keeps
  the deleted value in memory, for as long as the memory layer does.
- A bootstrapper that is unregistered during a scope is not left, and shifts the
  others (`services/bootstrapper_registry.ts:94`).
- The connection bound, as above (`services/isolation/schema_pg_driver.ts:146`,
  against the comment at lines 33-34).
- `shutdown` says that it invalidates the caches of container singletons
  (`providers/multitenancy_provider.ts:247-254`) and leaves the one of
  `extensions/request.ts:28` and the flag of `health/health_controller.ts:9`: in a
  process that boots a second application, tenants are resolved by the first one's
  chain, and probes run no check.
- A `resolverStrategy` that names a resolver of the application is refused at boot
  (`providers/multitenancy_provider.ts:166`), which `services/resolvers/registry.ts:12-13`
  offers.
- A redelivered clone job fails on the rows of the finished clone and drops it
  (`jobs/clone_tenant.ts:35`).
- The splitter takes the star of an opening `/*` for the star of a closing `*/`
  (`utils/sql_splitter.ts:91` and 157), so that `/*/` is a whole comment to it. It ends a comment that holds another at the
  first `*/`, where PostgreSQL nests them, and knows neither quoted identifiers
  (a semicolon or a quote within `"..."`) nor the escapes of `E'...'`: the symbols of the
  model leave these out.
- Errors of psql begin with the file and the line, and only lines that
  begin with `ERROR:` are counted (`services/sql_import_service.ts:219`).
- `tenant:restore` prints its success after a task that failed
  (`commands/tenant_restore.ts:48`); a rollback run again because one tenant failed
  rolls the others back by another batch (`commands/tenant_migrate_rollback.ts:63`).
- `request.tenant()` connects the driver before the guard has looked at the status
  (`extensions/request.ts:143`); the connections of replicas are never released
  (`services/read_replica_service.ts:110`); a universal route serves a tenant the guard
  would refuse for maintenance or its circuit (`middleware/universal_middleware.ts:72`).
- With one tenant selected the doctor reports the schemas of all others as orphans
  (`services/doctor/checks/schema_drift_check.ts:55`); it resets breakers of its own
  process only (`circuit_breaker_check.ts:10`).
- The README speaks of eight built in checks of the doctor (lines 33 and 487) and of
  ten (line 512); ten are registered.

## Not modelled

- Admin documents and routes (`admin/openapi.ts`, `swagger_html.ts`, `routes.ts`),
  events, exceptions, types and re-exports: constants without behaviour.
- `utils/crypto.ts`, cross-domain URLs, identifiers and channel names: functions of
  strings whose correctness is that of AES-GCM or of a regular expression.
- Audit log, telemetry, tenant logger, the Prometheus text: output nothing reads back.
  Rows that matter to a property are counted by the module that writes them.
- The sqlite driver and the testing helpers, which only tests use.
- Route macros and the loading of route files, the REPL, the generators.
- Within modelled parts: what hooks do, the contents of tenant schemas, writes to the
  source of a clone while it is copied, the rewriting of schema names inside a dump,
  the text of psql's errors, exit codes of commands that report and do not change
  anything, wall-clock time other than the boundaries above.

PostgreSQL, Redis, S3, BullMQ, Lucid, opossum and BentoCache are external and modelled
by how the code uses them. `PROJECT.json` gives the reason for each part.

## Plan

1. Compositions of what is checked side by side: `Gates` with `Breakers` (the guard asks
   the breaker that requests trip) and with `ConnectionPool`; `Batches` and `Cloning`
   with the handlers of `TenantLifecycle`.
2. Abstract specifications: a quota as a counter with slack, a cache as a value with a
   staleness window, a delivery as a job that is sent at least once.
3. Theorems: the implementation of an abstract cache by `LayeredCache`.
