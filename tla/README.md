# Verification of the school-management backend

TLA+ models of the NestJS backend in this repository, TLC configurations that
check them on small instances, and TLAPS proofs of the properties that matter
most, for every value of the constants. Line numbers without a path refer to
`src/auth/auth.service.ts`; other source paths are relative to the repository
root.

The backend is stateless: everything two requests share lives in PostgreSQL,
in Redis, or in a few counters and queues of the process. Every handler is an
`async` function, several API processes may run at once, and nothing takes a
lock or opens a transaction around more than one statement. So the questions
worth asking are about what happens *between two awaits*, and that is the
grain of the models: one action is the code from one await to the next.

## 1. Inventory

| Component | State | Operations | Interacts with | What is hard |
|---|---|---|---|---|
| Sessions (`src/auth/auth.service.ts`, `src/auth/auth.controller.ts`, `src/auth/guards/jwt.guard.ts`) | `auth:session:<id>` records in Redis (owner, hash of the current refresh token, expiry); JWTs in cookies | register, login, refresh, logout, guard | accounts, Redis, cookies of clients | a late `SET` after a `DEL`; status read before signing and used after; one-second tokens; lost replies; two tabs with one cookie jar |
| Accounts and hierarchy (`src/auth/auth.service.ts`, `src/auth/auth-bootstrap.service.ts`) | `users` table, unique on email | register, createUser, changeRole, seedDefaultAdmin; an operator's SQL | roles, sessions | look-up then insert; `save()` of a stale row; chains of promotions; concurrent starts |
| Rate limiter (`src/common/throttling`, `src/app.module.ts`) | per throttler and key a hit counter and a block key in Redis, both with expiry | `increment`, called by the global guard for each throttler | Redis; every throttled route | INCR and PEXPIRE are two commands; reads of the block before it is set; window boundaries |
| Loki transport (`src/logging/loki-transport.service.ts`) | queue, `isFlushing`, `nextRetryAt` | enqueue, flush, timer, shutdown | the logger; Grafana Loki | flushes that overlap; put-back order; capacity; shutdown; pushes that were stored and reported failed |
| Request pipeline (`src/main.ts`, `src/app.module.ts`, interceptors, filter, `AppLogger.write`, request context) | the response and the context store of a request; counters of `MetricsService` | request-id middleware, guards, interceptors, pipe, handler, filter | everything | the order: guards before interceptors, `finalize` before the filter; whose name a log line bears |
| Role catalogue (`src/auth/role.service.ts`, `src/auth/auth.seed.ts`, `src/auth/entities`) | `roles`, `permissions`, `frontend_routes` and their links; cached list in Redis | seedDefaults at every start, findAll | bootstrap, register, `/auth/roles` | processes and releases seeding at once, each writing its difference from a row it read earlier; paths given to other keys; failures half-way; stale lists |
| Redis access (`src/redis/redis.service.ts`) | a connection, or none (REST) | GET, SET EX, DEL, INCR, PEXPIRE, PTTL, PING | all of the above | a command that took effect and was reported failed; two backends chosen in several places |
| Process start and stop (`src/main.ts`, module hooks) | where `bootstrap()` has got to | configure, connect, seed, start probes, listen, ping Redis, stop | database, Redis, the platform | dependencies that go down, and ports that are taken, between two steps; what may crash the start and what may not |
| Dependency health (`src/metrics/dependency-health-metrics.service.ts`) | two gauges, two timers | measure | metrics, database, Redis | pings overlap and are answered out of order |
| Configuration (`src/config/app.config.ts`) | none after start | pure resolution of the environment | all | managed and local settings, blank and malformed values |
| TypeORM logger, DTOs, Swagger, module wiring, deployment files | none the program decides on | – | – | – |

What makes each correct:

- **Sessions.** A session belongs to one user for ever. Once it is gone and no
  request is past its check it cannot return. A request that starts after the
  end is refused. Redis does not end it earlier than its tokens. A suspended
  user gains nothing new. A client that does not refresh twice at once stays
  signed in.
- **Accounts.** Addresses are unique; the system admin role is reached by the
  seeding alone and left by nobody; rank checks hold for what is saved.
- **Rate limiter.** No more than the limit per window (twice over any stretch
  of that length); a block stops counting; a limited client is let in again.
- **Loki transport.** Nothing but entries of failed pushes is lost without a
  report, order is kept, the oldest go first, nothing confirmed is sent twice,
  everything is settled once Loki answers again, a shutdown flushes, and it
  ends unless pushes keep failing or entries keep arriving.
- **Pipeline.** Status, envelope and metrics agree, internal errors stay
  untold, every failure is logged once, and no line names the user of another
  request.
- **Role catalogue.** A process that is up has all its roles, with the
  permissions and routes on which the running releases agree; starts that trip
  over each other recover unless a path was moved; stale lists lapse.
- **Start.** The process connects where its environment says, and becomes
  ready without Redis if it can have its port.
- **Health.** A gauge comes to say what is so, and then stays.

## 2. Modules

| Module | Models | State |
|---|---|---|
| `SessionContract` | the promise about one session, without clocks, tokens and handlers | `owner`, `live`, `tickets` |
| `AuthSessions` | the four session handlers and the guard | `account`, `owner`, `session`, `tokens`, `clock`; per request `pc`, `who`, `sid`, `held`, `answer`, `doomed` |
| `Browser` | extends `AuthSessions` with clients that keep cookies | `jar`; per request `by`, `asks`, `carry`; history `spoiled` |
| `UserDirectory` | the `users` table and all that writes it | `row`; per request `creating`, `changing` |
| `RateLimiter` | `increment()` and the guard's two calls of it | `hits`, `expires`, `blocked`; per request `pc`, `stage`, `total`, `route`; histories `log`, `touched`, `lost` |
| `LokiTransport` | the transport, one process | `queue`, `isFlushing`, `backingOff`, `pushes`, `phase`; `logged`, `delivered`, `dropped`; histories `cut`, `failed`, `acked`, `mark` |
| `ErrorEnvelope` | what an exception becomes on its way to the client | operators only |
| `RequestPipeline` | extends it: guards, interceptors, filter, HTTP metrics, log lines and their context | per request `pc`, `route`, `status`, `cacheControl`, `thrown`, `body`, `report`, `context`, `lines`; `inflight`, `counted`, `errors`; histories |
| `RoleCatalog` | seeding by several processes, the cached list | `row` (with its links), `routes`, `perms`, `cache`, `lapse`; per process `pc`, `at`, `mapped`, `known`, `seen`, history `alone`; per reader `reads`, `asked` |
| `Configuration` | `app.config.ts` and how the connections are chosen from its result | operators only |
| `DependencyHealth` | the probes of PostgreSQL and Redis | `up`, `pings`, `gauge`, `timers` |
| `Bootstrap` | extends both: the life of one process | `env`, `port`, `phase`, `seeded` |
| `MC*` | constants, environments and symmetry sets for TLC | – |
| `*Proofs` | theorems about the module of that name (`AuthSessionsProofs` also about `SessionContract`, `BootstrapProofs` about `Configuration`) | – |

How the pieces compose. `Browser` is `AuthSessions` with its clients: every
step of it is a step of `AuthSessions` taken with the cookies a client really
holds, or leaves the backend alone. `BrowsersAreClients` checks that, so what
holds of `AuthSessions` holds with these clients, and `AuthSessions` in turn
implements `SessionContract`. `AuthSessions` takes accounts as a variable the
environment changes (any suspension, reactivation and deletion at any time), so
it covers whatever `UserDirectory` and an operator do to them; `UserDirectory`
takes the guard's verdict as a read of the row, the session being irrelevant to
what it writes. `RequestPipeline` treats what guards and handlers throw as a
choice from the exceptions their code throws, so it covers `RateLimiter` and
`AuthSessions` underneath. `Bootstrap` runs `Configuration` once and
`DependencyHealth` throughout; its `SeedRows` and `SeedCache` are
`RoleCatalog`'s `Seed` seen from outside. `AuthSessions`, `RateLimiter` and
`LokiTransport` assume positive lifetimes, limits and sizes, as the defaults
are. Nothing in the configuration guarantees that: `parseNumber` turns a blank
into 0 and passes 0 and negative numbers on (section 3), and what the other
modules would do with those is not modelled.

### From code to actions

- `register`: `BeginRegister`, `RegisterFind` (look-up of the address),
  `RegisterSave` (insert), `Sign`, `Store`. `login`: `BeginLogin`, `LoginFind`,
  `Sign`, `Store`. `refreshSession`: `BeginRefresh` (token verification),
  `RefreshSession` (GET and the comparison of hashes), `RefreshUser`, `Sign`,
  `Store`; each branch that deletes goes through `Delete`. `logout`:
  `BeginLogout` (either cookie names the session), `Delete`. Guard:
  `BeginGuard`, `GuardSession`, `GuardUser`, then `Delete` for a suspended
  user. Every Redis write has an `Unacknowledged` twin: it takes effect and is
  repeated or reported failed. `Fail` is any other rejected await or the crash
  of the process.
- The two JWTs of a response are one token: they are signed together from the
  same payload, and only the second and the session distinguish two of them.
  The hash is injective, so a record holds the token itself.
- In `Browser` the cookies an answer sets are decided when the handler ends
  (`Cookies`) and reach the jar when the answer does (`Receive`, `Kept`), in
  any order, or never (`Lose`). A refused refresh leaves the cookies alone and
  a logout clears them, as the controller does.
- Users' rows in `UserDirectory` keep the address, the role and the status.
  `save()` of a loaded entity rewrites every column that differs from the
  database at that moment, hence `SaveTarget` writes the whole snapshot and
  inserts the row again if it was deleted.
- `increment()`: `BlockTtl` (PTTL of the block), `Increment`, `Expire`,
  `Compare` (PTTL of the counter and the test), `SetBlock`, `Report`. A tick is
  a second; a key whose time is up is dropped by the tick.
- `flush()` runs synchronously up to the `fetch`, so `Enqueue`, `TimerFires`
  and `Destroy` contain its start, and `PushOk`/`PushFail` contain all that
  follows the reply, the recursive forced flush included. A failed push may
  have been stored. `enqueue` counts and reports what it cuts off (`dropped`);
  the slice after a failed push (126) does neither (`cut`).
- The framework's order in `RequestPipeline`: `Accept` (middleware, body parser
  and router, any of which may refuse, whatever the route), `GuardsReject` or
  `GuardsPass` (success status set, interceptors entered), `HandlerReturns` or
  `HandlerRejects` (the pipe or the handler; then the interceptors'
  `finalize`), `Filter`, `Close`.
- `flattenValidationErrors` of `ErrorEnvelope` is the recursion of the code.
  class-validator's tree is a list of numbered errors that name their first
  child and their next sibling; `Own` is what an error says itself, `Below`
  puts its property in front of what its children say. `NestedFieldsAreNamed`
  in `MCRequestPipeline`, which TLC evaluates at every run, compares it with
  the paths and the order expected, on every tree of three errors. A message is
  reduced to what tells messages apart: `generic`, `invalid`, `specific`, or
  that of a field.
- `seedDefaults()`: `Start`, then per route `FindRoute`, `SaveRoute`, then
  `LoadPermissions`, then per role `SavePermission`, `FindRole`, `SaveRole`,
  then `Invalidate`; `Stop` and the unique indexes (a route's key and path, a
  role's code, a permission, a link) end it at any step. `save()` reads the row
  again and writes the difference: columns that changed, links to add and links
  to remove (`Column`, `Links`, `Clash`). Rows are never deleted, so one read
  between the two, `seen`, stands for `findOne`'s and `save`'s. Each release has
  its own routes, paths, permissions and grants, and `Left` is what releases
  before them left in the tables. `findAll()`: `ReadCache`, `ReadTable`,
  `FillCache`.
- `bootstrap()`: `Construct`, `Connect`, the hooks `InitProbes`, `SeedRows` and
  `SeedCache`, `Listen`, `StartupPing`; `Stop` and `Quit` at a signal;
  `Restart` by the platform. `Listen` rejects, and the process ends, when the
  port is none or another program has it; nothing catches that. A ping is sent
  (`Fire`), meets the dependency as it is then (`Reach`) and is answered later
  (`Settle`).
- An environment maps each variable to nothing, the empty string, a text no
  parser knows, a number, a flag, a word, or the parts of a URL that the code
  looks at. `AppConfig` follows the exported function field by field.

PROJECT.json maps each definition to the lines it stands for.

## 3. Runs

Each cfg is named after its run.

| Run | Checks | Shows | Bounds |
|---|---|---|---|
| `AuthSessions_safety` | `TypeOK`, `RecordOutlivesToken`, `DoomedRefused`, `DeadStaysDead`, `SuspendedGainsNothing` | what sessions promise, whatever overlaps, fails or expires | 2 users, 1 session, 2 requests, access TTL 1, refresh TTL 2, clock to 2 |
| `Browser_tabs` | `StaysSignedIn`, `BrowsersAreClients`, `ImplementsContract` | two tabs of one browser beside a second session: only a double refresh, a lost token or a deliberate end signs the client out; the contract holds underneath | 1 user, 1 browser, 2 sessions, 2 requests, clock to 1 |
| `UserDirectory_safety` | `TypeOK`, `EmailUnique`, `AdminsAreSeeded`, `AdminsStayAdmins`, `HierarchyUnlessStale` | no double account, no climbing to the top, no fall from it; ranks hold unless one changed after it was read | 2 rows, 2 addresses, 2 requests, 3 ranks |
| `RateLimiter_safety` | `TypeOK`, `CountersFade`, `WindowBound`, `BlockFreezesCounter` | at most twice the limit in one window's length; counters end, blocks hold | 2 requests, both throttlers, clock to 3, 3 hits |
| `LokiTransport_queue` | `TypeOK`, `Accounted`, `InOrder`, `DropsOldest`, `ConfirmedOnce`, `ShutdownFlushes`, `Settled`, `ShutdownEnds` | the queue through failures, stored-but-failed pushes and shutdown | batch 2, capacity 3, 6 entries |
| `RequestPipeline_overlap` | `TypeOK`, `Balanced`, `EnvelopeMatchesStatus`, `LinesAttributed`, `EveryAnswerLogged` | gauge, envelope and log lines agree with what happened | 2 slots, 4 requests, 2 users, 2 invalid inputs, one route of each kind |
| `RoleCatalog_seeding` | `TypeOK`, `UpMeansSeeded`, `SoloSeedWins`, `ListsLapse`, `AllComeUp` | overlapping starts of two releases, beside a reader | 2 processes of 2 releases, the later with a permission added and one taken away, a route added and a path moved; 2 roles; tables empty or left by an older release; 1 reader, 1 failure, TTL 1, clock to 2 |
| `Bootstrap_start` | `ConnectionsFollowEnvironment`, `ReadyDespiteRedis`, `GaugesCatchUp` | where a process connects, that it becomes and stays ready if it can have its port, and that its gauges come right | the environments of the repository with one variable, or two that choose a connection, set to anything, `PORT` among them; 2 pings to each dependency |

Why the bounds are enough. The races are between two requests on one record,
and every one of them shows with two; two users with a session each are what it
takes to act for the wrong one, and the proofs of section 4 lift the session,
account, transport, pipeline and catalogue properties to any number of each.
Clocks run past the longest lifetime where time matters; in `Browser_tabs` a
tick is enough for an access token to lapse and a refresh to renew it. Three
ranks stand for every order of requester, target and role below and at the top.
The limits are the smallest that let two requests be below, at and above them;
one block is as long as the window, one longer. The Loki queue overflows with a
batch out, twice, and may be told to stop at any point of that. Four requests
over two slots let every slot be used again, which is what a leak from one
request to the next needs; the invalid inputs are one bad field, and two of
which one is twice wrong; the repository's DTOs are flat. Two roles share a
permission, as `PRINCIPAL` and `SYSTEM_ADMIN` do, and two releases differ in
every way a row can change: a link more, a link less, another path. Two pings
to a dependency are what it takes for one to overtake the other. Request slots,
users, sessions and clients are interchangeable; symmetry sets are used in runs
without liveness only.

Deadlock checking is off where the model ends of itself: the process has
exited, or `MaxRequests` have been answered.

### Where the code and its documents disagree

Each of these runs ends in a counterexample; the property quotes the document.

| Run | Property | What happens |
|---|---|---|
| `AuthSessions_logout` | `LogoutFinal` | refresh reads the session, logout deletes it and answers, refresh stores it again (269) |
| `UserDirectory_overlap` | `HierarchyAtSave` | of two role changes the second is saved on a rank it never checked (203) |
| `RateLimiter_lockout` | `LaterIsPossible` | a lost PEXPIRE leaves a counter that never ends |
| `RequestPipeline_failures` | `FailuresCounted` | a handler throws, `finalize` measures the success status set before it ran, and only then the filter answers 500: the error-rate alert stays silent |

The weaker properties that do hold say how far each goes: a revived session
needs a request that was already past its check (`DeadStaysDead`), a suspended
user gains nothing once those are through (`SuspendedGainsNothing`), whatever
ranks change meanwhile the top one is out of reach (`AdminsAreSeeded`), a
counter ends unless its PEXPIRE was lost (`CountersFade`), a rank check fails
only on a rank that changed after it was read (`HierarchyUnlessStale`), and a
failure that is missing from the metrics is in the log (`EveryAnswerLogged`).

Further disagreements are visible in the definitions themselves and have no
run, because a property would restate one line or repeat a mechanism above:

- the guard's deletion of a suspended user's session can be undone like a
  logout's (`src/auth/guards/jwt.guard.ts` 81, "refresh also fails
  immediately");
- a refresh in the second its token was signed in returns the same token
  (`Sign`; `README.md` 104, "rotated");
- a role change saves the whole row it loaded, a suspension made by an operator
  meanwhile is undone (`SaveTarget`);
- two first starts both insert the default admin and one fails (`SaveUser`);
- the `auth` throttler counts every throttled route (`Pass`; `README.md`
  50 names three);
- with Redis down the throttler's storage throws and throttled routes answer
  500 (`GuardThrows`), though the process is built to stay up without Redis;
- entries cut off after a failed push are not counted or reported, unlike those
  cut off by `enqueue` (`PushFail`; `src/logging/loki-transport.service.ts` 126
  beside 85-92);
- with Loki down the flush at shutdown repeats at once, without back-off and
  without an end of its own (`Settle`, `ShutdownEnds`;
  `src/logging/loki-transport.service.ts` 133); a shutdown that finds a push in
  flight does not wait for it (`Destroy`);
- a `PORT` that is no port, which no parser refuses, or that another program
  has, ends the process at `app.listen` (`Listen`; `src/main.ts` 132), and the
  platform starts it again and again;
- a release that gives a route the path of another key cannot start while the
  other row still has it, and neither can the older release afterwards
  (`Blocked`; `src/auth/entities/frontend-route.entity.ts` 12);
- while two releases start at once a role may end with links of both
  (`Links`, `UpMeansSeeded`; `src/auth/role.service.ts` 124), until the next
  start that no other overlaps (`SoloSeedWins`);
- requests refused by a guard carry no `Cache-Control` and are not counted
  (`GuardsReject`; `README.md` 51, `src/metrics/metrics.service.ts` 60); a
  failing `/auth/roles` is sent with the public policy of its success
  (`Policy`, `Filter`);
- the access line is written before the filter sets the status, so the branch
  of `LogAccess` that warns of a client or server error is never taken;
- a 400 with a single text gets the message for invalid input, though the
  filter's comment promises a specific one (`resolveMessage`;
  `src/common/filters/api-exception.filter.ts` 35), and an error of the body
  parser that is no `HttpException` (413) is answered with 500 (`Refusals`);
- `/metrics` is wrapped into the JSON envelope (`SuccessBody`;
  `docs/observability.md` 92);
- a cached value that is not JSON throws instead of counting as a miss
  (`src/redis/redis.service.ts` 112);
- `LOG_REDIS_OPERATIONS` has no effect: the configuration calls the setting
  `logRedisOperations` (`src/config/app.config.ts` 380), the service reads
  `logging.redisOperations` (`src/redis/redis.service.ts` 27), while
  `docs/observability.md` 64 documents it;
- in `AppConfig`: a blank number is 0 and not its default (`parseNumber`), a
  blank `DB_SSL=`, as `.env.example` 15 has it, turns TLS off
  (`parseOptionalBoolean`), `DB_SSL=true` drops the verification that
  `sslmode=verify-full` asks for (`resolveDatabaseSsl`), and `DB_SYNC` is on
  unless set (`.env.example` 24, "NEVER set true in production").

### Fairness

- `AuthSessions`, `Browser`, `UserDirectory`, `RateLimiter` and
  `RequestPipeline`: none. Their properties are safety properties; the code puts
  no time-out on an await of Redis or PostgreSQL, so nothing is claimed of
  requests being answered.
- `LokiTransport`: weak fairness of the interval timer, of the end of the
  back-off and of the reply (`AbortSignal.timeout` settles every push), and
  nothing of what Loki replies. `Settled` has `LokiBack` as its premise: a Loki
  that never takes a push settles nothing. `ShutdownEnds` has no premise: a
  shutdown that does not end is one in which pushes fail, or entries arrive,
  for ever. Entries are finitely many in the model (`MaxEntries`), so there the
  second way does not occur.
- `RoleCatalog`: weak fairness of each process's next step, its start
  included: queries settle, and the platform restarts a process whose start
  failed.
- `Bootstrap`: weak fairness of the process's own steps and of its restart
  (`restart: unless-stopped`), of each interval and of each ping's two halves.
  The code puts no timeout on a ping; that one settles is an assumption about
  TypeORM's and Redis' clients, and without it a gauge may stay as it is.
  Nothing is assumed of signals, of the dependencies or of the port;
  `ReadyDespiteRedis` says what it needs of them in its premise.

## 4. Proofs

| Module | Theorem | States |
|---|---|---|
| `AuthSessionsProofs` | `TypeCorrect` | `[]TypeOK` |
| | `DeadSessionsStayDead` | `DeadStaysDead` |
| | `DoomedRequestsRefused` | `[]DoomedRefused` |
| | `SessionsHaveOneOwner` | `[]SessionOwner` |
| | `SuspensionTakesHold` | `SuspendedGainsNothing` |
| | `RecordsOutliveTokens` | `[]RecordOutlivesToken` |
| | `LonelyLogoutIsFinal` | `LogoutEnds` |
| | `SessionsKeepContract` | `ImplementsContract` |
| | `EndedIsFinal` | `EndedForever` |
| `BrowserProofs` | `BrowsersAreBackendClients`, `BrowsersKeepContract`, `BrowsersStaySignedIn` | `BrowsersAreClients`, `ImplementsContract`, `[]StaysSignedIn` |
| `UserDirectoryProofs` | `DirectoryTypeCorrect`, `AddressesAreUnique`, `AdminRoleIsSeededOnly`, `AdminRoleIsKept` | `[]TypeOK`, `[]EmailUnique`, `[]AdminsAreSeeded`, `AdminsStayAdmins` |
| | `OnlyStaleRanksSlip` | `HierarchyUnlessStale` |
| `RateLimiterProofs` | `LimiterTypeCorrect`, `CountersRunOut`, `BlocksHold`, `WindowsBounded` | `[]TypeOK`, `[]CountersFade`, `BlockFreezesCounter`, `[]WindowBound` |
| `LokiTransportProofs` | `TransportTypeCorrect`, `NothingVanishes`, `OrderKept` | `[]TypeOK`, `[]Accounted`, `[]InOrder` |
| | `OldestGoFirst`, `SentOnceConfirmed`, `ShutdownKeepsWord` | `[]DropsOldest`, `[]ConfirmedOnce`, `[]ShutdownFlushes` |
| `RequestPipelineProofs` | `PipelineTypeCorrect`, `GaugeBalances`, `EnvelopesMatch` | `[]TypeOK`, `[]Balanced`, `[]EnvelopeMatchesStatus` |
| | `LinesNameTheCaller`, `AnswersAreLogged` | `[]LinesAttributed`, `[]EveryAnswerLogged` |
| | `ErrorCounterNeverMoves` | `[]NoErrorsCounted` |
| `RoleCatalogProofs` | `CatalogTypeCorrect`, `UpFindsRoles` | `[]TypeOK`, `[]UpMeansSeeded` |
| | `LonelyStartsWin`, `StaleListsLapse` | `[]SoloSeedWins`, `[]ListsLapse` |
| `BootstrapProofs` | `EnvironmentChoosesConnections` | `[]ConnectionsFollowEnvironment` |

Every safety property the runs check, invariant or action property, is the
subject of one of these theorems. They hold for every value of the constants
that meets the modules' named assumptions: null values are not members of the
sets they stand beside, lifetimes, limits and sizes are natural numbers
(positive where the code clamps them or ships positive defaults), in
`UserDirectory` no role outranks the system admin's, as in the seed, in
`RoleCatalog` the lists that are seeded are not empty and a release grants only
routes it seeds, and in `Bootstrap` a numeric variable is a whole number, text
that is no number, blank or not set: fractions are left out. The bounds on
clocks, entries and requests are constants like any other.

`SessionOwner` and `EndedForever` are theorems without a run of their own: the
contract that `Browser_tabs` checks `AuthSessions` against already has one
owner per session and ends it for ever. Two more say exactly how far two of
the disagreements of section 3 reach. `LogoutEnds`: a logout is final unless a
refresh of its session is past its check when the DEL is answered.
`NoErrorsCounted`: the error counter never moves at all.

The arguments, in short:

- `Typed` is `TypeOK` with what a request holds at each `pc`: one that is about
  to sign or store knows a user, a session and a token that fit. Everything in
  `AuthSessionsProofs` builds on it.
- `DoomedRefused` is not inductive: a doomed request could, for all it says, be
  about to pass its check. `Refusal` adds why it will not: its session is dead
  or its user deleted, both for good (`DeadStep`, `DeletedForGood`), or it is
  on its way to a refusal already.
- `SessionOwner` needs to know what the tokens *in flight* say, not only those
  given out: `Owned` extends it to requests about to sign or store, and to the
  presented cookie of a refresh.
- `RecordOutlivesToken` needs that a token about to be stored was not signed in
  the future (`SignedBefore`).
- Refinement: a ticket is a request past its check. `Sign` and the guard map to
  stutters, `RefreshSession` to `Admit`, expiry and deletions to `End`.
- `Browser`: that its runs are runs of `AuthSessions` follows step by step
  (`BrowsersAreClients`), so `Typed`, `Owned` and `Outlives` hold of it at once.
  `StaysSignedIn` speaks of the times between refreshes; `Sound` says what
  holds during one as well, for a session nobody spoiled: one client holds its
  cookies, no request is about to delete its record, and the record matches the
  jar unless a refresh has stored a newer token whose answer is still to come.
- `UserDirectory`: `Inv` adds `AdminCreations` (a pending creation of the top
  role carries the bootstrap address), `AdminChanges` (no pending change is of
  an admin's row or grants the top role) and `AddressFixed` (a snapshot's
  address is that of its row); uniqueness then survives the re-insertion of a
  deleted row.
- `RateLimiter`: `Fades` says when a counter that is not expiring yet still has
  a request that will set its expiry; a failure at that point sets `lost`.
  `WindowBound` is a count over the whole past of a counter, which no invariant
  about the present state implies. `Lives` sums that past up: `Since` says when
  the present life of the counter began and that a full window's length before
  it at most one life was counted in (a life with an expiry lasts a window);
  `TwoLives` that every window meets two lives at most. Replies within a life
  differ (`Distinct`), so a life has no more of them than the limit
  (`DistinctCount`).
- `LokiTransport`: the push in flight and the queue form one `Line`. `flush`
  only moves the border between them (`FlushKeeps`), so a push that comes back
  is where it was. `Placed` says that the line is in order and holds nothing
  confirmed, `Complete` that what it does not hold is given up or confirmed.
  `DropsOldest` is not inductive: the queue may give up entries *newer* than
  the batch in flight, and if that came back in front of it the property would
  fail. `Older` adds that the queue is full then, so that the batch, failing,
  is cut off whole (`SameRear`). That what is lost in silence is part of the
  failed push alone (`cut` within `failed`) follows from the queue never being
  longer than its capacity: the slice after a failed push cuts from the front,
  where the batch is. `ShutdownFlushes` needs that the process is
  `stopping` exactly while a forced push is in flight.
- `RequestPipeline`: `Served` says per request what it has at each `pc`: up to
  the handler no lines, in it a success status, in the filter an exception of
  the known kinds and at most its access line, from the guard on a context that
  is the caller's. A step of one request leaves every other `Served`
  (`ServedAgain`). `Balanced` also needs that the measured requests are
  finitely many, which is part of the invariant, not assumed of `Req`.
- `RoleCatalog`: `Mapping` and `Knowing` say what a start that has come so far
  has in its maps: the routes behind its index, and permissions that are in the
  table. `Snapshot` is what makes the interleavings safe: a role that was read
  and is about to be saved has changed since, if at all, only in that running
  releases added links they want and took away none that all of them want
  (`Since`). So the difference taken from the older row, applied to the present
  one, ends `Between` the releases (`LinksReach`) and keeps that true for every
  other start that has read the row (`LinksSince`). `Progress` collects it for
  the roles behind the index; once every role is written, `UpMeansSeeded` is
  what is left of it. `Saved` says what each way of saving a role does to it,
  `OneKeeps` and `OthersKeep` why the other starts keep their parts. `Solitude`
  adds, for a start that is alone, that what it read is still there and what it
  wrote is still as it wrote it.
- `Bootstrap`: the property is about the pure functions of `Configuration`
  while the environment is being read. Each resolver that chooses a connection
  has a lemma that says which variables it looks at.

Model-checked only: the liveness properties (`Settled`, `ShutdownEnds`,
`AllComeUp`, `ReadyDespiteRedis`, `GaugesCatchUp`), which are beyond the proof
system's backends, as is `ENABLED`; what `flattenValidationErrors` computes, an
induction over data; and the four counterexamples of section 3, which are runs
and not theorems.

## 5. Not modelled, and why

- Passwords, bcrypt, signatures: a login with the right password, a token the
  server signed; anything else is refused before shared state is touched.
- The reconnection of the Redis socket and ioredis' own retries: a command that
  waits for them is one that takes long, and has the three outcomes the models
  give every command (done, failed, done and reported failed).
- How a log record's text and metadata are put together, and TypeORM's logger,
  which turns each callback into one line and one counter.
- Histograms, default process metrics, operation counters: wrappers of
  prom-client without a decision of their own.
- Pagination metadata of success responses, the shapes of validation errors
  other than those of the pipe's own factory, Swagger, DTO declarations, module
  wiring, deployment files.
- The listing of a user's frontend routes: a read of one row.
- Grouping of log lines by labels; duplicates in Loki after a timeout are
  Loki's to discard.
- Settings that are passed on as they are (origins, cookie names, secrets, the
  admin's account), fractions among the numbers, the fallback of an unknown log
  level, and the lower bound of the roles' TTL, which `RoleCatalog` assumes.
- Which requests have a body: any route's request may be refused by the parser.

## 6. Plan

Written, in this order: sessions and their contract (the core), accounts, rate
limiter, Loki transport, request pipeline, role catalogue; then clients with
cookies, configuration, probes and the process around them, error bodies and
log lines, frontend routes, releases that seed different roles; then the proofs
about transport, pipeline and catalogue, and those about clients, windows and
configuration.

Left, models:

1. Socket Redis: the connection's states and the offline queue, as a refinement
   of the three outcomes of a command.
2. Two API processes over one `RateLimiter` and one `AuthSessions` with skewed
   clocks (JWT lifetimes are judged by the process, records by Redis).
3. Pagination and the other forms of validation errors in `ErrorEnvelope`.

Left, proofs: the converse of `WindowsBounded`, that a client is let in again
(a liveness property unless a PEXPIRE was lost), and lemmas that give the
fairness arguments their measure, such as `LokiTransport`'s shrinking line.

## 7. Running

    tlc -config AuthSessions_safety.cfg MCAuthSessions.tla
    tlapm AuthSessionsProofs.tla

PROJECT.json names the module of every cfg. The longest runs take one to three
minutes each.
