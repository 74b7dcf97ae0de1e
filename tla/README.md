# Andikisha backend: a TLA+ development

This directory holds TLA+ modules of the Andikisha backend, the configurations
that model-check them with TLC, and theorems about them that TLAPS checks. The
reference is the code of the repository; paths below are relative to its root,
and `auth.service.ts` and the like are names of files in it.

Contents: 1 the system, 2 the modules, 3 the runs, 4 the proofs, 5 where the
code and its documents differ, 6 further observations, 7 what is not modelled,
8 what is left.

## 1. The system

A payroll and HR backend for several tenants: four NestJS processes, one
PostgreSQL database per service (through Prisma), one Redis, one RabbitMQ. The
example manifest runs three replicas of the gateway, two of the auth-service and
two of the employee-service (`k8s-deployment-example.yaml:13,79,146`). Every
handler is an `async` function: each `await` lets another request of the same
process run, and other replicas run anyway. That, and Postgres at Read Committed,
is where the interleavings in the modules come from.

| component | state | operations | talks to |
|---|---|---|---|
| api-gateway (`services/api-gateway`) | none of its own; the payload cache `jwt:<sha256>` in Redis; timers | `TenantMiddleware`, throttler, `AuthGuard`, `TimeoutInterceptor`, the controllers, the exception filter | auth and employee service by gRPC, Redis |
| auth-service: tokens | `refresh_tokens`, `sessions` | login, refreshToken, logout, validateToken, getUserById | PostgreSQL |
| auth-service: accounts | `users`, `roles`, `user_roles` | register, `createDefaultSystemRoles` at boot | PostgreSQL |
| employee-service: staff | `employees`, `positions`, `departments` | create, update, delete (terminate) employees; create, update, delete positions; delete departments | PostgreSQL |
| employee-service: departments | `departments`; the cache `department:<tenant>:<id>` in Redis | create, get, update, delete, list | PostgreSQL, Redis |
| employee-service: bank accounts and contacts | `bank_accounts`, `emergency_contacts` and their `isPrimary` | add, update, set primary, delete, list | PostgreSQL |
| health-aggregator | snapshots per service, in memory; Prometheus gauges | poll by cron and at boot, check by hand, verdict, metrics | HTTP `/health` of the others |
| `libs/health` | none | the checks of a service (`getHealthChecks`), an indicator for each dependency, the route `/health` | database, Redis, memory, the stubs of peers |
| `libs/common` cache | Redis | `CacheService`: read through, look, warm, set, invalidate, reset (no caller) | Redis, the loaders of its callers |
| `libs/database`, `libs/rabbitmq`, configuration, logging, protocol files | none that matters here | connect, emit, read | |

A request comes to the gateway with a tenant (a header, or the subdomain) and
mostly with an access token. The middleware asks for the tenant, the guard
verifies the token or finds its payload in Redis, compares the tenant of both,
and the controller makes one gRPC call; an interceptor answers 408 after thirty
seconds. The services trust the tenant they are given. The auth-service signs the
tokens the gateway verifies; they share the secret and no state, so nothing that
happens in the store of the auth-service (a logout, say) is seen by the guard.

What is hard in each part, and what makes it correct:

- **Tokens.** Requests of one user overlap (two refreshes of one token; a logout
  and a login); a token is its payload and a second, so two may be one string;
  the check of a refresh is made before the transaction that acts on it; the two
  statements of a logout have different snapshots. Correct: every answered pair
  has a row of its own, a refresh token dies by an exchange or a logout of its
  owner and never comes back, rotation does not fork, a logout kills what it owes
  the client to kill.
- **Accounts.** Replicas boot together and crash half-way; registrations of one
  address race, with a bcrypt hash between the look and the insert. Correct: a
  serving replica has all roles, every account has a role, an address has one
  account, every registration ends. Between the client and the commit lie the
  gateway's timeout and a connection that can break; the client that was not told
  201 tries again. Correct: what a status says is true.
- **Gateway.** A shared cache that is filled and read between awaits, tokens that
  expire meanwhile, services that do not answer. Correct: nobody is somebody
  else, or at another tenant; an expired token is shut out at last; each request
  is answered.
- **Staff, departments, records.** Checks first, one write later, and in between
  anything may happen; a cache without locks. Correct: references are to rows of
  the tenant, deletions spare active employees, the cache comes to be right, at
  most one record is primary, nobody's record is touched for somebody else.
- **Health aggregator and the probes.** Two writers of a bounded history,
  restarts, a rounded score; indicators of which some throw and some return; a
  dependency that hangs as long as the prober waits; and three parts (registry,
  bootstrap of the services, middleware of the gateway) that must fit. Correct:
  the history is the latest snapshots, the verdict is honest, and in the end true.
- **CacheService.** Loads and stores overlap invalidations; the cache and the
  loader fail at any await; tenants share one key space of texts. Correct: an
  answer is of the key that was asked for, and of another tenant only if names with
  colons make two keys the same; a failure costs one load and no more,
  and what was invalidated with nothing in flight does not come back.

`PROJECT.json` lists these hazards one by one, each at its line, with the
properties that would catch it.

## 2. The modules

An action is a handler, or the part of it from one `await` to the next; `req[r]`
is the closure of the handler (its locals that outlive an `await`). Variables
marked *history* in the modules are read by no guard: they only let a property
speak of the past. A definition of the form `X_Something`, commented *Mutant*, is
the code of `X` with a plausible mistake; no specification uses it, and it shows
that a property can fail. `PROJECT.json` (`map`) says for each definition which
lines it stands for.

| module | models | composes |
|---|---|---|
| `TokenLedger` | abstract: what the token store promises (absent, live, dead) | |
| `Enrolment` | abstract: what becomes of an attempt to register, and what its client is told | |
| `RowStore` | abstract: what a table promises (ids, owners, references) | |
| `AuthTokens` | `AuthService.login`, `refreshToken`, `logout`; `JwtService` | implements `TokenLedger` |
| `AuthTokensProofs` | theorems about it | |
| `Accounts` | `register`, `UserService`, `RoleService` at boot | |
| `Registration` | clients, `POST /auth/register` of the gateway, the connection | `Accounts`; implements `Enrolment` |
| `AccountsProofs` | theorems about both | |
| `Gateway` | `TenantMiddleware`, `AuthGuard`, Redis cache, `ThrottlerGuard`, `ValidationPipe`, call, `TimeoutInterceptor` | |
| `GatewayProofs` | theorems about it | |
| `Staff` | `EmployeeService`, `PositionService`, `deleteDepartment`'s effect on employees | implements `RowStore` |
| `StaffProofs` | theorems about it | |
| `Departments` | `DepartmentService` and its cache | implements `RowStore` |
| `DepartmentsProofs` | theorems about it | |
| `PrimaryRecords` | `BankAccountService`, `EmergencyContactService` | |
| `PrimaryRecordsProofs` | theorems about it | |
| `HealthEndpoint` | the indicators of `libs/health` and `BaseHealthController.check` | |
| `HealthAggregator` | `PollingService`, `StorageService`, `AggregatorService`, `MetricsUpdaterService` | `HealthEndpoint` |
| `ServiceRegistry` | `SERVICE_REGISTRY`, the checks of each service, who can be reached | `HealthEndpoint` |
| `HealthProofs` | theorems about `HealthAggregator` | |
| `CacheService` | `CacheService` of `libs/common` | |
| `CacheProofs` | theorems about it | |
| `MC*` | the instances that TLC checks | each its module |

**AuthTokens.** `stored`, `revoked`, `sessions` are the rows; `held` the tokens a
client has had in an answer. Signing is two steps because each `sign` takes the
time of its own call. A transaction that writes rows by their keys (the commit
of a login, of a refresh) is one step: at Read Committed its effect is that of
its commit, unique keys included (`CommitRefused`). Logout is two steps,
`LogoutRevoke` and `LogoutDelete`, because its two `updateMany`/`deleteMany`
select rows by user, each in its own snapshot; the revocations become visible at
the commit, that is in the second step. A second transaction that would revoke a
row the first is revoking waits for it and then finds nothing to do, which for
the boolean `isRevoked` is the same as revoking twice. A token is exchanged only
if its row is live (`RefreshCheck`), and the transaction does not look again.
`exp` at the very second may go either way in `RefreshCheck`/`RefreshRejected`:
the row's `expiresAt` has milliseconds and the clock of the model has not.

**Enrolment, RowStore.** The abstract modules, like `TokenLedger`, leave out the
requests altogether. `Enrolment` keeps, of each attempt, the account that it may
yet make (`open`), the one it has made and what its client was told; the mapping
(`Open`, `Knows` in `Registration`) hides replicas, transactions, the gateway and the
connection. `RowStore` keeps ids, owners and references, and one step writes one row;
the mapping (`Life`, `OwnerOf`, `Refs`) takes employees, departments and positions
as rows of one store in `Staff`, departments alone in `Departments`.

**Accounts.** `onModuleInit` is a loop of look and create, `BootFind` and
`BootCreate`; NestJS listens after it, so `RegisterStart` needs a replica that is
`up`. `register` is one interactive transaction: rows it inserts are seen by
others at `Commit`, but hold their unique key from `CreateUser` on, which is the
waiting in its guard. A crash rolls back what the replica was doing.

**Registration.** Each step is one of `Accounts` with what it means to the client,
or one of the gateway and the connection with `Accounts` left alone. `attempt[r]`
is where an attempt is: waiting, answered and on the way back, or told a status.
`Timeout` ends the wait and not the work: the request goes on in the service, and
its slot is free for a client that tries again only when both are done. A reply
can be lost after the commit (`Lose`), a replica can die with it (`Stop`). Every
exception of a handler arrives as 500 (`StatusOf`): the service throws HTTP
exceptions, which the gRPC server turns into UNKNOWN.

**Gateway.** Time is what remains to a token and to an entry; `Tick` takes one
from each. The cache is keyed by a hash of the token, taken to be collision-free
(`CacheKey`). The path of a route is a sequence, because whether the middleware
skips a route is a question of prefixes. A request that asks again is the same
slot used again. `ThrottlerGuard` runs after the `AuthGuard`, and `ValidationPipe`
after the interceptors have begun: their places are modelled, and whom they refuse
is left open (`Throttle`, `Validate`), since the counters belong to a library and
bodies are data.

**Staff.** Employees are never deleted but terminated; departments and positions
are, and the foreign keys that refer to them are then set to null (`Delete`).
The checks of a handler are one step although each is an `await`: the rows they
look for do not change tenant, and one that goes meanwhile is found out by the
write (`Connects`) whichever check it had passed.

**Departments.** `View` is what a read returns, with parent and children; `rows`
in it carry the version of each row, which stands for the columns. `answer` is
what the last step returned to a reader. `Serialised` is the JSON round trip of
the Redis store, after which the answer to a reader fails (`MapDepartmentToProto`).

**PrimaryRecords.** Accounts and contacts are one module, since their services
are alike: a request is admitted by its checks (`…Start`), clears the flags
(`ClearOthers`), and writes its row (`Add`, `Flag`, `Delete`).

**HealthAggregator.** `Booted` is what a process starts with: its first poll is
under way and the server not yet listening. Probes end by an answer or a timeout
(`PollAnswer`); the snapshots of a cycle are saved together (`PollSave`); a check
by hand saves its own (`CheckSave`). What is wrong with a service and its
dependencies is a set of faults that changes at any time (`Change`); what a probe
gets follows from the checks of the service (`HealthEndpoint!Answers`), and from
whether it serves HTTP at all and wants a tenant (`Serving`, `TenantBound`).

**HealthEndpoint.** An indicator that throws makes the answer an error; one that
returns "down" does not: the answer is still 200 (`PingCheck`, `RedisIsHealthy`
against `CheckHeap`, `CheckRSS`). A dependency that hangs ends the indicator after
five seconds and the probe after the same five, in either order. The ping of the
database returns how many milliseconds it took, and `pingCheck` takes 0 for a
failure, so the outcome depends on the time too (`PingTimes`).

**ServiceRegistry.** The constants of `HealthAggregator` as the repository wires
them: which services there are, all critical, what each checks, which of them
serve HTTP, and which refuse a request without a tenant.

**CacheService.** Callers are unknown, so they do anything (`GetOrSet`, `Get`,
`WarmCache`, `Set`, `Invalidate`, `Reset` at any time). A name (of a resource, a tenant, an
identifier) is any string, and the model has the sequence of the pieces between its
colons; a key is the pieces of them all, so that identifiers `["x", "y"]` and
`["x:y"]` of one tenant are one key, and so are `["x", "y"]` of the tenant `acme` and
`["y"]` of the tenant `acme:x`. No DTO and no middleware forbids a colon in a tenant
(`register.dto.ts:9-10`, `tenant.middleware.ts:21`).
What loaders read is `source`, a version that anybody may raise (`Write`). Each
await succeeds or throws; a `set` that throws may have stored.

## 3. The runs

Each passing run finishes in three minutes or less on two workers. The bounds are named constants;
a behaviour that would exceed one is cut there and only there.

| run | instance | shows | distinct states |
|---|---|---|---|
| `auth_tokens` | 2 users, 2 requests, 3 seconds, access TTL 1, refresh TTL 2, 3 commits | `TypeOK`, `TablesAgree`, `AloneIsWhole`, `LogoutKillsHeld`, and `LedgerSpec` (refinement) | 202,475 |
| `registration` | 2 replicas, 2 default roles, 1 address, 2 attempts, for no role, a known and an unknown one, an unknown one | `RegTypeOK`, `AccountsSound`, `ToldTheTruth`, `EnrolSpec` (refinement), `EveryRegistrationEnds` | 208,984 |
| `gateway` | 2 tokens of 2 tenants, 2 requests, lifetime 1, cache TTL 2 | `TypeOK`, `OwnTenantOnly`, `ExpiredFades`, `EventuallyShutOut`, `EveryRequestAnswered` | 68,318 |
| `staff` | 2 tenants, 2 employees, 2 departments, 1 position, 2 requests, 4 payloads | `TypeOK`, `References`, `ActiveAsAsked`, `StoreSpec` (refinement) | 415,645 |
| `primary` | 2 employees of 2 tenants, 2 accounts, 2 contacts, at most 3 rows created, 2 requests | `TypeOK`, `SerialAtMostOne`, `AloneMakesTheOnly`, `OwnRowsOnly` | 167,308 |
| `primary_two` | the same | `AtMostOnePrimary` fails (finding) | |
| `departments` | 2 tenants, 2 departments, 2 requests, TTL 2, 1 update of each | `TypeOK`, `TenantsApart`, `CachedIsCurrent`, `HierarchyKept`, `StaleFades` | 650,441 |
| `departments_fresh` | 1 tenant, no symmetry, fairness, TTL 1 | `StoreSpec` (refinement), `EventuallyCurrent` | 548,366 |
| `department_cycle` | as `departments`, TTL 1 | `Acyclic` fails (finding) | |
| `health` | a critical service whose database may hang and another whose database may go down or hang while its heap is full, history of 2, 3 saves, 1 check by hand | `TypeOK`, `KeepsTheLatest`, `VerdictHonest`, `TellingStays`, `EventuallyTold` | 263,814 |
| `health_wiring` | the registry, nothing wrong anywhere | `WellIsCalledHealthy` fails (finding) | |
| `cache_service` | 2 calls, a row of each of 3 tenants, two of which have one key, 2 versions of the source, the second without the rows | `TypeOK`, `OwnAnswers`, `FailuresCostOneLoad`, `InvalidatedStaysGone`, `EveryCallEnds` | 158,538 |

Why these bounds are enough to meet the cases:

- Two requests suffice for every interleaving the properties speak of: each
  property is broken, in its mutant, by one or two requests, and the findings
  need two. Where a third matters (a third refresh of one token) the proofs of
  section 4 do not depend on the number.
- In `auth_tokens` the clock runs past the `exp` of tokens of both types, two
  requests can sign within one second (one string) or across a second, and the
  bound on answers leaves room for a login, and a refresh or a competitor.
- In `registration` two attempts are two clients, or one that tries again while
  its first attempt is still in the service; an address that is taken by one's own
  account needs no more. Of two roles the first can be there and the second not.
- In `gateway` the entry outlives the token (TTL 2, lifetime 1), which is the
  case that `ExpiredFades` and `EventuallyShutOut` are about.
- In `departments` one update of each of two departments makes a cycle, a stale
  entry and an orphan possible; with a TTL of 2 an entry that is read again and
  again could be told from one that ages (`StaleFades`). `EventuallyCurrent` is a liveness property and
  runs without symmetry, for one tenant: keys of different tenants do not meet
  (`TenantsApart`).
- In `primary` three rows are at most two of one employee and kind, with one of
  another: enough for two primary records, and for the rows of somebody else.
- In `health` a history of two is cut, by both writers, within three saves. A database
  hangs alone, where either status may be told, and beside a full heap, where either
  order of the two timeouts must say unhealthy. The rounding of the score cannot go
  wrong with two services: that is left to `VerdictSafe` (section 4). In
  `health_wiring` nothing but the wiring matters, so one snapshot is enough.
- In `cache_service` one call can load, the row be deleted, an invalidation and a
  second call pass it, and the first store what it had. The row of `acme` and that of
  `acme:x` have one key, so that an entry of the one is answered for the other; the
  row of `globex` has identifiers that join to the same text as those of `acme`, so
  that only the tenant keeps these two apart.

**Symmetry** is used for slots, users, tenants and ids that no definition tells
apart, and in no run that checks a liveness property.

**Deadlock** is checked in every run: in each there is always some next step, as
there is in a server.

**Fairness**, and why the code has it:

- `Registration`: weak fairness of `Work(r) \/ Finish(r)`: the database answers the
  statements of a request that goes on, and commits. Strong fairness of the insert
  (`CreateUser`): one that waits for a key is queued by PostgreSQL and gets its
  turn though competitors come and go. None of the gateway or of the clients.
- `Gateway`: weak fairness of `Tick` (time passes), of `Guard(r)` (the event loop
  resumes the guards; Redis commands return or fail), of `Timeout(r)` (the timer
  of the interceptor fires while the call is open). None of `Reply(r)`: a service
  owes no answer, and none of `Arrive`.
- `Departments`: weak fairness of `Tick` and of `Continue(r)`: an awaited call
  returns or fails. `EventuallyCurrent` is under the condition that writes cease.
- `CacheService`: weak fairness of `Continue(c)`: the cache and the loaders answer
  or throw, as awaited calls do.
- `HealthAggregator`: weak fairness of `Poll`, `UpdateMetrics` (cron jobs fire
  for ever) and `Check(c)` (axios has a timeout). None of `Restart` or `Change`:
  `EventuallyTold` is under the condition that they cease.

## 4. The proofs

TLC checks the small instances; TLAPS proves the following for every value of the
constants, from the assumptions named in the modules (numbers are positive,
placeholders are not real ids, `DefaultRoles` is a sequence that has the default
role, and so on) and nothing else.

**AuthTokensProofs.** The invariant is `IInv == TypeOK /\ StoreInv /\ Local /\ PeersInv`.
The properties are not inductive: whether a commit is harmless depends on what the
request checked some awaits ago. `Local` says what each request knows at each
`pc` (what it signed is of its user and of the right type, the token it wants to
exchange was stored, what a logout saw was stored and is of its user), `StoreInv`
relates the tables to the histories, and `PeersInv` says for a request that still
runs alone what nobody else can have done meanwhile: its token is still live, and
no login of its user has come between the two statements of its logout.

- `TypeCorrect`, `TokensSafe`
  (`TablesAgree`: its parts are `OneRowPerAnswer`, by itself `AnswersDistinct`,
  `RevokedHasCause`, `ExchangeKeepsKind` and `SessionGoneWithToken`), `AloneSafe` (`AloneIsWhole`: `AloneNeverForks` and
  `AloneLogoutWhole`): invariants, by `IInv`.
- `LogoutSafe` (`LogoutKillsHeld`): an action property, by `IInv` too: what was
  held and live when the logout began is in what it revokes, or already dead.
- `Refinement` (`LedgerSpec`): initial states and steps of `AuthTokens` map to
  those of `TokenLedger`.
- `SerialClientsSafe`: `Spec /\ []Serial => []RotationWhole`. `AloneIsWhole` excepts
  what overlapped; this says that nothing else is excepted. Where the requests of a
  user come one after the other (`Serial`), every token is exchanged at most once
  and no logout destroys a session and leaves its refresh token alive, whatever
  fails. Under `[]Serial` it is an invariant that `alone` stays true everywhere.

**AccountsProofs.** The invariant is `IInv == TypeOK /\ RoleInv /\ UserInv /\ Local /\ HoldInv`:
a replica at role `i` of its loop has behind it roles that exist
(rows are never deleted, so a crash cannot undo that); while no two replicas have
raced, at most one is in the loop and what it is about to create is missing;
a registration that has inserted its user holds the address alone, and its roles,
once looked up, are not empty because the replica it runs on is up.

- `TypeCorrect`, `RolesSafe` (`UpHasRoles`, `AloneRolesOnce`), `UsersSafe`
  (`UsersHaveRoles`, `OneAnswerPerUser`): of `Accounts` alone.
- `Composition`: `RegSpec => Spec`. Each step of `Registration` is one of `Accounts`
  or leaves it alone, so that clients, timeouts and lost replies make the service
  do nothing new; `ComposedSafe` (`AccountsSound`) carries the four properties over.
- `RollingSafe`: `Spec /\ []Rolling => []RolesOnce`. If no two replicas are ever in
  their boot at once, each default role is there once, crashes or not: the exception
  of `AloneRolesOnce` opens only by an overlap.
- `NearerSafe`: see below.
- `RegTypeCorrect` (`RegTypeOK`), `RegSafe` (`ToldTheTruth`). What is needed beside
  `IInv` is `LinkInv`: which stages of an attempt go with which places of its
  request, that what an attempt has made is an account, and no two the same one.
- `Refinement` (`EnrolSpec`): every step of `RegSpec` is one of `Enrolment` or none.
  The account is made in `Finish`, the commit, and in no other step; a replica that
  stops is `GiveUp` of all attempts it holds. The argument is by kind of step
  (`EnrolGateway`, `EnrolWork`, `EnrolFinish`, `EnrolReplica`), each from `EnrolAt`,
  which puts `IInv` and `LinkInv` together for one attempt.

**StaffProofs.** The invariant is `IInv == TypeOK /\ References /\ \A r \in Requests : Local(req[r])`.
`References` alone is not inductive: `Local` adds what a request still knows of the rows
after its checks (what it found is of its tenant, though it may have gone; an
employee it found is there; a count that is fresh is still right).

- `TypeCorrect`, `ReferencesHold` (`References`): invariants.
- `StatusSafe` (`StatusAsAsked`), `PlacesSafe` (`ActiveKeepTheirPlace`): action
  properties, each by a lemma about a single step under `IInv`. Together they are
  `ActiveSafe` (`ActiveAsAsked`).
- `Refinement` (`StoreSpec`): the writes of the three services are `Create`,
  `Update` and `Delete` of `RowStore`, all other steps are none. A create or an
  update refers to rows that are there because of `Connects`, not because of the
  earlier checks, which is what makes it hold under any interleaving.

**GatewayProofs.** The invariant is `IInv == TypeOK /\ CacheInv /\ \A r \in Requests : Local(req[r]) /\ Guarded(req[r])`:
an entry of the payload cache names the owner of the token it is filed under, and
a request past the guard was let through for that owner.
The lemma `NoGap` is about the middleware alone: it lets no protected route through
without a tenant.

- `TypeCorrect`, `TenantSafe` (`OwnTenantOnly`).
- `FadesSafe` (`ExpiredFades`): a step-by-step fact of `IInv`. A token past its exp
  is not verified again (`FadesGuard`), so that no fill renews its entry, and a hit
  does not either (`FadesMove`); a tick ages it (`FadesTick`).
- `NearerSafe`: see below.

**PrimaryRecordsProofs.** The invariant is `IInv == TypeOK /\ (\A r \in Requests : Local(req[r])) /\ PeersInv /\ SerialInv`.
`SerialAtMostOne` is not inductive: what is needed of a request that has cleared
the flags and not yet written is that no other row is primary (`Local`), which
holds only as long as nobody else writes, and of that requests keep count
(`PeersInv`).

- `TypeCorrect`, `SerialSafe` (`SerialAtMostOne`): invariants.
- `OnlySafe` (`AloneMakesTheOnly`), `OwnSafe` (`OwnRowsOnly`): action properties.
- `SerialWritersSafe`: `Spec /\ []Serial => []AtMostOnePrimary`. The property that
  the finding `primary_two` refutes holds where no two writers of one employee's
  records of a kind are in flight at once, failures half-way included.

**DepartmentsProofs.** The invariant is
`IInv == TypeOK /\ TenantsApart /\ CachedIsCurrent /\ (\A r \in Requests : Local(req[r])) /\ PeersInv`.
`CachedIsCurrent` needs to know of the fills under way that they carry the row as
it is, or are known to be late, and that the key of an entry is determined by its
department (`TenantsApart`): otherwise a writer could delete the wrong entry.

- `TypeCorrect`, `TenantsSafe`, `CacheSafe`: invariants.
- `OrphansSafe` (`AloneOrphansNone`): the children counted by a deletion that runs
  alone are those it finds.
- `MovesSafe` (`OnlyMovesClose`): what `updateDepartment` does prevent. `NotOwnParent`
  is inductive with what `Local` knows of an update (its target is not itself) and
  of a creation (its id is new). A set of departments closed under the new parents
  was closed under the old ones, unless an update moved one (`CyclesByMoves`).
  `HierarchySafe` (`HierarchyKept`) is both.
- `FadesSafe` (`StaleFades`): without a write of rows the views stay (`SameRows`), so
  an entry turns stale only by a fill that was stale before (`FadeFill`), and every
  other step lets entries go or grow older (`FadeStep`, `FadeTick`).
- `Refinement` (`StoreSpec`): as for `Staff`; the parents of live departments are live.

**HealthProofs.** The invariant is `IInv == TypeOK /\ Tracks /\ Heard`: the history is, element
by element, the end of what was saved (`EndsKept`: one more snapshot keeps it
so), and a server that listens has a snapshot of every service.

- `TypeCorrect`, `HistorySafe` (`KeepsTheLatest`).
- `VerdictSafe` (`VerdictHonest`: none that is down is rounded away, no critical one
  overlooked, none unknown once the server listens) assumes fewer than 200 services: the score is
  rounded, so that of 200 services one that is down leaves a score of 100 and the
  verdict "healthy". The registry has three (`services.config.ts`). The lemma
  `ScoreIs` is the arithmetic.
- `TellingSafe` (`TellingStays`): while every answer to a probe says the same of a
  service (`WellAnswers`, `IllAnswers`), the snapshots, the probes under way, the
  checks by hand and the gauge agree and stay so (`ToldKept`).
- `NeverCalledHealthy`: with a service that no probe reaches (`Beyond`), the system is
  never called healthy, and if that service is critical, never anything but
  unhealthy. This is the finding `health_wiring` for every registry of fewer than
  200 services, and the
  argument is an invariant, `Silent`: nothing known or on its way calls it healthy.

**CacheProofs.** The invariant is `IInv == TypeOK /\ (\A c \in Calls : Local(call[c])) /\ AgeInv`:
`Local` says of each call, at each of its awaits, that what it has read is of its
key, and of its row if a loader found it (`Own`), and that a value on
its way to the cache is not older than the floor of its row (`Young`). `AgeInv` says
that no floor is ahead of the source and is `InvalidatedStaysGone` itself, which
says the same of the entries. That property is not inductive without `Young`: a
store puts in the cache whatever its call carries.

- `TypeCorrect`, `AnswersSafe` (`OwnAnswers`), `FailuresSafe`
  (`FailuresCostOneLoad`), `DeletedSafe` (`InvalidatedStaysGone`): invariants. For
  `AnswersSafe` two rows with one key and as many colons in their names have the same
  resource and tenant, since equal texts have equal beginnings (`SameBeginning`,
  `KeyParts`). Nothing is assumed of the names but that they are strings (that
  joined identifiers are pieces again is part of `RowsAssumption`, because `FlattenSeq`
  is a recursion): where colons differ, an answer of another tenant is possible
  (section 6).
- `NearerSafe`: see below.

**The safety under the liveness properties.** Liveness under fairness is out of the
prover's reach. What can be proved of each such property is the part that does not
need fairness: that no step leads away from the goal, and each step that fairness
grants leads to it. Two forms of it are proved, for any number of requests:

- a rank. `EveryRegistrationNearer`, `EveryRequestNearer` and `EveryCallNearer` (the
  three theorems `NearerSafe`) say that each step that touches a request lowers the
  number of its remaining statements, steps or awaits (`StatementsLeft`,
  `StepsLeft`, `AwaitsLeft`), and that steps of others leave it alone or end it. A retry loop, or a
  fallback that starts over, would break them.
- a decay. `ExpiredFades`, `StaleFades` and `TellingStays` say that an expired token,
  a stale entry and a service that is told as it is cannot relapse: the first two get
  older with each tick whoever uses them, the third stays.

**Only model-checked.** The conclusions drawn from these under fairness:
`EveryRegistrationEnds` (whose strong fairness of the waiting insert has no rank),
`EventuallyShutOut`, `EveryRequestAnswered`, `EventuallyCurrent`, `EventuallyTold`,
`EveryCallEnds`. They speak of `WF_` and `SF_`, and so of `ENABLED`, which the
prover does not handle. The findings of section 5 are counterexamples that TLC finds;
what remains true of each is a theorem: `SerialWritersSafe` of the first, `MovesSafe`
of the second, `NeverCalledHealthy` of the third, and for every instance.

## 5. Where the code and its documents differ

Each has a run that TLC ends with a counterexample.

- `primary_two`, `AtMostOnePrimary` (`bank-account.service.ts:205`).
  `CHANGELOG.md:191` says "Primary account designation (auto-unset others)". Two
  requests that overlap clear first and set later: two are primary.
  `SerialAtMostOne` and `AloneMakesTheOnly` are what remains true; `SerialWritersSafe`
  says that it takes an overlap.
- `department_cycle`, `Acyclic` (`department.service.ts:160`). `CHANGELOG.md:178`
  says "Circular reference prevention". Only a department that is its own parent
  is refused; A under B and B under A takes two updates, and no concurrency.
  `OnlyMovesClose` says that nothing else closes a circle.
- `health_wiring`, `WellIsCalledHealthy` (`auth-service/src/main.ts:7`). The
  README of the aggregator draws it polling `/health` of all three services by HTTP
  (lines 32-36), and the documented answer is `"status": "healthy"`
  (`aggregator.controller.ts:57-60`). The auth-service and the employee-service are
  created by `createMicroservice` alone: no HTTP server, no `/health`. The gateway
  has the route, and its `TenantMiddleware` (`tenant.middleware.ts:35-47`) answers
  400 to a probe, which names no tenant. So with nothing wrong anywhere no probe
  succeeds. `EventuallyTold` is what holds of services that can be probed.

## 6. Further observations

Met while modelling, without a run of their own:

- Two refreshes of one token that overlap both succeed and each stores a new token.
  `docs/SYSTEM_ANALYSIS.md:146-147` describes refresh as "DB check (not revoked, not
  expired)" and "Prisma transaction: revoke old token → issue new pair"; the check
  is outside the transaction and `updateMany` does not repeat it
  (`auth.service.ts:217-248`). `AloneIsWhole` says that it takes an overlap.
- A department that is found in the cache cannot be returned: the Redis store keeps
  JSON, so `createdAt` comes back as text, and `employee.controller.ts:381` calls
  `toISOString` on it. The first read works and the next, within the TTL, fails.
- A client whose attempt ended with 408 or 503 may have its account, and is told
  500 when it tries again. `gateway auth.controller.ts:58-61` documents 409 for an
  address that is taken; no error of a handler arrives as anything but 500.
- A database or a Redis that is down leaves a service healthy: the indicators return
  the outcome instead of throwing it (`database-health.indicator.ts:34-39`,
  `redis-health.indicator.ts:37-42`). `GrpcHealthIndicator` only sees that the stub
  is there. All three services of the registry are critical, so the verdict
  "degraded" cannot occur.
- The comment at `cache.service.ts:57` says "Generate cache key with tenant isolation",
  line 10 "Automatic cache key generation with tenant isolation". `generateKey` joins
  names without a look at colons in them: ("employees", "acme", "x", "y") and
  ("employees", "acme:x", "y") give one key, and a hit answers one tenant with the
  row of the other. It takes tenants of which one is the other with a colon and more;
  `OwnAnswers` says so, and in the instance of `cache_service` it happens. No service
  calls `CacheService` yet.
- `pingCheck` takes a ping that was answered within the same millisecond (0) for a
  failure (`database-health.indicator.ts:29`): the fastest database is called down.
  Like every "down" that is returned, it does not change the status 200.
- `CacheService.invalidatePattern` clears the cache of all tenants whatever the
  pattern (its comment calls it a placeholder).
- `app.module.ts:50-53` says of the tier of five requests a minute "applied
  explicitly to /auth/login and /auth/register"; `ThrottlerGuard` applies every
  tier to every route. It runs after the `AuthGuard`: requests without a valid
  token are not counted.
- `TimeoutInterceptor` takes a number as a constructor parameter
  (`timeout.interceptor.ts:15`), which the container cannot provide. The modules
  take the thirty seconds of the default.
- `MetricsInterceptor` counts what reaches an interceptor: refusals of the
  middleware and of the guards are missing, and a gRPC error is counted as 500
  whatever the filter makes of it (`metrics.interceptor.ts:70`).
- gRPC field names: the loader option `keepCase` is off by default, and the
  handlers read names with underscores (`data.tenant_id`). The services are
  modelled as if they got what their handlers declare.
- `validateToken` (`auth.service.ts:274-296`) does not look at sessions, and the
  guard does not either: an access token works until its `exp` (and in the cache
  up to five minutes longer) after a logout, of which the gateway's
  `auth.controller.ts:115` says "Revoke user tokens and destroy active sessions".
- A refresh that overlaps a logout may store a token that survives the logout:
  `LogoutKillsHeld` speaks of the tokens held before it began.
- `tenant.middleware.ts:36` says "Skip tenant validation for auth routes", but
  its paths begin with `/api` and no route does: without a tenant, login, too, is
  answered 400 (`SkipsTenant`). The same holds for `/health` (section 5).
- Two replicas of the auth-service that start on an empty database at once may
  each create the system roles (`AloneRolesOnce` is guarded by `raced`).
- `countByDepartment` and `countByPosition` count active employees and those on
  probation, of the tenant that asks (`employee.repository.ts:236-261`): those on
  leave or suspended lose their department when it is deleted.
  `CHANGELOG.md:179,184` say "prevent delete if has employees".
- `updateEmployee` connects a department or position of any tenant; `References`
  excepts them. An employee may become its own manager.
- A slow poll may save an older answer after a newer check by hand;
  `EventuallyTold` is what remains true. `metrics-updater.service.ts:53` says "every 15 seconds",
  the cron says ten.
- `Math.round` rounds 99.5 up: with 200 services or more one unhealthy one would
  not show in the score, and `VerdictHonest` would fail.
- The handlers of the auth-service throw HTTP exceptions in gRPC handlers, which
  the gateway maps to 500 (`Reply` has 200 and 500 only).
- `main.ts:28,31` of the gateway pass the factories of `compression` and
  `cookieParser` as middleware. Guards run before interceptors, so the awaits of
  the guard are not under the timeout.

## 7. What is not modelled

- Reads and lists that change nothing (`listEmployees`, `getUserById`, ...), and
  methods without a caller (`deleteRole`, `changePassword`, `deactivateUser`,
  `clearSnapshots`, `RabbitMQHealthIndicator`, the RabbitMQ `emit` and `send`).
- The counters of the rate limiter and the rules of the validation: whom they refuse
  is left open. Metrics, logging, Swagger, environment: nothing modelled reads them.
- The routes `/health/ready` and `/health/live`: they ask a part of the same checks,
  for Kubernetes, and keep nothing.
- The wire: names and enums are converted between `proto/` and the handlers; the
  services are modelled as their code is written.
- Password hashing and signatures: a token that verifies was signed, a hash of a
  token is as good as the token.
- Names, e-mail addresses of employees, codes: that one is taken is one of the
  reasons of `Fail`.
- PostgreSQL, Redis and axios are external: their guarantees (unique keys, Read
  Committed, foreign keys set to null, expiry, timeouts) are part of the actions
  that use them.

## 8. What is left

The most important behaviour came first: `TokenLedger`, `AuthTokens`, `Accounts`,
`Gateway`, `PrimaryRecords`, `Departments`, `HealthAggregator` and `Staff`, each
with the proofs of its safety; then what connects them and was a hazard without a
property: `Registration`, a composition of clients, gateway and `Accounts` with
timeouts, lost replies and retries; `HealthEndpoint` and `ServiceRegistry`, what a
probe sees; and `CacheService`; then the abstract modules that the tables and the
registration implement, and the safety under each liveness property. What would
come next:

1. The composition of `Gateway` and `AuthTokens`: how long an access token outlives
   a logout at the guard. Its parts say it already, one by one: nothing that a
   logout does is seen by the guard, and `EventuallyShutOut` bounds the rest.
2. Creations of employees with a client that retries, like `Registration`; there a
   number or an e-mail address that is taken tells the client of its first attempt.
3. When `CacheService` has callers: their keys and loaders in the place of any.
