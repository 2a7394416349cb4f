# Verification of base-backend-nestjs

The repository is a NestJS backend: accounts with password and OpenID login,
refresh-token sessions, account administration, an audit log, and the
libraries these are built on (a generic CRUD layer, a command gateway, guards,
caching, health checks). It runs as one Node.js process over a PostgreSQL
database. This directory holds TLA+ models of its core, the TLC configurations
that check them, and proofs that TLAPS checks.

All the concurrency of the program is that of one event loop: a request runs
without interruption from one `await` to the next, and at an `await` any other
request may run. No operation opens a transaction. So in every model an action
is one database (or broker) call of a request, together with the code up to the
next one, and an `await` that rejects ends the request and leaves what it wrote.

## Inventory

| component | state | operations | what is hard about it | what makes it correct |
|---|---|---|---|---|
| account-authenticate (`src/src/account/packages/account-authenticate`) | table `refresh_tokens` | login, refresh, logout | each is several awaits, none in a transaction; tokens presented twice; a logout or login between the read and the write of a refresh; a response that is lost | a session lives until a logout or a later login ends it, and no longer; a row says what its login said; a spent token stays spent |
| account-user (`account-user`, and `BaseCRUDService` under it) | table `users` | create, update (own and by an administrator), changePassword, delete; findById, getMetrics | read, assign, save: `save()` compares the entity with a second read | a write touches the columns it was asked to; what is deleted stays deleted; every write is in the audit log |
| profile cache (`CacheInterceptor` on `GET api/account/me`) | the in-memory cache | GET | keyed by the URL alone, invalidated by no write, stored after the answer of the database | the answer is the caller's profile, and no older than a lifetime without writes, but for answers stored late |
| audit-log (`src/src/audit`) | table `audit_logs` | create (sanitise, redact, diff), populate, distinct values | recursion over nested values, a depth limit, `typeof null`, arrays as objects | the stored values and their diff hold nothing sensitive (metadata is stored as it comes); the diff is what the two values differ in |
| account-openid (`account-openid`) | providers table; the PKCE `stateStore` in memory | init, callback, validate | restarts, callbacks loaded twice, disabled providers | a callback is matched to its init; a login is for the person the provider issued the token for |
| gateway (`libs/core/src/gateway`) | `operationsMap`, `clientsMap` | registerClient, registerOperation, runOperation, runCommand | order of start-up; the broker's reply may not come; errors of a promise that is returned and not awaited | a registered operation runs, an error reaches its caller as the documented exception |
| request pipeline (guards, CLS, interceptors in `libs/common`) | the CLS of a request | JwtAuthGuard, TokenRoleGuard, VisitorIdGuard, ClsUserSessionInterceptor | what runs before what; what `main.ts` installs and what `setupBootstrap` would | a service sees the visitor and the user of its own request |
| list queries (`mongo-style-filter`, `query-builder-filter`, `findAll`, `ResponseBuilder`) | none | parse, apply, paginate | nested operators merged into one object; defaults applied in one layer only; the client names the sort columns, and nothing breaks ties | the filter selects the rows it describes; the page counts fit the rows |
| health, axios, cache module, configuration, migrations, pipes, exception filter, DTOs | none of their own | – | – | – |

Interaction: the controllers of account-authenticate and account-user sit
behind the guards; JwtAuthGuard asks `verify-access-token` through the gateway's
message client. login() calls a strategy, which reads the account through
`runCommand`, and sends an audit command. account-user sends audit commands for
every write; the audit log reads users back to fill in actors. The accounts are
shared state between account-user and account-authenticate: no write to an
account touches its refresh tokens.

## Modules

| module | models | kind |
|---|---|---|
| `SessionLifecycle` | what a session is for its user: open until ended, and, if a refresh was under way when it ended, possibly open again | abstract specification |
| `RefreshSessions` | `AccountAuthenticateService` with the table `refresh_tokens`, the roles of accounts and what clients know | component |
| `RefreshSessionsProofs` | theorems about `RefreshSessions` | proofs |
| `AccountRecords` | what the table of accounts goes through: accounts created once, changed in the columns of one form at a time (a profile, a password), deleted for good, but for one that was written while somebody had it read | abstract specification |
| `UserStore` | `AccountUserService` over `BaseCRUDService` and TypeORM's `save` | component |
| `UserStoreProofs` | theorems about `UserStore` | proofs |
| `MeCache` | `GET api/account/me` behind `CacheInterceptor` | component |
| `MeCacheProofs` | theorems about `MeCache` | proofs |
| `AuditDiff` | `AuditLogService.create`: sanitizePayload, redactSensitiveFields, computeJsonDiff | component with a pure algorithm |
| `AuditDiffProofs` | theorems about `AuditDiff` | proofs |
| `OpenIdLogin` | init and callback of `OpenIdAuthenticateService`, and `OpenIdAuthStrategy.validate` | component |
| `OpenIdLoginProofs` | theorems about `OpenIdLogin` | proofs |
| `MongoFilter` | `parseMongoStyleFilter`, `applyFiltersToQueryBuilder` and the reference `Means` | pure algorithm |
| `ListQuery` | `BaseCRUDService.findAll` and the paginated response with its actors, with a client that walks the pages; `getMetrics`; what a filter selects is a parameter | component |
| `ListQueryProofs` | theorems about `ListQuery` | proofs |
| `FilteredList` | `ListQuery` with the filters of `MongoFilter` | composition |
| `FilteredListProofs` | theorems about `FilteredList` | proofs |
| `GuardedRequests` | a request through VisitorIdGuard, JwtAuthGuard, TokenRoleGuard, ClsUserSessionInterceptor and the gateway; uses `SessionLifecycle` for the sessions that tokens are signed for | composition |
| `GuardedRequestsProofs` | theorems about `GuardedRequests` | proofs |
| `MC…` | the constants and the symmetry of the runs | model checking |

### RefreshSessions

`tokens` is the table by primary key, which is the refresh token itself. Each
slot of `Slots` is a request in flight: `pc` is the await it is at, `req` its
body and its visitor id, `ent` the entity in memory, `new` the id it has saved.

| action | code |
|---|---|
| LoginArrive, LoginValidate, LoginReject | the controller, then `strategy.validate` and `mapper.map` |
| LoginCleanup | `delete({userId, visitorId})`, skipped without a visitor id |
| LoginSave | generateTokens and `save({...})` |
| LoginAudit | the audit command; its failure is swallowed |
| RefreshFind, RefreshReject | `findOne`, and the check of `expiresAt` |
| RefreshSave | the new id and expiry, `save(record)`: an insert, no row has that id |
| RefreshPurge | `delete({userId, id: refresh token presented})` |
| LogoutArrive, LogoutDelete | JwtAuthGuard, then `delete({userId, visitorId})` |
| Reply | the response reaches the client |
| Fail | an await rejects, or the server stops, anywhere |
| Expire, SetRole, RemoveAccount | time passes; an account is written by account-user |

A *family* is the set of rows that descend from one login. History variables
record it, and which families a logout or a later login deleted, which of those
had a refresh holding one of their rows (`escaped`), and which pairs of user and
visitor had overlapping or failed requests (`raced`). No guard reads them.

`ReqVisitors` is the wiring. With `setupBootstrap` (libs/common) every request
carries a visitor id; `main.ts` does not call it, so the CLS holds none and
`ReqVisitors = {NoVisitor}`. A logout needs a bearer token that the account
microservice verifies; under `main.ts` that listener is another process. What
the guards do with it is in `GuardedRequests`.

### UserStore

`users` is the table; a request has read `ent` (findOne of `update`), holds the
`data` to assign, and `stored`, the row `save()` loaded to compare with.
`Dirty` is TypeORM's rule, taken from how the code uses it: a column is written
if the entity has a value for it and the value differs from the loaded row; an
entity whose row is gone is inserted. `AdminData` follows from the compiler
options: with target ES2023 class fields are own properties, so the body of an
administrator's update, made into a `UserEntity`, has `undefined` in every
column it does not set, its `id` included. `AuditUp` says whether the audit log
is up: `logAudit` swallows its failures, and `before`, which nothing else reads,
is kept only if it is up. `Fail` is an await that rejects at any point, after
the database has done what it was asked or before.

An update writes all the columns that its body names in one UPDATE.
`AdminBodies` are the bodies of administrators: fullName, role and status, each
set or not (`UpdateUserDto`). `PUT me` is a JSON object that no pipe holds to its
DTO, so what it may name is a parameter, `MeColumns`: the theorems hold for any
set of columns, the runs take those of `UpdateMeDto`, e-mail and full name, in
any combination. A body that names `id` is left out.

`UserStore` implements `AccountRecords` (`ImplementsAccounts`): the rows are the
table, and the accounts *exposed* to an overwrite are those of requests in the
window between findOne and the UPDATE whose account was written after the
findOne and before the read of `save()`. Outside that window a write changes the
columns of one form (`Forms`: those of a profile update, or the password) of a
row that is there, and a deleted account stays deleted; within it the table may
get back whatever was read.

### MeCache

One entry, since the key is the URL. The interceptor stores the response when
the handler's promise resolves, after the database has read the row. A profile
is the version of its row. The default registration of the cache (`CoreModule`)
gives it its lifetime, `Ttl` ticks.

### AuditDiff

A JSON value is a record: its kind, its atom if it is a scalar, its fields if it
is an object or an array. `Documents` are the values there are, with all values
in them; `DocumentsAssumption` says that each has finitely many levels, as JSON
text has. `redact` and `deepDiff` are one call of the code's recursions, given
the calls below; `redactSensitiveFields` and `computeJsonDiff` tie them together
over documents and over paths: `deepDiff` of a path compares what the two values
have there, so its depth is the length of the path. `FirstDifference` is the
reference: the paths at which two values first differ. `Patched` says what a
value becomes by a diff. A payload above 10KB is its digest: length and
checksum. A falsy value (`Falsy`: null, 0, false, the empty string) is
returned as it is, and a pair with one gets no diff. Keys that every JavaScript
object inherits, keys that contain a dot and the empty key are left out.

`metadata` goes into the row as it came: `create()` sanitises the old and the new
value and not the metadata. `SensitiveOnlyInMetadata` says which columns may hold
what a sensitive field held: that one alone. So what it holds is up to the
callers, which at present pass a reason (`account-user.service.ts:61`) and the
method of a login (`account-authenticate.service.ts:86`).

### OpenIdLogin

`stateStore` is the map of the service, in the memory of the process, so that
`Restart` empties it; it never shrinks otherwise. A request in a slot is an
init, a callback or a login; `conf` is the row of the provider it read. The
provider (openid-client and the identity provider) is external: it answers a
person's choice (`Decide`), exchanges a code once, for the registration and the
secret of its authorization URL (`Exchangeable`), and answers userinfo for its
own tokens. What it may refuse for reasons of its own is `Fail`.
`disturbed` records what befell an attempt from outside: a denial, a restart, a
failure, a second callback, a write of its provider's row. The path of a
callback may name either provider; one at the wrong provider is refused, and that
is no attempt of its own (`OwnProvider`).

The body of a login has any token that somebody holds (`Held`) and any provider:
a token that the callback handed out, or one that the provider issued to another
application (`attempt = None`). The strategy asks the provider for userinfo and
checks neither client nor audience (`openid.strategy.ts:50`), so a token of
another application signs its person in. What remains true, and is
`SignInAuthorised`, is that the person is the one the token was issued for, by
the provider that the body names, and that a token of this program stands for the
person who granted the attempt. If the claims have no e-mail, `findOne` has no
condition left and any account matches; the property says so. Accounts are read
once in a login, so they are drawn at that step; what `login()` does with the one
found is in `RefreshSessions`.

| action | code |
|---|---|
| InitArrive, InitFind, InitRedirect | the controller, `findByName`, then `stateStore.set` and the redirect after discovery |
| CallbackArrive, CallbackFind | the browser comes back; `findByName`, `stateStore.get` |
| CallbackExchange, CallbackReply | `client.callback`; the redirect with the provider's token |
| LoginArrive, LoginFind, LoginUserinfo, LoginAccount, LoginReply | `validate`: `findByName`, `client.userinfo`, the find-user command |
| Administer, Decide, Restart, Fail | the provider's row, the person, the process, the network |

The route's documentation says that the callback "creates/loads user and
redirects to frontend with internal token". The code does neither: it hands on
the provider's token, and `findOrCreateUser` is called by nobody. A login for a
person without an account is refused.

### GuardedRequests

A slot is a request; `req` is what it carries, `ctx` its CLS after the
interceptor, `answer` what it is refused with. The guards that await nothing run
in the step in which the request arrives, in the order Nest gives them: the
global guard, the guards of the controller, the interceptors, the handler. A
role, a token and a visitor id are what the guards look at.

| action | code |
|---|---|
| VisitorReject | `VisitorIdGuard`, if `setupBootstrap` has installed it and the route is not exempt |
| TokenMissing, Unreachable, runOperation | `JwtAuthGuard` up to its await: no bearer token; no client, or nothing that listens; the message is on its way |
| handleGatewayRunOperation | `GatewayController`, `runCommand`, `VerifyAccessTokenHandler`, `verifyAsync` |
| JwtReply (Verified, Denied, Invalid) | the rest of `JwtAuthGuard`, `TokenRoleGuard`, the interceptor |
| Unguarded | a route without guards |
| Handler | the handler; a login needs `runCommand` to work, a write only tries to send its audit row |
| ServiceUp, ServiceDown | the microservice listens or its connection closes; the client then fails what it waits for |
| SessionStep, generateTokens, Tick | sessions begin, end and are refreshed (`SessionLifecycle`), tokens are signed and expire |

`wire` is a set, so replies overtake each other. `bootstrap` is the wiring:
`main.ts` does not call `setupBootstrap`, so there is no visitor guard and
nothing fills the CLS. In `ctx`, `user` is the session that JwtAuthGuard leaves
on the request, which handlers read with `@UserSession()` under both wirings;
`userSession` and `visitorId` are the CLS. `registry` holds what start-up has
registered: the clients of the gateway, the operations in the process of the
handlers, and those in the process that listens as the account service. It
changes at start-up only; a deployment is a wiring with a registry, and a
behaviour starts in one of `Deployments`. `runCommand` of an operation that is
not registered fails: for the guard that is an invalid token (`Verification`),
for a login a bad gateway (`Outcome`). Requests differ where a guard looks: a
header is missing only from one route whose guard misses it (`Arrive`). A token
is signed for a session that is open or about to be; for one that was ended only
if a refresh held its row.

### MongoFilter, ListQuery and FilteredList

A filter is the sequence of the entries of its JSON object.
`parseMongoStyleFilter` returns the conditions under their keys, with the `$or`
apart: `Entry` is what one entry of the object adds and `Merged` the
`Object.assign` of them in order, which keeps the later of two conditions with
one key. `Applies` is what TypeORM's `andWhere` of an array accepts; what fails
in one format is tried in the other (`LegacyApplies`). `Means` reads the object
as it is written: the rows a filter describes. In `ListQuery`, `Accepts`,
`Selects` and `SortKey` (where a sort puts a row) are parameters, so that what
is proved of lists holds whatever filters do and whichever columns a client
sorts by; `FilteredList` gives the first two the values of `MongoFilter`.
`Select` and `Count` are the two queries of `getManyAndCount`, which leaves out
the second where the page tells the total. `Populate` is the lookup of a page's
actors: a command whose failure leaves the list without actors. `MetricsTotal`
and `MetricsByStatus` are the two queries of `getMetrics`.

`findAll` orders by the columns that the client names and adds none that would
break ties, so rows of the same role, status or time come in whichever order, and
in another one for each page: `Orders` has them all. A walk may then be given one
of them twice and another never, without any write; TLC shows this at once if
`tied` is taken out of `WalkComplete`. What the property says is what is left: a
row of a key of its own is given once, and the walk has as many rows as there
are, their keys in order. Rows that share a key with another that matches, at any
time of the walk, are `tied`. A sort by a column that there is not is an error of
the database and left out.

What the filters do that their notation does not say: an `$and` with two
conditions on one field with one operator applies the last only, two `$or`
likewise (`Distinct` excludes both); an `$or` with an operator in it is refused;
an object that mixes the formats may select nothing; a null is `IS NULL` in a
branch of an `$or` and `= null`, which selects nothing, elsewhere
(`NoNullBranch` excludes the former). `FilterHidesNothing` and `FilterExact`
state what is left. `Operations` are six of the fifteen operators: the others
take the same path, and would each be one more comparison in `Holds`. Without a
limit parameter the service pages by 10, but the response says that there is one
page (`NaN || 1`), so `WalkComplete` is about walks with a limit. A `$or` of no
alternatives is left out. Query parameters are parsed by the `ValidationPipe` of
`setupBootstrap`; the model starts from parsed ones.

## Runs

Sizes are those of the .cfg files. "violation" runs check one statement of the
repository's own documentation that the code does not keep.

| run | bounds | shows |
|---|---|---|
| sessions_visitors | 1 user, 2 visitors, 2 requests at a time | the session promises and the refinement of `SessionLifecycle`, under every overlap of two requests and every failure |
| sessions_mainwiring | 1 user, 2 roles, no visitor id, 2 requests at a time, no failures, weak fairness | the promises as `main.ts` wires the program, while the account changes its role: a session keeps the role of its login; every request is answered; a renewed token leaves the table |
| sessions_logout | a refresh and a logout | violation: "Invalidate refresh token and logout user" |
| guarded_requests | 2 sessions of different roles, 1 visitor, 2 requests at a time, 2 tokens, lifetime and clock 1, 3 deployments: `setupBootstrap` with everything registered, `main.ts` without the operation of a login or without that of the guard | each request is served as the session (under both wirings) and visitor it came with, at most a lifetime after its session ended, or refused for a reason, and answered whatever the service does |
| users_races | 2 accounts, 2 e-mails, 2 names, 2 passwords, 2 requests, which may fail at any await; an administrator's body names the full name, or role and status | damage by overlaps is confined to the window between the two reads of `update`: the refinement of `AccountRecords` |
| users_password, users_audit | 1 account | violations: a changed password is written back; audit rows have no values |
| me_cache | 2 users, 2 GETs, 3 writes, Ttl 3 | after a lifetime without writes, and without a late store of what they had outdated, the entry is the row as it is, and answers go backwards only if an outdated entry was stored |
| me_cache_own | the same | violation: "Get current user profile" |
| audit_diff | values nested to depth 3, MaxDepth 2 | redaction and diff against the reference, for all pairs; what is sensitive stays in metadata at most |
| openid_attempts | 2 people, 2 providers, 2 registrations, 2 attempts, 2 requests at a time, 1 of them a login at most (`MaxLogins`); tokens of other applications | a callback is refused only for a reason of its own attempt; a login is for the person the token was issued for |
| list_query | 3 rows, limits 1, 2 and none, 5 pages; a sort by a column of unique values, and one in which two rows tie; filters of two conditions in every combination, a null among them | which rows a walk may miss or repeat; a filter hides nothing, and is exact where its conditions have keys of their own; what the several queries of a response return agrees unless a row was written between them |

Why the bounds are enough. The races of these operations are between two
requests: every property that fails does so with two, in runs that have two.
`Ids` (the values `uuidv4` may return) bounds the number of inserts of a
behaviour; a request only arrives while one is left for every request in flight
(`Bounded`), so no request is stuck for want of an id. An idle server with no
ids left has no step, hence `CHECK_DEADLOCK FALSE` there and in the runs of
`UserStore`, where all accounts may be gone, and of `AuditDiff`, which is a
single call. Three refresh tokens suffice for a token, its successor and a
competing login, or for two refreshes in a row. Two tokens of two sessions let
the reply for one reach the request of the other, and one tick is a lifetime: a
token is valid, or has just expired. The three deployments of guarded_requests
have each wiring, and each operation there and missing; the theorems hold for
every deployment. The two depths of `audit_diff` are one above and one below the
limit. Two attempts let one person's state, code or token meet another's; two
registrations let a provider's row change between init and callback and change
back. Logins share nothing with each other but rows they only read, hence one at
a time. Three rows make a middle page and a page that is not full, for a limit
of 1 or 2, and two of them a tie that a page of one row splits. Symmetry is used
in runs without liveness only.

Fairness (`FairSpec`). In sessions_mainwiring: weak fairness of each request's
next step. The event loop runs every continuation that is ready, and the
database driver settles every query; `MayFail = FALSE` takes rejections out,
since a rejected delete after the insert does leave the old token in the table
(that is what `SessionContinuity`, checked in sessions_visitors and proved for
every wiring, allows for). In guarded_requests: weak fairness of each request's
next step and of the service's handling of each message, the event loops of the
two sides. Nothing makes the service start, or stay: `RequestsAnswered` holds
since a message to nobody fails at once and a connection that closes fails the
messages that wait on it. A network that swallows messages and keeps the
connection is left out; TCP reports it after a time the program does not set.

## Findings

Each is the counterexample of a run above.

1. refresh() may save the successor of a token after logout() deleted it.
2. A profile update that read the account before a password change writes the
   old password back. In the same window (what `AccountRecords` calls exposed) an
   update brings a deleted account back.
3. logAudit and the audit handler disagree on names; audit rows of accounts have
   neither values nor a diff.
4. The cached profile of one user answers another.

Seen while modelling, and in the models, with no run of their own: login() is
two awaits, so overlapping logins of one user and visitor leave two rows
although its comment says that the cleanup prevents accumulation
(`SerialSession` excludes exactly that overlap); an administrator's update
erases the id of the entity it saves (`AdminData`), and ends in an INSERT that
the database refuses; and what the sections on `OpenIdLogin` and `ListQuery` say.

## Proofs

### RefreshSessions

`RefreshSessionsProofs` holds for every number of users, visitors, requests and
ids, and for both wirings; the only assumptions are those of
`ConstantsAssumption`: visitors of requests are visitors or none, roles are the
enum's, and `None` is none of the values it stands beside.

`TypeOK`, `Provenance`, `SessionContinuity` and `EndedStaysEnded` are not
inductive. `IInv` adds:

- `RequestShape`: what a request holds at each await. Without it the entity that
  LoginSave stores has no type.
- `IdsDrawn`: every id in the table, known to a client or held by a request was
  drawn, and a request's new id is its own and unknown to clients. Without it a
  purge could delete the successor that another request has just saved.
- `EntityProvenance`: the entity in memory agrees with the login it descends
  from; needed for `Provenance` of the row it becomes.
- `SuccessorStored`: while a refresh is about to purge, its successor is in the
  table, or the family was ended and neither is; this is why the purge keeps
  `SessionContinuity`.
- `HoldersEscaped`: a refresh that still holds an entity of an ended family is
  counted in `escaped`; this is why its save keeps `EndedStaysEnded`.

There is one lemma per action (`LoginSaveStep`, ...), each with one step per
conjunct; `InitIInv` and `NextIInv` combine them, `Invariance` concludes with PTL.

| theorem | statement |
|---|---|
| Invariance | `Spec => []IInv` |
| TypeCorrect | `Spec => []TypeOK` |
| RowsKeepTheirOrigin | `Spec => []Provenance` |
| RefreshKeepsTheSession | `Spec => []SessionContinuity` |
| OnlyHeldSessionsReturn | `Spec => []EndedStaysEnded` |
| NoTokenReturns | `Spec => SpentForGood` |
| ServiceImplementsLifecycle | `Spec => ImplementsLifecycle` |
| SerialSessions | `Spec => []SerialSession` |

`SerialSession` says what the rows of a pair of user and visitor are when none
of its requests is under way. `SerialInv` says it of the awaits in between: as
long as the pair is not in `raced`, one login or refresh at most works on it
(`Alone`), and `Progress` lists the rows it has left the pair at that await:
none after the clean-up, the token presented while its successor is not saved,
both before the purge. A request of another pair, or a logout, never adds a row
(`OthersAddNothing`), which takes `EntityProvenance`.

### UserStore

`UserStoreProofs` holds for every number of accounts, requests and values of each
column, for every set of columns that a profile update may name, and with the
audit log up or down; the only assumptions are those of `DistinctValues`:
`Undefined` and `None` are none of the values they stand beside, `MeColumns` are
columns and administrators' bodies what their DTO has. Its `IInv` adds to `TypeOK`:

- `RequestShape`: what a request is at each await, and that no deletion saves an
  entity.
- `EntityShape`: an entity that is about to be saved has no id (an
  administrator's) or is whole. Without it the row that an INSERT writes could
  lack a column.
- `EntityFresh`: a request whose account nobody has written since its findOne
  holds the row that is there, but for columns that its body names; after the
  read of `save()` it is the row compared with that it differs from. This is
  what makes an UPDATE a `Change` of the columns of one form and not an
  `Overwrite`.
- `NoIdNoRow`: `save()` compares an entity without an id with nothing, so it
  never updates.
- `StaleAfterRead`: only a request that has read an account is stale.

`SerialInv`, for `SerialRows`, adds `Alone` (two requests in flight on one
account make it overlapped) and `ReadInForce`: a request that is alone holds
the row that is there, with its own values in it.

| theorem | statement |
|---|---|
| Invariance | `Spec => []IInv` |
| TypeCorrect | `Spec => []TypeOK` |
| StoreImplementsRecords | `Spec => ImplementsAccounts` |
| OwnColumns | `Spec => OnlyOwnColumns` |
| RowsSerial | `Spec => []SerialRows` |

### MeCache

`MeCacheProofs` holds for every number of users and requests and every positive
`Ttl`, with `None` no profile and no version. `IInv` adds to `TypeOK` and
`BackwardsOnlyIfLate`:

- `OutdatedSince`: while the entry is not the row as it is, the time without
  writes is not longer than the age of the entry. Since an entry that reaches
  the age `Ttl` is gone, a lifetime without writes outlives it.
- `NothingNewer`: no request, entry or client has a version of a row that was
  not written yet. Without it an old entry could be ahead of the row.

| theorem | statement |
|---|---|
| Invariance | `Spec => []IInv` |
| TypeCorrect | `Spec => []TypeOK` |
| EntryFreshWhenQuiet | `Spec => []FreshWhenQuiet` |
| AnswersForward | `Spec => []BackwardsOnlyIfLate` |

### GuardedRequests

`GuardedRequestsProofs` holds for every number of sessions, visitors, requests
and tokens, any lifetime, any registration of clients and operations, and both
wirings, under `ConstantsAssumption`: each session has a token role, the
lifetime is positive, `None` is none of the values it stands beside. `IInv` adds
to `TypeOK`:

- `Signed`: no token is of the future, nor signed for a session after it was
  over for good.
- `Messages`: a request has one message on the wire, which carries its own token
  or, on its way back, what that token said when it was verified (`Carries`).
  This is what keeps a reply that overtakes another from serving the wrong
  session.
- `Underway`, `Served`, `Refused`: what each request is at the awaits of the
  guard and of the handler, and when it has been refused.

`OneRequest` is the frame lemma: a step of one request, with its message, keeps
this for the others.

| theorem | statement |
|---|---|
| Invariance | `Spec => []IInv` |
| TypeCorrect | `Spec => []TypeOK` |
| RequestsServedAsThemselves | `Spec => []ServedAsSelf` |
| ServedForALifetime | `Spec => []ServedALifetimeAtMost` |
| RequestsRefusedRightly | `Spec => []RefusedRightly` |

### OpenIdLogin

`OpenIdLoginProofs` holds for every number of people, providers, registrations,
attempts and requests; the only assumption is that `None` is no registration.
`IInv` is made of:

- `Types` and `LocalTypes`, which also say where ids come from: a state in the
  store belongs to an attempt that was begun, a code used to one decided on.
- `Granted`: a code that was exchanged is of an attempt its person granted. With
  it a token of this program that somebody holds is of the person who granted its
  attempt (`HeldGenuine`); of any other token only its provider and person are
  known.
- `Undisturbed`: an attempt that nothing disturbed has its state in the store
  and its provider as it was when it began.
- `At`: what a request holds at each await; a callback whose attempt is
  undisturbed has the registration that its authorization URL was made with.
- `Single`: two callbacks of one attempt disturb it. Without it the second
  could find the code used without a reason.

| theorem | statement |
|---|---|
| Invariance | `Spec => []IInv` |
| TypeCorrect | `Spec => []TypeOK` |
| LoginsAuthorised | `Spec => []SignInAuthorised` |
| CallbacksRefusedForAReason | `Spec => RefusedForAReason` |

### ListQuery

`ListQueryProofs` holds for tables, walks and pages of any size, every sort,
with ties or without, and whatever a filter accepts and selects. Of the constants
it assumes `ConstantsAssumption`: limits are positive, `None` is no number,
requests are of their type, and a sort puts each row somewhere.

The walk has reached a number of rows (`Reached`), and a row has a rank
(`Rank`), the number of matching rows with a greater key. A row of a key of its
own comes right after those (`UntiedRank`); one that shares its key is at any
place that `Fits`, up to the last one of the key. `IInv` adds to `TypeOK` and
`PartsAgree`:

- `Stages`: what a request has at each of its queries, and that the rows that
  stayed still match; rows that share a key are `tied`.
- `Ahead`: unless a row was deleted, one that stayed and was never tied was given
  or has a rank that is not reached. A deletion lowers ranks, which is how rows
  are missed.
- `Behind`: unless a row was inserted, what was given and never tied has a rank
  below what is reached and was given once. An insert raises ranks, which is how
  rows repeat.
- `Exact`: without either, what was given is as many rows as there are up to what
  is reached, each still there and at a place that fits it. Two rows that fit one
  place have the same key (`OnePlace`), so the keys are those of any order.
- `Finished`: a walk that ends with rows left to give has used up its pages.
- `PartsInv`: what one query of a response counted is what there is, unless a
  row was written since.

`PageRows` and `PageExtends` say what `SubSeq` takes of a sorted order in terms
of ranks and places; `RanksGrow` and `RanksFall` what a write does to them.

| theorem | statement |
|---|---|
| Invariance | `Spec => []IInv` |
| TypeCorrect | `Spec => []TypeOK` |
| WalksComplete | `Spec => []WalkComplete` |
| ResponsesAgree | `Spec => []PartsAgree` |

### FilteredList

`FilteredListProofs` holds for any filters, nested to any depth, with any tests.
Assumed are that of a JSON object (`FiltersAssumption`: finitely many levels,
the operators of one field differ, a `$or` has alternatives) and that the
parameters of `ListQuery` are what `MongoFilter` computes (`FiltersAreMongo`,
which the configuration of list_query establishes by their definition).

The recursive functions are defined level by level: `Induction` is induction
over a set of numbers, by counting, and `LevelByLevel` carries what holds of a
filter if it holds of all with fewer levels to all filters. Then:

- `MergedFrom`: each condition of a merged object is one of its parts'. So
  `Hides`: a row that has all tests of a filter has those that are left.
- `KeysKept`: the conditions of an object are under `Keys`. So `MergedWhole`:
  where these differ nothing is overwritten, and `SelectsOnly`: a row that is
  selected has all tests, unless a null in an `$or` selected it.
- `LegacyExact`: the older format, where it is reached at all, selects the rows
  a filter means. A filter that came to it by an operator there is not selects
  none, and describes none.

| theorem | statement |
|---|---|
| NothingHidden | `Spec => []FilterHidesNothing` |
| FiltersExact | `Spec => []FilterExact` |

### AuditDiff

`AuditDiffProofs` holds for any documents, keys and `MaxDepth`, under
`DocumentsAssumption` and `KeysAssumption` (no index of an array and not
`_truncated` is a sensitive key; the comparison has a depth). `IInv` says that a
row that was saved has sanitised values (`Stored`) and the diff of these.

- `AlongDef`, `RedactDef`, `PartsWithin`, `ComputeDef`: that the recursive
  functions are what their equations say, by `Induction` over levels or depths.
- `StoredValue`: redaction keeps `Shape`: fields are stored values again, the
  sensitive ones redacted. `StoredClean` follows for every part.
- `Sound`: every change that a call records is exact: of a path at which the
  values first differ, with what they have there; from the deepest calls up.
- `Complete`: at a path at which they first differ deepDiff is called, or was
  called one key above, and records it; along the path.
- `PatchedIsNew`: where nothing is below maxDepth the changes cover every path
  that differs, and no two of them cover the same.

| theorem | statement |
|---|---|
| TypeCorrect | `Spec => []TypeOK` |
| DiffsExact | `Spec => []DiffExact` |
| DiffsReplay | `Spec => []DiffReplays` |
| ValuesRedacted | `Spec => []SensitiveOnlyInMetadata` |

### Only model-checked

The liveness of sessions_mainwiring and guarded_requests, since fairness is
beyond the prover. Every other property of a run that passes is a theorem.

## Not modelled

Signatures (a token that a client made up is one that nobody can verify),
password hashing, request validation (bodies are well formed; a refresh without
a token in its body, which under `main.ts` nothing refuses and which `findOne`
answers with any row, is one that is not), user agents and
IP addresses, logging and formatting; user names (an account is found by its id
or its e-mail); the HTTP client, migrations and the docker files. Health is an
aggregation of third-party probes for one response, with no state and nobody who
reads it. Of configuration only what start-up makes of it is modelled: the
wiring, the registries, the service. Whether Nest resolves the services that
four controllers import as types is not examined. The audit row of a login is in
`RefreshSessions` (`audited`), those of account writes in `UserStore`. Of list
queries: dates, malformed operands, a limit or page of 0, a sort by a column
there is not. Of the audit log: the
distinct actions and resource types that the front end offers as filters. The
commands create-user and get-user-info are sent by nothing in the repository.

## Plan

Done: `SessionLifecycle`, `RefreshSessions`, `AccountRecords`,
`UserStore`, `MeCache`, `AuditDiff`, `OpenIdLogin`, `MongoFilter`,
`ListQuery`, `FilteredList`, `GuardedRequests`, and the proofs of all their
safety properties and refinements.

Open: a bound on how many expired rows a user and visitor accumulate, which
would take a clock in `RefreshSessions` in place of `Expire`; theorems about
what a list selects where two conditions do share a key.
