# Verification of sb0rka

TLA+ modules of the sb0rka services, the TLC configurations that check them on
small instances, and TLAPS proofs that hold for every instance. Paths below are
relative to the repository. The modules are translated from the Go code and from
the SQL it runs; where a doc and the code disagree the modules follow the code,
and the disagreement is a finding (section 7).

Contents: 1 the system, 2 hard behaviours, 3 the modules, 4 the runs, 5 fairness,
6 the proofs, 7 findings, 8 what is not modelled, 9 plan, 10 how to run.

## 1. The system

sb0rka is a platform for managed PostgreSQL databases and their secrets. Two Go
services, `apps/auth` and `apps/api`, serve HTTP and keep all their state in
PostgreSQL (`db/migrations/auth`, `db/migrations/platform`). Handlers hold no state
between requests: everything that can go wrong between two requests goes wrong
between their SQL statements. The drones (`apps/drones`) are periodic jobs on the
platform database. An orchestrator, which is not in the repository, brings the
databases to the state that the API desires and reports the state they are in.
`apps/s0c` (command line), `apps/console` (browser) and `apps/proxy-ql-executor`
(query runner) are clients of the two services.

| Component | State | Operations | Correct when |
|---|---|---|---|
| Auth: refresh sessions (`apps/auth/internal/store/db/auth.go`, `user.go`; `transport/auth`, `transport/users`) | `auth_sessions` (family, `replaced_by`, `revoked_at`, `revoke_reason`, client), `users.is_active`, `subjects` | login, refresh (rotation, reuse detection, expiry), logout, revoke-one, revoke-all, deactivation | a family has one usable token; a token that was used, revoked or expired is never usable again; reuse closes the family; a deactivated user gets no session; `auth_time` is that of the login |
| Auth: OpenID Connect provider (`transport/oidc`, `store/db/oidc.go`) | `oidc_auth_requests` (pending, authorized with a code, consumed), sessions bound to the client | `/oauth2/authorize`, `/oauth2/login/continue`, `/oauth2/token` (code, refresh), `/oauth2/revoke` | the client gets one answer per request; a code yields one session at most, for an active verified user; a failed exchange leaves the code |
| Auth: accounts (`transport/users`, `store/db/user.go`, `pkg/invite`) | `users` | registration with invitation, profile, PATCH, change of password, deactivation | names stay unique; a deactivated account is frozen; a password changes only by who has proved one |
| Auth: access tokens, passwords (`service`) | none | hash, sign, verify | (functions of a cryptographic library) |
| API: secrets and versions (`transport/secrets`, `store/db/psql.go`) | `secrets.current_version_no`, `secret_versions`, `secret_materials`, `dbi_verifiers` | create secret, create / disable / reveal / apply version, delete secret | the current version is active; a stored material opens under its own number; a database keeps the secret, and an active version, that its verifier names |
| API: databases (`transport/dbis`) | `dbis`, `dbi_verifiers`, `resource_states`, `resources` | create, start, stop, update, delete, connection data, URI | a database is collected only after its deletion; a deleted database is collected in the end; a request touches resources of its own project only |
| API: resources and tags (`transport/resources`, `transport/tags`) | `tags`, `resource_tags` | attach, detach, list | a tag lives as long as a resource has it |
| API: projects and members (`transport/projects`, `authz`, `transport/iam`) | `projects`, `project_members` | create, update, delete project; add, promote, demote, remove member; permission matrix | databases are terminated before their project goes; a project keeps an owner, the subject that is billed for it; only an owner makes an admin; who is out of a project or signed out changes nothing in it |
| API: hooks (`pkg/account`, `membership`, `quota`, `secret`) | none (defaults do nothing) | called before and after creations | a quota is not passed |
| API: telemetry | none | series of a resource's metric | the resource is one of the caller's project |
| Drones (`apps/drones/pkg/cli`, `cleanup_one_deleted_dbi` in the platform schema) | none of their own | collect one deleted database per call, repeated per tick | see databases and tags; collectors do not block one another |
| s0c (`apps/s0c`) | `auth.json`, `config.json` in the user's home | login, logout, API commands, psql with its bootstrap | commands do not log their user out; the file never goes back to an older token; a creation is not repeated |
| Proxy QL executor, console, UI, contract types | browser state | clients of the services | not modelled, see section 8 |

How they interact. The auth service issues access tokens, which the API
verifies by their signature; on its sensitive routes the API also asks
`auth.is_live_session` in the shared database whether the session behind the token
is neither revoked nor expired. Within the auth service the OIDC provider inserts
into `auth_sessions` and reads `users`, in one transaction with the row of the code.
The API writes what it desires (`desired_runtime_state`, `password_desired_state`);
the orchestrator reads it and writes `resource_states`; a drone deletes what both of
them call deleted. Secrets and databases meet in `dbi_verifiers`: it names the secret
and the version of a database's password, its foreign keys restrict the deletion of
both, and its row is locked by applications, terminations and drones. Everything of a
project hangs on the row of `projects` by cascading foreign keys.

## 2. Hard behaviours

PostgreSQL runs every statement at READ COMMITTED, so two statements of one
transaction may see different rows, and so do the two halves of every
check-then-act. The behaviours that tests hardly reach, each listed in
`PROJECT.json` (`hazards`) at the line where it bites:

- check, then act, without a lock between them: `is_active` before a session is
  inserted; the state of a version before the verifier is written; the list of
  databases before the project is deleted; the number of a version before its
  material is encrypted; the rank of a member before another member is changed.
- a multi-row `UPDATE` that fixes its candidates before a concurrent transaction
  commits a row it should have hit (reuse detection, `/oauth2/revoke`, deactivation).
- `NOW()` is the time of `BEGIN`: rows inserted later by a transaction that began
  later are "younger" than the one that revokes them, and a `CHECK` refuses that.
- locks taken in opposite orders (secret and verifier; session row and subject; tags),
  deadlocks that PostgreSQL breaks, and requests that wait.
- lost answers: the transaction has committed and the caller sees an error; retries
  and duplicates follow (code exchange, authorization, refresh).
- time: expiry between any two statements.
- crashes and retries of the drones, locked rows that they skip.
- two processes of s0c that share a file of tokens without a lock, each token good for one
  use.
- a request authorized for one project that names a resource of another, or that is
  still on its way when its session is revoked or its caller removed.
- long sequences of legal calls: chains of rotations, start after delete, apply and
  disable of versions in turn.

## 3. The modules

| Module | Models | Extends / composes |
|---|---|---|
| `SessionFamilies` | what the auth service promises about token families (abstract) | |
| `AuthSessions` | refresh sessions, statement by statement | implements `SessionFamilies` |
| `OneTimeGrants` | what the provider promises the client of an authorization request (abstract) | |
| `OidcCodes` | authorization requests and their codes | implements `OneTimeGrants`; the session it issues is `AuthSessions` |
| `SecretVersions` | one secret, its versions and its verifier | |
| `DatabaseLifecycle` | the databases, tags and collectors of one project | the password of a database is `SecretVersions` |
| `ProjectAuthz` | roles, the permission matrix, and the permission and the session check of every route of the API | used by the next two |
| `ProjectAccess` | projects, members and account plans | extends `ProjectAuthz`; the databases of a deleted project are `DatabaseLifecycle` |
| `ResourceRequests` | every request on databases, secrets, versions, tags and metrics of several projects, from its authorization to its answer | extends `ProjectAuthz`; takes the transactions of `SecretVersions` and `DatabaseLifecycle` as single steps |
| `Accounts` | the table of users | sessions and the statements of a deactivation are `AuthSessions` |
| `CommandLine` | processes of s0c and their files | the services as `AuthSessions` and `ResourceRequests` show them to be |
| `*Proofs` | theorems and proofs of the module of that name | extends it and `TLAPS` |
| `MC*` | the instances of the runs: symmetry sets, the projects of resources | extends the module |

Conventions. A request in flight is a slot (of `Tx`, `Req` or `Drone`): an idle slot
takes up any request, a busy one is at a program counter `pc`, which names the SQL
statement it runs next. One step is one statement with the handler code up to the
next one. A `SELECT ... FOR UPDATE` is enabled when the row is free; the row stays
held while `pc` is at a later statement of the transaction. A row that a transaction
has locked or written cannot be changed by another one until it ends, so the model
applies the writes of a transaction at its last step; what has to be read earlier
(the candidates of a multi-row `UPDATE`, the tags to lock, the orphans to delete) is
kept in the slot. `Abort` ends any request at any place: a cancelled context, a lost
connection, a failed statement, a crash; PostgreSQL rolls back. `DeadlockAbort` is the
deadlock detector. Every definition that models code has its lines in `PROJECT.json`
(`map`); those of PostgreSQL, of the clock and of the orchestrator are marked external.
Operators whose names end in `Mutant` (or `Leak`, `RotateKeepsOld` and its siblings)
belong to no specification: each is a wrong variant of the definition below it, used
to check that a property notices the difference.

### AuthSessions

`sess` is `auth_sessions` in insertion order (a row is named by its index, a family by
the row of its login), `active` is `users.is_active`, `tx` the requests, and `closed` a
history variable: the families that a committed reuse response or `/oauth2/revoke`
closed. Each row has its subject, family, client (or `Browser`), revocation reason,
whether it has expired, and `replaced_by`.

| Operation | Code | Actions |
|---|---|---|
| Login | `AuthLogin`, `CreateAuthSession` | `LoginVerified`, `InsertLoginSession` |
| Code exchange | `ExchangeOIDCCode` | `ExchangeBegin`, `ExchangeLock`, `InsertOAuthSession` |
| Refresh, of browser and OAuth client | `AuthRefresh`, `refreshTokenGrant`, `refreshAuthSession` | `RefreshBegin`, `LockSession`, `LockSubject`, then one of `MarkExpired`; `CheckUser`, `Rotate`; `Snapshot`, `LockRow`, `CommitUpdate` (reuse) |
| `/oauth2/revoke` | `Revoke`, `RevokeOAuthSessionFamily` | `RevokeFamilyBegin`, `RevokeFamilyLock`, `Snapshot`, ... |
| Logout, revoke-one | `RevokeAuthSession` | `RevokeOneBegin`, `RevokeOne` |
| Revoke-all, deactivation | `RevokeAllAuthSessions`, `DeactivateUser` | `RequireLiveSession`, `RevokeAllBegin` / `DeactivateBegin`, `DeactivateLock`, `Snapshot`, ... |
| `CHECK (revoked_at >= created_at)` | auth schema | `UpdateViolatesCheck`, by the field `younger` |

`Promise` maps a family to the set of its unrevoked rows; `FamiliesSpec` says that
every step of `AuthSessions` is a step of `SessionFamilies`: open a family, replace
its one usable session by a fresh one, close families for good, or none of these.

### OidcCodes

`account` is what the provider reads of `users` (unverified, verified, inactive), `row`
is `oidc_auth_requests`, `tx` the handlers, `lastCode` names the random codes by
number, `answers` collects the redirects that the client of each request was sent (a
code, or `Denied`), `issued` counts the sessions that its exchanges inserted.

| Operation | Code | Actions |
|---|---|---|
| `/oauth2/authorize` | `Authorize`, `CreateOIDCPending` (which also deletes expired rows: some of those not locked, for it takes at most 100) | `AuthorizeAnonymous`, `AuthorizeSignedIn` |
| `/oauth2/login/continue`, completion | `ContinueBrowser`, `ContinueConsole`, `completeAuthorization`, `AuthorizeOIDC` | `Continue`, `CheckUser`, `Authorize` |
| Refusal | `rejectAuthorization`, `CancelOIDC` | `Cancel` |
| `/oauth2/token`, code | `authorizationCodeGrant`, `ExchangeOIDCCode` | `Exchange`, `LockCode`, `Validate`, `Consume` |
| Deactivation; verification of the address (external); expiry | `DeactivateUser`; -; the clock | `Deactivate`; `VerifyEmail`; `Expire` |

`Authorize` and `Cancel` include the case that the row is written and the answer of
PostgreSQL is lost. Whether client, redirect URI and PKCE verifier fit is one Boolean
of the exchange.

`ClientView` maps a request to what its client knows of it: new, asked, refused, or sent a
code of its own, which is open while its row is authorized, redeemed once a session was
issued, lapsed when the expired row was deleted. `GrantsSpec` says that every step of
`OidcCodes` is a step of `OneTimeGrants` under this mapping (with the sessions issued and the
users who may sign in): a request is asked, refused, sent a code or redeemed, or nothing that
a client can tell happens. The pending row, the continuations, the lost answers and the locks
are what the mapping hides.

### SecretVersions

`current` is `secrets.current_version_no` (0 once the secret is deleted), `versions` are
`secret_versions` with the number that each material was encrypted for (its AAD),
`verifier` is the row of `dbi_verifiers` that names the secret, if any.

| Operation | Code | Actions |
|---|---|---|
| Create a version | `CreateSecretVersion` of the handler and of the store | `CreateRead`, `CreateLock`, `CreateCommit` |
| Disable a version | `DisableSecretVersion` | `DisableBegin`, `DisableLockSecret`, `DisableLockVersion`, `DisableCheckVerifier`, `DisableCommit` |
| Apply as password | `ApplySecretVersionPasswordVerifier`, `SetDatabasePasswordSecretVerifier` | `ApplyBegin`, `ApplyRead`, `ApplyWrite`, `ApplyCommit` |
| Delete the secret | `DeleteSecret` | `DeleteCheck`, `DeleteLock`, `DeleteCommit` |
| Terminate / collect the database | `ClaimDatabaseTermination`, `cleanup_one_deleted_dbi` | `ClaimDatabaseTermination`, `CollectLock`, `CollectCommit` |

Row locks come in the modes that matter: `FOR UPDATE` and `DELETE`; `UPDATE` outside a
key; `KEY SHARE`, which the check of a foreign key takes.

### DatabaseLifecycle

`project` is whether the row of the project exists, `dbi` the rows of `dbis` and
`dbi_verifiers` (desired runtime state, desired password state), `state` the
`resource_states` of the database and of its secret (deleted, or anything else), `tags`
and `assoc` the rows of `tags` and `resource_tags`, `req` the API requests, `job` the
collections in flight.

| Operation | Code | Actions |
|---|---|---|
| Create a database | `CreateDBInstance`, `CreateDatabase` | `CreateAuthorized`, `CreateDatabase`, `InsertFails` |
| Start, stop, delete | `SetDatabaseDesiredRuntimeState`, `ClaimDatabaseTermination` | of the same names |
| Attach, detach a tag | `AttachResourceTag`, `DetachResourceTag` | `AttachResolved`, `UpsertTag`, `AttachTag`, `InsertFails`; `DetachResourceTag` |
| Delete the project | `DeleteProject` of the handler and of the store | `NoDatabaseListed`, `DeleteProject` |
| Collect | `runGC`, `cleanup_one_deleted_dbi` | `SelectDatabase`, `SelectTags`, `LockTag`, `DeleteResources`, `CollectCommit`, `AbortJob` |
| Orchestrator (external) | - | `Reconcile` |

A database stands for its own resource and for that of its password secret, which are
inserted, claimed and deleted together.

### ProjectAuthz and ProjectAccess

`ProjectAuthz` has the ranks, `Allows(role, action)` (`authz/rbac.go`) and two tables,
`ProjectRoute` and `ResourceRoute`: per operation whether its route asks for a live
session (`router.go`) and which action its handler asks for. `ProjectAccess` has the rows
(`billing` and `present` of `projects`, `role` of `project_members`, `plan` of
`subject_plans`), the history variable `seated` and the requests in flight.

| Operation | Code | Actions |
|---|---|---|
| Authorization of every request | `authorize`, `Authorize` of `authz` | `Begin`, `Unauthenticated`, `Malformed` |
| Create a project | `CreateProject`, `resolveProjectBilling` | `CheckAccountPlan`, `CreationRefused`, `InsertProject`, `ProjectAlreadyExists` |
| Update, delete a project | `UpdateProject`, `DeleteProject` | `UpdateProject`; `ListDatabases`, `DeleteProject` |
| Add a member | `AddProjectMember` | `AddReadsCaller`, `ReadProject`, `InsertMember` |
| Change, remove a member | `UpdateProjectMemberRole`, `RemoveProjectMember` | `ChangeReadsCaller`, `UpdateReadsTarget` / `RemoveReadsTarget`, `CountOwners`, `LockProject`, `CheckLastOwner`, `WriteRole` / `DeleteMember` |
| Plans | `transport/iam` | `GetAccountPlan`, `GetPlan`, `EnsureSubjectPlan`, `PlanUnavailable`, `InsertSubjectPlan` |
| Reads | the `Get` and `List` handlers | of the same names |
| Extension (external) | a private build with its own routes | `SeatOwner` |

No handler of the repository makes a second owner; `SeatOwner` is what makes the check of
the last owner matter, and the properties that hold without it only are about
`present \ seated`.

### ResourceRequests

`session` is what `auth.is_live_session` answers, `role` the members, `unused` the
identifiers not generated yet, `db`, `secret` and `tagged` the rows of databases with their
verifiers, of secrets with the states of their versions, and of `resource_tags`. A slot
remembers the handler (`op`), the caller and the project of its path, the resource, and the
version it has read or was given.

| Operation | Code | Actions |
|---|---|---|
| Middleware and authorization | `requireLiveSessionMiddleware`, `authorize` | `Authorized` in every first step |
| Databases | `transport/dbis` | `CreateDBInstance`, `CreateDatabase`; `UpdateDatabase`; `SetDatabaseDesiredRuntimeState`; `ClaimDatabaseTermination`; `GetDBInstance`, `ListDBInstances` |
| Connection data, URI | `GetDBInstanceConnection`, `RevealDBInstanceURI` | of these names, then `ReadVerifier`, `ReadPasswordSecret`, `ReadDesiredVersion`, `ReadPasswordMaterial`, `AuthorizeReveal`, `Answer` |
| Secrets | `transport/secrets` | `CreateSecret`, `UpdateSecretMeta`, `GetSecret`, `ListSecrets`, `DeletableSecret`, `DeleteSecret` |
| Versions | the same | `BeginCreateSecretVersion`, `CreateSecretVersion`; `BeginDisableSecretVersion`, `DisableSecretVersion`; `RevealSecret`, `RevealSecretVersion`, `ReadMaterial`, `Answer`; `ApplySecretVersion`, `ApplyReadsMaterial`, `SetDatabasePasswordSecretVerifier`; the reads |
| Tags | `transport/tags`, `transport/resources` | `AttachResourceTag`, `DetachResourceTag`, `ListProjectTags`, `ListResourceTags` |
| Metrics | `transport/telemetry` | `GetResourceMetricTimeseries`, `ResolveTarget`, `QueryRange` |
| Others | auth service, `ProjectAccess`, drones | `RevokeSession`, `Regrade`, `Collect` |

Every `SELECT` and every `UPDATE` names the project of the caller (`Found`, `VersionsOf`,
`VerifiersOf`): that each of them does, in every statement of every handler, is what
`TenantsStayApart` is about.

### Accounts

`users` are the rows (a user without row is `NoRow`), `req` the requests, `had` a history
variable: the passwords each account has had. A registration
holds its unique keys from its `INSERT` until its transaction ends, and a statement with
the same key waits for it (`KeysFree`); a PATCH carries the row it read, with every field it
will write and the hash it must not; a request that compared a password carries that password
in `verified`.

| Operation | Code | Actions |
|---|---|---|
| Register | `RegisterUser`, `CreateUser` with the invite hook | `RegisterUser`, `CreateUser`, `Provision` |
| Login | `AuthLogin` | `AuthLogin`, `CreateAuthSession` |
| Profile, `/auth/subject` | `GetUser` | `GetProfile` |
| PATCH | `UserPatch`, `UpdateUser` | of the same names |
| Change of password | `UserPasswordUpdate`, `UpdateUserPassword` | of the same names |
| Deactivate | `DeactivateUser` | `DeactivateUser` |

### CommandLine

`fam` is the unrevoked row of each family of the user, `expired` how many of its access
tokens have expired for s0c, `file` and `configured` are `auth.json` and `config.json`, `proc` the
processes, `project` whether the project that the bootstrap of `s0c psql` makes exists, and
`parted` a history variable: the open families whose refresh token two processes used at
once, or whose refreshed token was lost with a process. s0c takes an access token for expired
30 s ahead of its time, so that the services may accept a token that `expired` counts (how long
it counts is left out: `Accepts` and `Refuses` overlap); a used refresh token ends its family
or, when the service rolls that back, does not (section 7).

| Operation | Code | Actions |
|---|---|---|
| Commands | `internal/cli` | `StartLogin`, `StartLogout`, `StartApi`, `StartPsql` |
| Tokens of a call | `GetValidAccessToken`, `ForceRefreshAccessToken` | of these names, `AuthNotConfigured`, `Login`, `RefreshAccessToken` |
| Save of a file | `SaveState`: temporary file, rename | `WriteTemp`, `Rename`; `SaveConfig`, `ClearConfig` |
| Calls | `internal/app/platform.go`, `internal/client` | `Unauthorized`, `ListProjects`, `CreateAnswered`, `CreateUnanswered`, `GetDatabase`, `GetDatabaseURI` |
| Logout | `Logout` | `Logout`, `Rename`, `ClearConfig` |
| Faults, time | errors, interrupts, lost answers; expiry, revocation elsewhere | `Fail`; `Expire`, `Close` |

## 4. The runs

| Run | Bounds | Distinct states | What it shows |
|---|---|---|---|
| `auth_native` | 1 subject, 2 requests, 3 session rows; login, refresh, deactivation | 322,336 | one unrevoked row per family, sound chains, `auth_time`, reuse, finality of revocation, refinement of `SessionFamilies` |
| `auth_oauth` | 1 subject, 1 client, 2 requests, 2 rows; all seven operations | 1,522,760 | no session for an inactive user by any route, once what had begun before is over |
| `auth_live` | 1 subject, 2 requests, 2 rows; all native operations; fairness | 146,236 | every request ends |
| `accounts` | 2 users, 3 usernames, 2 emails, 2 passwords, 3 requests | 74,585 | unique names, frozen deactivated accounts, passwords set only with the proof of one |
| `oidc_codes` | 2 requests, 2 users, 2 handlers, 3 codes | 923,818 | one answer per request, one session per code, failed exchanges keep the code, sessions for active users only, refinement of `OneTimeGrants` |
| `secret_versions` | 2 requests, versions up to 4; fairness | 52,335 | the current version is active, material opens, the verifier keeps its secret, disables spare the version in use, terminations are final, every request ends |
| `databases` | 2 databases, 2 tags, 1 request, 2 drones; fairness | 97,525 | collections are legal, tags outlive their resources, drones do not deadlock one another, deleted databases are collected |
| `members` | 3 subjects, 1 project, 2 requests, four names of roles, one of them unknown | 2,019,619 | a project keeps an owner, the billed one, who has a plan; only owners make admins |
| `requests` | 2 projects, 1 database with its secret in one, 1 secret in the other, 1 caller who is a member of both, 2 requests, versions up to 2 | 1,164,448 | who is removed or signed out changes nothing; tenants stay apart; a database is whole |
| `command_line` | 2 processes, 2 logins, 2 rows per family | 3,370,115 | no reuse without an overlap, the file never goes back, creations are not repeated |
| `auth_reuse`, `secret_verifier` | small instances | | one counterexample each: section 7 |

Why the bounds are enough to be of use. The hazards of section 2 are between two
requests: two slots give every interleaving of any two operations with themselves and
each other, and completed requests free their slot, so that any number of requests runs
one after another. (`accounts` has three: a PATCH in flight while a name is released by a
second request and taken by a third.) Three rows are a login and two rotations: a reuse of
the first token beside the rotation of its successor, the race that `ReuseEndsFamily` is
about, needs the third. `Calls` selects the operations of an instance, because all seven
with three rows exceed what a run can visit: `auth_native` has the refresh at full depth
with the operations that race with it on `is_active`, `auth_oauth` all seven with two rows.
The theorems cover all seven together. `MaxSessions`, `MaxCode`, `MaxFamilies`, `MaxRows`
and the sets `Grant`, `Db`, `Tag`, `User`, `Project` and `Secret` bound what is ever
created; a request that has begun is never held back by a bound, but for a refresh of the
last row in `CommandLine`. `MaxVersion` is the code's own limit (`math.MaxInt32`) made
small: at 4 there are disabled, current and applied versions at the same time, and the
limit is reached. Two databases that share two tags are what the order of the tag locks
needs. In `requests` the caller owns the second project, whose secret his paths then name
under the first one: the most that an identifier of a foreign project can reach. `Regrade`
only removes members there (`Grade` is empty) and users tag the database only (`Taggable`);
the other values multiply states that differ in nothing the properties read. Symmetry is
declared only in runs without liveness. The proofs lift the bounds for the safety
properties of eight modules (section 6).

`CHECK_DEADLOCK FALSE` is set for `OidcCodes` (the finitely many requests end as
consumed or deleted), `DatabaseLifecycle` (after the deletion of the project nothing is
left to do), `ResourceRequests` (a signed-out caller without a membership can do nothing)
and `Accounts` (when all users are deactivated). In the others something can always
begin or go on.

Every property of a passing run has a mutant in `PROJECT.json`: a plausible bug in one
definition (a lock not taken, a clause dropped, an assignment forgotten, an early
return that leaves its transaction open) that makes the run fail on that property.

## 5. Fairness

- `SF(Progress(t))` for each request of `AuthSessions` and `SecretVersions`: a request
  sends its next statement or fails; a statement that waits for a lock is granted it
  when the holders end, because PostgreSQL queues waiters in order of arrival. The lock
  becomes free again and again rather than for good, hence strong fairness.
- `WF` of the deadlock detector: it runs `deadlock_timeout` after a wait began.
- `DatabaseLifecycle` adds `SF(Collect(c))`: a drone repeats the function at every tick
  (`gc.go:58`); `WF(Reconcile(d))`: the orchestrator, an assumption on a program outside
  the repository; and `<>[]` no `AbortJob`: failures of the drones, and the deadlocks
  that PostgreSQL resolves against them, come to an end. Without the last one no
  collection need ever commit, which the code cannot change.
- Nothing is assumed of users: no request need ever begin. `Abort` has no fairness: no
  property relies on a failure.
- The other modules have no liveness: whether a user completes a login, or sends the next
  request, is up to him, and their requests wait for nothing but keys and rows whose
  holders `AuthSessions` and `SecretVersions` show to end.

## 6. The proofs

TLAPS checks the following for every value of the constants: any number of subjects,
clients, requests, rows, versions, databases, tags, drones, projects, users and names. The
only assumptions are those named in the modules: `Browser \notin Client`;
`Nobody \notin User` and `MaxCode \in Nat`; `MaxVersion \in Nat \ {0}`;
`Tag \subseteq Nat` and `Req \cap Drone = {}`; `NoSubject \notin Subject`,
`NoProject \notin Project` and `NoRole \notin Requested`;
`Omitted \notin Name \cup Address`; `MaxFamilies, MaxRows \in Nat \ {0}`; and of
`ResourceRequests` that databases and secrets are disjoint, the system tag is not one of the
users', each database has a secret of its own in its project, and the roles at the start are
roles.

| Theorem | Statement |
|---|---|
| `AuthSessionsProofs!Typing` | `Spec => []TypeOK` |
| `NoSecondUnrevokedRow`, `ChainIsSound`, `RefreshIsCurrent`, `ReuseEnds`, `WalkFindsLogin` | the invariants `OneUnrevokedPerFamily`, `RotationChain`, `BranchStaysCurrent`, `ReuseEndsFamily`, `AuthTimeIsLogin` |
| `RevokedForGood`, `NoSessionForInactive` | the action properties `RevocationIsFinal`, `InactiveCannotRenew` |
| `KeepsPromise` | `Spec => FamiliesSpec`: `AuthSessions` implements `SessionFamilies` |
| `OidcCodesProofs!Typing`, `AnsweredOnce` | the invariants `TypeOK`, `OneAnswer` |
| `CodeSurvivesFailure`, `OnlyActiveUsers` | the action properties `FailureKeepsCode`, `IssuedToActive` |
| `KeepsPromise` | `Spec => GrantsSpec`: `OidcCodes` implements `OneTimeGrants` |
| `SecretVersionsProofs!Typing`, `CurrentVersionIsActive`, `StoredMaterialOpens`, `DatabaseKeepsSecret` | the invariants `TypeOK`, `CurrentIsActive`, `MaterialOpens`, `VerifierKeepsSecret` |
| `DisableSpares`, `TerminationIsFinal` | the action properties `DisableSparesVerifier`, `AbsentIsFinal` |
| `ProjectAccessProofs!Typing`, `NeverOwnerless`, `OwnershipStays`, `PlanStays` | the invariants `TypeOK`, `KeepsAnOwner`, `OwnerIsBilled`, `BilledHasPlan` |
| `OwnersMakeAdmins` | the action property `AdminsAreMadeByOwners` |
| `AccountsProofs!Typing`, `NamesUnique` | the invariants `TypeOK`, `NamesAreUnique` |
| `Frozen`, `PasswordsProved` | the action properties `InactiveIsFrozen`, `PasswordNeedsProof` |
| `ResourceRequestsProofs!Typing`, `WholeDatabases` | the invariants `TypeOK`, `DatabaseIsWhole` |
| `OutsidersStay`, `SignedOutForGood`, `TenantsApartForGood` | the action properties `OutsidersAreOut`, `SignedOutOnlyReads`, `TenantsStayApart` |
| `CommandLineProofs!Typing`, `NoReuseAlone`, `CreatesOnce` | the invariants `TypeOK`, `ReuseNeedsOverlap`, `NeverAsksTwice` |
| `FileAhead` | the action property `FileNeverGoesBack` |
| `DatabaseLifecycleProofs!Typing`, `DronesKeepOrder` | the invariants `TypeOK`, `DronesNeverBlockEachOther` |
| `CollectionIsLegal`, `TagsAreKept` | the action properties `CollectedOnlyWhenDead`, `TagOutlivesItsResources` |

The inductive invariants, and why the stated properties alone are not inductive:

- **AuthSessions.** `RotationChain` and `OneUnrevokedPerFamily` are preserved by `Rotate`
  only if the row it rotates is still unrevoked, which the request read three statements
  earlier. `RequestsOK` says which row and which locks a request of each kind holds at
  each `pc`; `LocksInv` adds that no row is held twice and that the branch a refresh
  chose stays true under its lock. `ReuseInv` is the argument for reuse detection: it
  holds the subject's row (`SubjectsExclusive`), so no rotation of the family can be
  between its `SELECT` and its `INSERT`, and every unrevoked row of the family is a
  candidate of the `UPDATE` (`ReuseCandidates`); a closed family has no unrevoked row,
  and its row exists (`ClosedFamilies`), so that no later rotation can start in it.
  `UsersInv` gives the order of exchange and deactivation by the lock on the users row.
  The refinement has one lemma per kind of step (`LoginRefines`, `RotateRefines`,
  `RevokeRefines`, `ExpireRefines`); every other step leaves the rows alone and stutters.
  `AuthTimeIsLogin` is not proved step by step: `WalkFindsLogin` takes it from the rows as
  they are (`TypeOK` and the invariant of the rows, `RowsInv`). The rows that the walk back
  along `replaced_by` reaches are the least set closed under its step (`Reached`), which shows
  that the recursive definition has a solution. The least row whose walk does not find the
  login of its family (`LeastRow`) is the successor of a smaller one, whose walk does.
- **OidcCodes.** `Inv` is `TypeOK`, `SlotsOK` (what a continuation, an exchange and an
  exchange that holds its rows know), `Apart` (a request that was not shown to a browser
  has one continuation, and no two handlers are about to install the same code) and
  `RequestsOK` (the relation between the status of a row, the answers and the sessions of
  its request). They carry the properties: whoever is about to answer a client finds it
  unanswered, a code that is about to be installed is known to nobody, and a session is
  issued at most once, to a row that is consumed thereby. The refinement adds one invariant,
  `Checked`: who is about to be bound to a request was found active and verified one
  statement earlier, and can only have been deactivated since, so that the condition of the
  `UPDATE` (the user is active) is enough for the promise (the user may sign in). Then each
  action shows one step of `OneTimeGrants` (`CreateAsks`, `FailRefuses`, `AuthorizeSends`,
  `CancelRefuses`, `ConsumeRedeems`) or none (`HiddenSteps`).
- **SecretVersions.** `RequestsKnow` says what the locks guarantee of what a request has
  read: after `CreateLock` the number read is still the current one, after
  `DisableLockSecret` the current number cannot change, after `DisableCheckVerifier` no
  committed verifier names the version. `LocksExclusive` makes it inductive.
- **DatabaseLifecycle.** `JobsOwnTheDead` (the database of a collection stays dead, for
  its rows are locked), `TagsLockedOnce`, `DoomedAreOrphans` (the tags to be deleted have
  no other resource: an attachment would have to lock the tag) and `InsertsAreFresh`.
  `LocksInOrder` is for `DronesKeepOrder`: the tags a drone holds come before those it has
  still to lock, so that a drone waits for greater tags than those others can wait for it on
  (`WaitsUpwards`). In a circle of drones somebody waits for the drone whose awaited tag is
  the least of all, and for a tag less than that: a contradiction, for any number of drones.
- **ProjectAccess.** `Knows` says what a request in flight still knows of what it read:
  that the subject it bills has a plan, that an owner it found is an owner still as long as
  no extension seated another, and, under the lock on its project, that an owner it is
  about to demote or remove leaves another one behind (`SparesAnOwner`). `LocksExclusive`
  makes the last one stable: two requests never hold one project.
- **Accounts.** `NamesAreUnique` is preserved by the commit of a registration only if
  nobody took its names since its `INSERT`: `KeysHeld` says that what an open transaction
  has inserted collides with nothing, committed or not, and a PATCH and another `INSERT`
  keep it because they wait (`KeysFree`). `UsersApart` keeps two registrations from
  creating one user. `PasswordNeedsProof` speaks of one step, but the change that makes it
  compared its password any number of steps earlier: `ProofsStand` keeps what it verified
  among the passwords the account has had, and the row's own among them too, so that the
  next comparison proves one again.
- **ResourceRequests.** Every action has one of four shapes: a request begins with an
  authorization, goes on to its next `SELECT`, ends in one transaction, or something moves
  outside the requests (`Shaped`, one lemma per group of actions). The invariant and the
  three action properties are proved of the shapes. `Knows` is what a request in flight
  relies on: what it is about to create or to answer lies in its project (`Fixed`), a
  database about to be created does not exist (`Fresh`), and the version an application
  is about to write exists as long as the database does (`Kept`), because the verifier
  restricts the deletion of the secret and identifiers are not used twice. `Typing` is
  inductive together with it: the number of a new version is within the range because the
  request has read one below the limit (`Numbered`), and the transaction that inserts the
  version finds that number unchanged.
- **CommandLine.** `ReuseNeedsOverlap` says nothing of the file, through which the processes
  meet. `TokensKnown`: no token in the file or in a process is newer than the unrevoked row
  of its family. `SaversAhead`: whoever has a refreshed token to save holds the newest, and
  every copy is older, the one in the file included. `WholeUnlessParted`: in a family that
  was never in two hands, the file holds the unrevoked row or one process alone is about to
  save it. `Typing` adds what is left of the calls of a process: always the end of one of
  the sequences that a command begins with.

Every safety property of a passing run, each type invariant and both refinements included,
is a theorem. Only model-checked: liveness (`EveryRequestEnds` in two runs,
`TerminatedIsCollected`), which the prover does not do. Induction over data is not needed:
where it suggests itself (the walk back along a chain of rows, a circle of waiting drones)
the proofs take a least counterexample.

## 7. Findings

Each is a run that ends in the counterexample, and an entry of `findings` in
`PROJECT.json` with the quotations.

| Run | The code | What is said of it |
|---|---|---|
| `auth_reuse` | the `UPDATE` of reuse detection violates `CHECK (revoked_at >= created_at)` when the successor began later; all of it rolls back | `apps/auth/docs/oidc-oauth.md:16`: a reused token revokes the whole family |
| `secret_verifier` | an application of a version and its disable interleave into a verifier that names a disabled version | `secrets/handlers.go:882` refuses that state |

`ReuseEndsFamily` and `ReuseAlwaysRevokes` do not contradict each other: a reuse response
that commits leaves nothing usable, but it may fail to commit. `InactiveCannotRenew` is
what does hold of a deactivation: once the requests that had passed their check are over,
the user gets no session by any route.

Read against the docs while modelling, without a run of their own:

- `DeactivateUser` revokes the sessions that its `UPDATE` sees; a login or refresh that
  checked `is_active` before commits a live row after it (`apps/auth/docs/rbac_en.md:98`:
  all active sessions are revoked atomically). The row is refused at its next refresh.
- `RevokeOAuthSessionFamily` with an older token of a family misses the successor that a
  concurrent rotation commits (`apps/auth/docs/oidc-oauth.md:17`).
- `DeleteProject` lists the databases in one statement and deletes in another: a database
  created between them goes with the project, without its termination
  (`projects/handlers.go:443`, `:480`).
- A viewer may apply a secret version to a database: the only action that
  `secrets/handlers.go:727` asks for is `secret.reveal`
  (`apps/auth/docs/authentication_en.md:41`).
- `s0c api plan` calls `/plan`, for which the API has no route.
- A PATCH of the email keeps `email_verified_at` (`user.go:129`), so that the provider
  takes the new address for a verified one (`apps/auth/docs/oidc-oauth.md:11`).

Observed while modelling, without a statement to hold against them: a PATCH writes back
the fields its body omits with the values it read, so that of two concurrent PATCHes of
different fields the later undoes the earlier; two concurrent changes of a password may
both prove the same current one, and the later wins; start and stop have
no condition on the state they overwrite (`psql.go:1129`), so that a start after a
deletion leaves a database that should run while its password is to be absent, and that
is not collected until it is deleted again; `CreateDatabase` inserts no `resource_states`,
which `apps/api/docs/architecture_en.md:77` describes, so that a missing row counts as
"not deleted" until the orchestrator writes one; the exchange of a code whose answer is
lost leaves a session nobody has the token of; of two concurrent applications of
versions the older may land last.

## 8. What is not modelled

- **Hooks and quotas** (`pkg/account`, `membership`, `quota`, `secret`, `plan`): the defaults
  do nothing. Where a hook can refuse, the request that calls it has a failing step. A quota
  is checked and used in two calls to an interface whose other side is not in the
  repository: what the two do together cannot be read from it.
- **Cryptography, token formats, parsing, validation of names**: pure functions; the
  models keep what they decide (a code opens or not, a verifier fits or not, a password is
  the one of the row).
- **OpenID Connect discovery, JWKS, parsing of requests, signing**: no state.
- **Telemetry**: the mapping of metrics and the building of queries. Whose series are read is
  `ResourceRequests`.
- **s0c**: `s0c config`, the cleanup of the file of passwords, the printing of answers.
- **Proxy QL executor**: a handler without shared state that runs one guarded query.
- **Configuration, logging, servers, contract types, generated OpenAPI docs**: no state
  after start.
- **Console and UI**: presentation.
- **The orchestrator and PostgreSQL** are outside the repository: the first is an
  arbitrary program that only brings states towards what is desired, the second is
  modelled as far as the SQL of the repository relies on it.

## 9. Plan

Done, in this order: `AuthSessions` with `SessionFamilies`, `SecretVersions`,
`DatabaseLifecycle`, `OidcCodes` with `OneTimeGrants`; `ProjectAuthz` and `ProjectAccess`; `ResourceRequests`;
`CommandLine`; `Accounts`. Left, most useful first:

1. `OidcCodes` and `AuthSessions` composed over one users table, so that an exchange is one
   transaction over both; property: from a consumed code to a live family, one to one.
2. An abstract specification of a project's tenancy that `ResourceRequests` implements, so
   that its action properties follow from one refinement.

The set of runs is to stay small: a new module takes the place of a narrower run.

## 10. How to run

In this directory: `tlc -workers 2 -config MCAuthSessionsNative.cfg MCAuthSessions` (and
so on, module and configuration of each run are in `PROJECT.json`), `tlapm
AuthSessionsProofs.tla`. Each run ends within five minutes on two cores.
