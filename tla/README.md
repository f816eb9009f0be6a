# LMS backend: TLA+ models, model checking and proofs

This directory specifies the concurrent core of the LMS backend, a multi-tenant
FastAPI application on PostgreSQL (SQLAlchemy, asyncpg) with an optional Redis, and
the scripts that migrate, seed and deploy it. Each module translates code under
`app/`, `alembic/`, `scripts/` or `deploy/`, TLC checks it on small instances and
TLAPS proves the main safety properties for every size. `PROJECT.json` maps
every definition to the source lines it stands for.

## 1. The system

### How a request runs

`uvicorn` runs several workers, each an asyncio loop with a connection pool of
its own (10 + 20 connections, 30 s timeout). A request

1. passes `RequestContextMiddleware`, which creates the `RequestContext` and
   finds the tenant (access token claims, else the tenant header: a UUID, or a
   slug looked up in Redis or in the database);
2. gets a session from `get_db`, which opens one READ COMMITTED transaction and
   sets `app.tenant_id` and `app.bypass_rls` for it;
3. is authenticated (`get_current_user`) and guarded (role, permission, licensed
   module, rate limit);
4. runs a service method: SELECTs through repositories that filter by tenant, then
   writes, which the ORM flushes as INSERTs and as UPDATEs by primary key of the
   changed columns with literal values;
5. may publish a domain event, whose audit handler writes in another session;
6. is answered, and only then committed: with the pinned FastAPI, the code after
   the `yield` of `get_db` runs once the response has been sent.

No code takes an explicit lock (`SELECT ... FOR UPDATE`), raises the isolation
level or retries. What protects the data is the row locks and the unique indexes
of PostgreSQL and the order of the statements; that is what the models are about.

### Components

| Component | State | Operations | Talks to | Correct when |
|---|---|---|---|---|
| Courses (`modules/courses`) | `courses`, `course_enrollments` | `enroll`, `create_course`, `update_course`, `delete_course`, listings | sessions, event bus | counter and enrolments agree, slugs are unique, publication is dated, a duplicate is answered 409 |
| Request context, tenant resolution (`core/context.py`, `core/middleware/context.py`, `core/tenancy`) | `RequestContext`, slug cache | `_resolve_identity`, `resolve_tenant_id` | Redis, sessions | the context names the right tenant and is reset |
| Sessions, pool, RLS (`core/database`, migration 0002) | connections and their settings | `get_db`, `tenant_session`, `_bind_rls`, repositories | every service | no request touches another tenant's rows; no connection leaks; waits end |
| Auth sessions (`modules/auth/service.py`) | `users`, `user_sessions`, reset tokens | `login`, `refresh`, `logout`, `forgot_password`, `reset_password`, `register` | Redis or `_reset_store` | rotation is atomic, one live token per login, a reset ends old sessions |
| Guards (`modules/auth/dependencies.py`) | the request context | `get_current_user`, `require_permission`, `require_role` | sessions, context | they run before the handler, on the current user |
| Licensing (`core/licensing`) | `tenant_modules`, cache `lic:enabled:*` | `enabled_codes`, `set_module`, `invalidate` | Redis, admin | a toggle takes effect |
| Rate limiter (`core/middleware/rate_limit.py`) | one Redis counter per key | `__call__` | Redis | at most `times` per window, every window ends |
| Event bus, audit (`core/events`, `core/audit`) | `audit_logs` | `publish`, `audit_domain_event`, `write_audit` | a session of its own | a failing handler does not fail the request; an entry describes something that happened |
| Platform administration (`modules/admin`) | tenants, users, modules, content | tenant, user, lesson and assignment routes, reports | sessions, licensing | its sessions are the only ones to bypass RLS |
| Accounts and roles (`modules/auth`, `modules/admin`) | `users`, `roles`, `user_roles` | `register`, `create_user`, `update_user`, `create_tenant` | sessions, seeds | one account per address; a user has the roles somebody gave |
| Assignments (`modules/assignments`) | assignments, questions, submissions, grades | create, submit, auto-grade, grade | event bus | one grade per submission, the right points |
| Learning (`modules/learning`) | `lesson_progress` | `complete_lesson`, listings | event bus | one row per lesson, with the last position sent |
| Dashboard (`modules/dashboard`) | none | `for_user` | tables of the other modules | its counts and its activity fit together |
| Tokens, passwords (`core/security`) | none | encode, decode, hash, verify | | cryptographic libraries |
| Configuration, factory, errors (`core/config.py`, `main.py`, `shared/exceptions.py`) | settings | wiring, error envelope | | |
| Schema (`alembic/versions`, `scripts/dump_sql.py`) | tables, enum types, policies, `alembic_version` | upgrade, downgrade, load of the SQL files | PostgreSQL | what is committed is a whole revision |
| Seeds (`scripts/seed.py`, `scripts/gen_seed_sql.py`) | catalogue, tenant, roles, users, sample content | seed by script, seed by SQL | accounts, courses | a tenant is seeded wholly or not at all |
| Deployment (`deploy/`, `alembic/env.py`) | checkout, lock, running workers | poll, fetch, pull, migrate, restart | git, Alembic, systemd | code and schema fit; a new commit is finally served |

### What is hard

* **Read, then write.** Services read a row in one statement and write a value
  derived from it in a later one (the enrolment counter, `is_active` of a session,
  a licence flag); a check for a duplicate precedes the INSERT.
* **Answer, then commit.** A client may act on a response whose transaction is not
  yet visible, or never will be.
* **Hold and wait.** Requests wait for rows and keys, and hold one pooled
  connection while they wait for a second one.
* **Two stores.** Redis (cache, counters, reset tokens) changes outside the
  database transaction.
* **Pooled connections.** RLS settings live on connections that the next tenant
  reuses.
* **Failures.** A worker dies or a connection drops at any statement.
* **Several steps of a deployment.** Pull, migration and restart are three steps, any
  of which can fail or be killed, while workers restart by themselves, an operator
  works on the same checkout and database, and the next poll looks at HEAD alone.

The `hazards` of `PROJECT.json` list these at their lines.

## 2. Modules

| Module | Models | Checked by | Proved in |
|---|---|---|---|
| `Courses` | catalogue and enrolment of one tenant | `MCCourses` | `CoursesProofs` |
| `RequestScope` | context, pool, RLS, repositories, audit and platform sessions | `MCRequestScope` | `RequestScopeProofs` |
| `Sessions` | refresh-token sessions and password of one account | `MCSessions` | `SessionsProofs` |
| `Licensing` | licence flags, cache, guard and toggle of one tenant | `MCRedis` | `RedisProofs` |
| `Grading` | submissions and grades of one tenant | `MCGrading` | `GradingProofs` |
| `Learner` | lesson progress, audit log and dashboard of one learner | `MCLearner` | `LearnerProofs` |
| `FixedWindow` | abstract: what a fixed-window limiter promises for one key | | |
| `RateLimiter` | INCR / EXPIRE on one Redis key | `MCRedis` | `RedisProofs` |
| `Accounts` | users and roles of one tenant, and the requests that write them | `MCSeeding` | `SeedingProofs` |
| `Seeding` | extends `Accounts` by the two seeds | `MCSeeding` | `SeedingProofs` |
| `Schema` | tables, migrations and SQL files as data, and what PostgreSQL does with them | `MCDeployment` | `DeploymentProofs` |
| `Deployment` | extends `Schema` by script, checkout, Alembic runs, operator and workers | `MCDeployment` | `DeploymentProofs` |

The modules share a style: `req` holds the requests in flight, `pc` the statement
a request runs next, and one action is one statement (or one Redis command), since
another request can run between any two. What a transaction has written stays in
its request record, with the locks it implies, until `Commit` makes it visible;
`Abort`, `Crash` or `Fail` may end a request anywhere. Input that a handler rejects
without changing anything is a refusal, or no step at all. Names of columns,
functions and settings are the source's. A definition with an underscore in its
name (`Incr_Read`) is a deliberately wrong variant of the definition after it; the
properties are checked to fail with it (`mutants` in `PROJECT.json`).

### Courses

`rows`, `slug`, `status`, `published_at`, `deleted_at`, `enrollment_count` and
`enrollments` are the committed tables. `enroll` is `EnrollLoad` (`get_or_404`,
status test, the counter as loaded), `EnrollCheck` (`get_for_user_course`),
`EnrollInsert` (waits on `uq_enrollments_course_user`, fails on a committed key),
`EnrollWrite` (the UPDATE of the counter, which waits for the row), `Publish`,
`Respond`, `Commit`. `create_course`, `update_course` and `delete_course` are built
the same way; `CommitUpdate` writes just the columns that differ from the loaded
ones. `raced` is history: courses where two enrolments overlapped. Dates are
reduced to "set or not"; title, price, category and the like are not kept. An
update that violates a constraint (an unknown category) ends in `Abort`.

### RequestScope

A row of a tenant table is represented by its tenant; `touched` collects the
tenants whose rows a request read or wrote. `conn` is the pool with the two RLS
settings of each connection's transaction (`Bound` is `_bind_rls`; `Ended` is what
`set_config(..., true)` means when the transaction ends). `Policy` is the policy of
migration 0002, `Filter` that of `TenantRepository`. A deployment is chosen in
`Init`: RLS settings bound or not (`enable_rls`), role subject to policies or not
(`enforced`). Slug lookup, audit write and platform work take a second connection
(`ResolveOpen`, `AuditOpen`, `LookupOpen`, `PlatformOpen`); `PoolTimeout` and
`AuditTimeout` are the pool's 30 s. Which statements a handler runs is left open:
any number of `RepositoryQuery`, `RawQuery`, `Create` and published events, in any order.
`RawQuery` is a statement that no repository built, such as the counts of
`admin/service.py:159`; the architecture record says of the tenant filter that "No query bypasses it"
(`docs/adr/0001-architecture.md:28`), but these do. So nothing is claimed of the filter alone:
isolation is what the policies give. What a platform session, which bypasses them by
intent, touches is not recorded.

### Sessions

`login`, `refresh`, `logout` and `reset_password` are split at their statements.
`refresh` reads the session (`RefreshRead`), revokes it by primary key without a
second test (`RevokeOwn`) and adds the new row, all visible at `Commit`.
`reset_password` updates the user, takes the snapshot of the live sessions
(`RevokeAll`), visits them one by one as an UPDATE under READ COMMITTED does
(`RevokeRow`: waits for a locked row, tests it again), and deletes the token before
the commit. `gen`, `parent`, `root`, `forked` and `late` are history for the
properties, as is `spent`: how often a reset token has changed the password, whether
two resets held it at once, whether it expired or a reset failed after deleting it. One store of reset tokens stands for Redis or for a single process.

### Licensing

`flag` is the tenant's rows of `tenant_modules`, `expired` the codes past
`expires_at`, `cache` the Redis key. A guard is `Miss`, `Compute`, `Fill`; a toggle
`SetRead`, `SetFlush`, `Invalidate`, `Commit`: the cache is invalidated before the
commit, as in `set_module`. `Compute` is the two SELECTs of `_compute_enabled`
as one: the second reads only `expires_at`, which no code writes. Without Redis (`redis` false) nothing is cached.

### Grading

`assignment`, `answers`, `status` and `grade` are the committed submissions with their
rows of `grades`. `submit` is `SubmitLoad`, `SubmitInsert`, for a quiz `AutoGrade`, and
its commit; nobody else sees the row before. `grade_submission` is `GradeLoad`
(the submission), `GradeRelated` (its relationship `grade`, which the ORM loads by a
statement of its own), `GradeLookup` (the maximum is tested, then
`get_by_submission`, which returns the object the session already has, however old),
`GradeMark` and `GradeWrite` (the two statements of the flush) and its commit. An
UPDATE sets just the columns whose new value differs from the loaded one
(`Regraded`), so two overlapping gradings may leave a row that mixes both.
Feedback is a text or absent: a grading without one writes back the text it loaded,
which the UPDATE leaves out because it has not changed.
`last` and `raced` are history. Assignments and quizzes are constants, because no
handler changes one. Points are counted in hundredths, the scale of their column; what
a grader sends, in half hundredths, so that rounding happens.
`Earned` and `Possible` (sums, by `Worth`) and `Scaled` are `_auto_grade`: its Decimal
division is rounded to `1 / Prec`, its product, in hundredths, to `1 / Fine`, and the result to
the column.

### Learner

`progress`, `enrollments`, `submissions` and `audit_logs` are what is committed for one
learner. A write is `CompleteLoad`, `EnrollLoad` or `SubmitLoad`, then `Flush` (the
INSERT or UPDATE, which waits for another writer of the row or key and fails if the
key is taken), `Publish` (the entry, committed at once in a session of its own) or
`PublishFails` (an error the event bus swallows), and `Commit`. Enrolling and
submitting are cut down to what the learner's tables and the log see of them;
`Courses` and `Grading` have the rest. `Offered` are the lessons and assignments that
exist from the start; `Create` is the administrator's `create_lesson` or
`create_assignment` for another one, after which a dashboard may find it pending. Other events of the learner (`OtherEvent`) only
push entries out of the list.

A dashboard runs the `Statements` of `for_user` one by one, each on what is committed
by then; what it counts is kept as a set. `unaudited`, `rolled_back`, `last` and
`raced` are history. No route cancels an enrolment or leaves a lesson half done, so
a progress row is always a completed one. The log is in the order of its commits;
`created_at`, the start of the transaction, may order two concurrent entries the other way,
which no property depends on. The answer of a request is not a step of its own here.

### RateLimiter and FixedWindow

A `Call` is one request's pass through the limiter; `Incr`, `Expire` and `Decide` are the commands of `RateLimiter.__call__`,
`KeyExpires` is Redis. `FixedWindow` says that the first `Times` requests of a
window are admitted and the others rejected. The refinement maps
`used` to `min(count, Times)` and gives each request its verdict with its INCR.

### Accounts and Seeding

`tenant`, `roles`, `users`, `active`, `grants`, `catalog` and `content` are the committed
rows of one tenant; a request or a seed is one transaction, whose inserts and deletes
(`newUsers`, `give`, `take`, ...) another one waits for where they meet in a key.
`register` is `EmailFree`, `LookupRoles`, `FlushNew`; `create_user` inserts the user first
(`InsertUser`); `update_user` is `LoadUser`, `LookupRoles`, `FlushUpdate`, which writes
the difference between the roles wanted and the roles loaded (`Give`, `Take`);
`create_tenant` is `InsertTenant`, with an administrator and without roles. `seed.py`
looks every row up before it inserts it (`SeedCatalog` to `SeedContent`); the SQL file
inserts ON CONFLICT DO NOTHING under uuid5 keys (`SqlCatalog` to `SqlContent`) and so
fails as a whole on a tenant with a random id. `Fail` ends any of them anywhere.
`granted`, `raced` and `created` are history.

`create_user` assigns the roles of an object it has just flushed. Under the async
session that may need the old value, which cannot be loaded there, and raise; `Fail`
covers that outcome and `FlushNew` the other. The same holds of `create_lesson` and
`create_assignment` in `Learner`.

### Schema and Deployment

`Schema` has the 25 tables of the first migration in their order with foreign keys and
enum types, the policies of the second, the statements of `dump_sql`'s files, and
`Accepts` and `Run`, which say when PostgreSQL takes a statement and what it does.
`TablesAssumption` says of these lists what the proofs need (see 4).
In `Deployment` the script goes through `Poll`, `Fetch`, `Pull`, `ScriptMigrates` and
`Restart`, with the error paths `FetchFails`, `PullRefused`, `RestartFails` and `Kill`
(systemd's timeout). A run of Alembic, by the script or by hand (`Migrate`), executes the
statements of the real migrations one at a time (`Step`, `Stamp`) in one transaction
(`CommitRun`, `RollBack`); psql commits each statement of the SQL files (`LoadStep`),
and `StampHead` follows. `WorkerStarts` is a worker that dies and comes back with
the code on disk. `left` and `lost` are history: who left the schema behind, and that a
run ended after its pull without a restart.

Commits are numbers, and `main` only moves forward. One Alembic run or SQL load is under
way at a time: that is an assumption about the operator, since the script locks out
only itself. How git, Alembic, psql and systemd react is external, taken from how
the scripts use them.

## 3. Runs

| Run | Question | Instance | Result |
|---|---|---|---|
| `courses` | do counter, slugs and dates survive overlapping requests, does each request end? | 2 requests, 2 courses, 2 users, 1 slug, empty catalogue | holds |
| `courses_duplicate` | is a duplicate enrolment answered 409? | same | violated |
| `request_scope` | are tenants isolated, connections returned, waits finite? | 2 requests, 2 connections, 2 tenants | holds |
| `superadmin_bypass` | does a super admin's session bypass RLS? | same | violated |
| `sessions` | is rotation atomic, what escapes a reset, what becomes of its token, does each request end? | 2 requests, 3 sessions, 1 reset token | holds |
| `refresh_reuse` | is a used refresh token refused? | same | violated |
| `grading` | do status, grade and feedback survive overlapping gradings, is an automatic grade the share earned, does each request end? | 2 requests, 1 submission, an essay and a quiz, 2 graders, 2 texts of feedback or none | holds |
| `learner` | do the dashboard's counts and activity fit, does the audit log tell the truth, is the last position kept? | 2 requests, 1 lesson, 2 courses, 2 assignments of which one is created later, 3 writes or events, list of 2 | holds |
| `redis` | does the limiter's counter implement the window, does it end; can the licence cache be stale, for how long? | 3 requests, limit 2, counter to 5; 2 requests, 3 codes, 3 toggles | holds |
| `seeding` | what do overlapping registrations, administrators and seeds leave of accounts, roles and sample content? | 2 transactions at once, 4 in all, 2 addresses, 2 roles, 1 seeded user | holds |
| `deployment` | do code and schema fit after any failure, is a pushed commit served? | 3 commits (the second brings 0002), 1 worker, 2 faults, 2 interventions | holds |
| `restart_unprompted` | does the script restart the service only when HEAD advanced? | same | violated |

`MCRedis` puts the two users of Redis side by side. Their keys are disjoint and they share no
other state, so a behaviour follows one of them while the other rests.

`MCGrading` also evaluates `ScaledNearest`: for three quizzes and every sheet of answers
the automatic grade is the nearest value of the column.

What the properties say, beyond types:

* `CountBounds`, `SerialCountExact`: `enrollment_count` can lose increments, never
  gain any, is never zero with an enrolment, and is exact unless two enrolments
  of the course overlapped. `SlugUnique` and `PublicationDated` hold whatever the
  handlers read before.
* `RlsIsolates`: with policies enforced no request touches a foreign row, even by
  statements without a filter. `ConnectionsAccounted`: nothing leaks.
* `RotationAtomic`, `SerialLineage`, `ResetCutsOff`: a new session never coexists
  with the one it replaced; several live sessions of one login need overlapping
  refreshes; a session survives a reset only if its login, its refresh or that of an
  ancestor overlapped one. `ResetTokenOnce`: a token changes the password once, or more often
  only where resets had read it before one deleted it. `ResetTokenLost`: a token that is gone
  and has changed nothing has expired, or its reset is about to commit, or failed after the
  delete, which comes before the commit.
* `FreshUnlessRaced`, `EventuallyFresh`: a stale licence cache needs a guard that
  overlapped a toggle, and the time to live heals it.
* `GradedIffGrade`, `SerialGrade`, `FeedbackKept`: status and grade agree, a grade shows
  the last grading and the last feedback unless two overlapped, and feedback changes only to the text
  that the committing grading was sent, so no grading loses the feedback of another or
  brings an older one back. `AutoGradeNearest`: an automatic grade is the column value nearest to the
  share of points earned (stated without division or rounding); no later grading
  leaves it half changed.
* `SubmittedNotPending`, `CountedShown`: although a dashboard's five statements see
  five states, no assignment is both submitted and pending, and what is counted is
  among the activity, unless the list is full or the entry could not be written.
  Both depend on the order of the statements. `EntriesExplained`: an entry
  stands for a stored row or one about to be, or for a write that was rolled back
  after its entry, which the separate session permits; losing the race for a key
  leaves none. `SerialPosition`: the last position prevails unless completions overlap.
* `ImplementsWindow`, `OrphanByFailure`, `WindowEndsUnlessLost`: the limiter is
  a fixed window, except that a failure between INCR and EXPIRE makes it endless.
* `AccountOnce`, `SerialRoles`, `SeedWhole`: one address makes one account; a user has
  the roles given last unless two writers overlapped (two `update_user` can leave a
  mixture); a seed that fails or meets another leaves all or nothing.
* `SchemaWhole`, `StatementsAccepted`: whatever breaks, the committed schema is a whole
  revision with its foreign keys and policies, but for SQL files stopped half way and, by
  policies alone, files stamped with a newer head; and no statement is refused, but over
  enum types left by a downgrade to base or by files without a stamp. `AheadExplained`: a worker runs ahead of the
  database only between pull and migration, after a run broken there, or behind an
  operator. `ServedUnlessLost`: a pushed commit is served in the end, unless a run ended
  after its pull, which no poll repairs, or the checkout is not clean.
* `RequestsEnd` (in four modules): no circle of waits; where requests hold and
  wait (the pool), the timeout resolves it.

### Bounds

All races of this code are between two requests on one row, one key or one
connection: two requests, a second user, tenant or course to interfere with and
crashes everywhere exhibit each of them (the variants and the violated runs show
that the cases occur). Two connections for two requests that need up to two each
exhaust the pool. `MaxSession`
(tokens issued), `MaxToggle` (toggles started), `MaxEvent` (writes and events of a
learner) and `MaxCount` (counter) cap what would grow for ever; three sessions are a login with two refreshes, or a refresh that
forks; the counter passes the limit with room to spare. The quizzes have a question
with one correct answer, with two, with none and one without points; `Prec` (10^28 in
the program) only has to exceed twice the products of points, which 1000 does here, and `Fine`
(10^22) twice the possible points, which 100 does, for the
first two roundings to be as harmless as they are there. Three events fill and
overflow a list of two (`Limit`, 10 in the program). Two transactions at once and four
one after another (`MaxStart`) let a tenant appear, be seeded, and have a user updated
by two at once. Of three commits one brings a migration and one only code, so that a pull can
bring none, one or two; `MaxFaults` is two failures or kills, which can hit any steps, and
`MaxManual` two acts of the operator (edit and clean up, migrate and downgrade, load and
migrate). One worker is enough there: workers share nothing but the checkout, and each
property is about one at a time. The requests of `Learner` and of `Seeding` are interchangeable, and the properties
are invariants, so their symmetry is used.
`Licensing`, `Sessions`, `RateLimiter` and `Seeding` can stop when their bound is used up, so
deadlock is not checked there; the liveness properties of the first three are. The
proofs remove the bounds for the modules that have them.

### Fairness

A request takes its next step when it can. Where it waits for a row, a unique key or
a pooled connection, fairness is strong: PostgreSQL queues the waiters of a lock, and
the pool serves waiters in turn. A handler of `RequestScope` publishes finitely many events and
returns, so `Finish` is fair too. Weak fairness is given to the passage of time
(`CacheExpires`, `KeyExpires`) and, in `RateLimiter`, where nothing waits, to the
requests. In `Deployment` it is given to the script (systemd fires the timer and runs
what it started), to Alembic and to psql. Clients need not send anything, nobody has to
push or to intervene, nothing forces a crash or forbids one.

## 4. Proofs

TLAPS proves every safety property of the passing runs for every value of the
constants, under the named assumptions of the modules (seeded
courses have distinct slugs; `None` is no tenant; `Times` is a positive natural; the
points of a quiz are what sums are, and small against the precision of a Decimal;
`None` is no lesson, course or
assignment, and `Limit` is positive; there is a module code, and an address; the seeded
users are among the addresses; later commits have no fewer migrations). TLC evaluates
each assumption on the instances of its runs. But for that of `Sessions`, the type
invariants are proved instead of being part of a run. Each module proves
an inductive invariant, named `IInv` unless noted, action by action. Some have a second
one on top of it (`HoldInv`, `TokenInv`, `AutoInv`, `RolesInv`, `SchemaInv`), whose steps may use the first.

* `CoursesProofs`: `TypeCorrect`, `CounterBounded`, `CounterExactWithoutRace`,
  `SlugsUnique`, `Dated`. The invariants are not inductive alone, because a request
  acts on what it loaded earlier. `IInv` adds what stays true of those values: a
  counter read is a lower bound of the rows (`LoadedCountBound`: rows are never
  removed) and exact without a race (`LoadedCountExact`); dates seen are still set
  (`LoadedDates`); uncommitted rows are new and alone with their key (`InsertsNew`,
  `CreatesNew`); requests refer to existing rows (`WellFormed`, `EnrolledExist`).
* `RequestScopeProofs`: `TypeCorrect`, `TenantIsolation`, `NoConnectionLeaks`. `IInv`
  adds that a free connection carries no settings (`PoolClean`), that a
  request's own session is bound to its tenant or to none, without bypass
  (`OwnBound`), and that a request has touched nothing before it has a session
  (`EarlyClean`). `HoldInv` says for each step of a request which connections it holds, so
  that a timeout, a failure and a normal end all give back the same ones.
* `SessionsProofs`: `TypeCorrect`, `RotationIsAtomic`, `LineageIsSerial`, `ResetsCutOff`,
  `ResetTokensOnce`, `ResetTokensLost` and `RevokedForGood`. None of the properties is inductive alone, since a session
  is issued with its lineage and password as they were when the request read them.
  `IInv` adds that a `jti` is drawn once and not stored before its request
  commits (`FreshJti`); that a refresh continues the line of the session it loaded, holds
  the lock on it from its UPDATE on, and any other live session or refresh of that line is
  the result of an overlap (`RefreshOK`, `PairsForked`, `LiveForked`); that, once
  a reset has its snapshot, a live session is locked, still to be visited, or late (`CutOK`);
  and that what is issued beside a reset is late, everything else of the current
  password (`OverlapLate`, `GenOK`, `LiveGen`). `TokenInv` adds that a token two resets
  hold, or that one holds after it has been used, was shared (`SharedOK`) and that a used token
  has left the store (`UsedGone`).
* `GradingProofs`: `TypeCorrect`, `StatusMatchesGrade`, `LastGradingShown`,
  `FeedbackNeverLost`, `AutoGradesNearest`. `IInv` adds that a request's submission was
  stored with the
  assignment it loaded (`GradeOK`) or is still its own (`SubmitOK`), that the grade it
  loaded still exists and, if no other grading of the submission overlapped, is
  unchanged, that two requests do not both have an uncommitted grade of one submission
  (`Writers`), and that absent rows are empty (`RowsOK`). `AutoInv` says that automatic
  grades, stored and about to be, are nearest; the arithmetic is in `ThreeRoundings` and
  `ScaledNear`: rounding to `1 / Prec` and to `1 / Fine` moves a value across no half of a hundredth,
  because two such fractions lie further apart than that as long as twice the maximum times the possible
  points is below `Prec` and twice the possible points below `Fine`. What remains assumed (`SumsAssumption`) is that the sums are
  numbers, no less for all questions than for some: induction over data.
* `LearnerProofs`: `TypeCorrect`, `NeverBothCounted`, `DashboardExplained`, `LogExplained`,
  `LastPositionShown`. `IInv` adds that a row is explained (entered, or its entry failed)
  before it can be seen (`RowsOK`, and `WriteOK` for one in flight), so what a dashboard
  has counted is explained by the time it reads the activity (`DashboardOK`); that the
  entry of a request in flight is past its publication (`EntriesOK`) and an
  enrolment in flight alone with its key (`Unique`); and that a loaded progress is
  current unless another completion overlapped (`WriteOK`, `Alone`). `LatestBounded` and
  `LatestComplete` say what the list of activity holds.
* `SeedingProofs`: `TypeCorrect`, `OneAccount`, `SeededWhole`, `RolesAreSerial`. `IInv` adds
  that what a transaction inserts is
  new and disjoint from what others insert (`Legal`, `Disjoint`), and that users are there,
  or on their way, only where there is a tenant: `create_tenant` inserts its administrator
  without looking at the address. `RolesInv` adds what a transaction's writes will
  amount to when it commits: a seed has written all that its step is past (`Whole`), and the
  roles a transaction gives and takes lead from the ones it loaded to the ones it means
  to grant, unless another writer has overlapped (`Exact`).
* `DeploymentProofs`: `TypeCorrect`, `AheadOnlyExplained`, `SchemaStaysWhole`, `StatementsAreAccepted`. `IInv` adds that
  workers, checkout and remote are in order (`Order`), that the checkout stays while the
  script waits for Alembic (`Owned`), and that the schema is good for the code on disk
  unless somebody is known to have left it behind (`Ready`). `SchemaInv` says what the database is at
  every statement: n statements into a migration up (`Rising`) or down (`Falling`), or into
  the SQL files (`Loaded`), a whole revision otherwise (`Whole`); and that no run of
  Alembic sees a load at work. A first upgrade over leftovers is not excluded, it only
  cannot pass its last type (`NoTypes`). The proof is about any lists of tables, types and
  policies that satisfy `TablesAssumption`: nothing is named twice, no table comes before
  one it refers to, and migrations and SQL files are about the same things. That the
  repository's lists do is evaluated by TLC. It also showed that no statement is refused
  after a stamp with a newer head, for which `StatementsAccepted` once made an exception.
* `RedisProofs`, about the two modules on Redis: `TypeCorrect`, `OrphansExplained` and
  `Refinement` of `RateLimiter`: each step of
  the limiter is a step of `FixedWindow` or a stutter. `LicensingTypeCorrect` and
  `CacheFresh` of `Licensing`, for which `CacheInv` adds that a value about to be cached
  is fresh, with no toggle under way, unless one has overlapped it, and that
  a toggle about to commit has emptied the cache.

Model-checked only: the liveness properties (`RequestsEnd`, `EventuallyFresh`,
`WindowEndsUnlessLost`, `ServedUnlessLost`), because fairness is beyond the prover, and the
runs that expect a violation.

## 5. Findings

1. **A double enrolment is answered 500, not 409** (`courses_duplicate`). Two
   overlapping requests pass `get_for_user_course`; the second INSERT hits the unique
   index. `docs/FE_HANDOFF.md:117` promises 409.
2. **A super admin's session never bypasses RLS** (`superadmin_bypass`): `get_db` reads
   `is_superadmin` before `get_current_user`, which needs that session, sets it.
   The comments in `auth/dependencies.py:44` and `auth/models.py:86` say otherwise.
   (`tenant_session` takes its bypass from its caller and works.)
3. **A used refresh token can be accepted again** (`refresh_reuse`), until the commit that
   follows the answer. `docs/FE_HANDOFF.md:70` promises 401.
4. **The service restarts without a new commit** (`restart_unprompted`). With a local commit on top,
   HEAD never equals origin/main: every poll pulls nothing, migrates and restarts.
   `auto-deploy.sh:9` says "Restarts lms-backend only when HEAD actually advanced".

Seen while modelling, and covered by the exceptions the properties name:

* If the first request of a window fails after INCR, no later one sets the time to live,
  and the window never ends (`rate_limit.py`, `OrphanByFailure`).
* A reset whose commit fails after its answer has used up the token and left the old password
  (`auth/service.py:231`, `ResetTokenLost`).
* The reports count past the tenant filter, which the architecture record excludes
  (`admin/service.py:159`); a role the policies do not apply to would see every tenant.
* A migration or restart that fails after the pull is not tried again: the next poll
  finds HEAD equal to origin/main. A rebase killed by the timeout leaves HEAD detached, and
  later polls skip.
* `alembic stamp head` after a pull in between stamps files of an older revision with the
  new head. A downgrade to base leaves the enum types, and the next upgrade is refused.
* A tenant made by `create_tenant` has no roles until it is seeded; users who register
  before get none. The SQL seed fails as a whole on such a tenant, whose id is random.
* `seed.py` leaves its sample content out of a tenant that has any course.

## 6. Not modelled, and the plan

Left out for good: cryptography and token formats (a valid token is an input), schemas
and formatting, configuration, application factory and error envelope, read-only listings
without state, columns and indexes that no key or policy depends on, the wording of
seeded rows.

Overlapping toggles of one module (`licensing/service.py:115`) are modelled, but the code promises
nothing of their outcome. What a client believes after an answer whose commit fails is not
state of the models.

Open, in order:

1. Reset tokens with several workers and no Redis, access tokens after logout and reset.
2. What a guard (`require_permission`, `require_role`) grants while roles change, on top of
   `Accounts`.
