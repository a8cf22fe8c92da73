# Verification of the multi-tenant SaaS backend

TLA+ specifications of the parts of `app/` where several requests, nodes, jobs
and Redis or PostgreSQL calls meet, model-checked with TLC, and theorems about
all of them checked by TLAPS: every invariant and action property that a passing run
checks, and the refinement.

The program is a FastAPI service. Every HTTP handler is a coroutine with its own
database session; it gives up control at each `await`, so other handlers of the
same node, of other nodes, and the background worker run between any two of its
statements. PostgreSQL (READ COMMITTED, its default, which the code leaves
alone) and Redis are shared by all nodes. Nothing retries a failed request. Each
model therefore has one step per statement, commit, publish or Redis call, and
every step may be interleaved with every other.

## Inventory

| part | state | operations | what is hard | what makes it correct |
|---|---|---|---|---|
| Tasks: `endpoints/tasks.py`, `services/task.py`, `repositories/base.py` | `tasks` rows with `version_id`, `is_deleted`; `audit_logs` | POST, PATCH with a status (conditional UPDATE), PATCH without one (ORM object), DELETE (soft) | versions read and compared before the write; row locks; failure between commit and publish | no lost update, a delete is final and reported once, the audit trail replays, events tell the truth |
| Retention job: `workers/tasks.py` | deletes `tasks` rows | `cleanup_soft_deleted_tasks_job`, daily | runs against requests in flight | removes only deleted tasks, with all that refers to them |
| Projects: `endpoints/projects.py`, `services/project.py`, `core/cache.py` | `projects` rows, Redis cache | POST, PATCH, cached GET | check-then-insert; cache filled or evicted late | unique keys, tenant isolation, no invented content, no stale entry without a cause |
| Refresh tokens: `services/auth.py`, `core/redis.py` | JWTs held by clients, blacklist keys with a TTL | login, refresh, logout | check-then-revoke, swallowed errors, whole seconds | a token is used once, a revoked one stays revoked |
| WebSocket hub: `websockets/hub.py`, `endpoints/ws.py` | `rooms`, `_listener_tasks`, Redis subscriptions | connect, disconnect, broadcast, listener loop | tear-down against re-creation, dying sockets, Redis errors | one listener per room, events in order and once, delivery, dead sockets reaped |
| Rate limiter: `core/rate_limit.py` | one sorted set per key | `__call__` | clock read before the transaction; boundaries | never too many, never refused without cause |
| Accounts: `services/auth.py` (register), `endpoints/organizations.py`, `services/team.py`, `api/deps.py` | `users`, `organizations`, `organization_members`, `teams`, `team_members` | register, invite, PATCH organization, create team, add team member, role check | check-then-insert; several rows in one transaction; objects read before another commit | no duplicates, all-or-nothing registration, roles respected, no column undone |
| Comments and attachments: `services/comment.py`, `endpoints/comments.py`, `endpoints/attachments.py` | `comments`, `attachments` | create, edit, confirm | the task is deleted or purged in between | no orphans, what was acknowledged stays, only authors and admins edit |
| Listings: `endpoints/tasks.py`, `repositories/task.py`, `repositories/comment.py`, `core/pagination.py` | none; the cursor is the client's | offset and cursor pages | pages over a changing table, late commits, equal timestamps, spoiled cursors, COUNT and SELECT apart | a walk by cursors shows every lasting row exactly once and ends; a walk by page numbers errs only where the table has moved |
| Audit query: `endpoints/audit.py`, `repositories/audit.py` | none | filtered page | as above, and no second sort column | as above |
| Job queue: `services/queue.py`, `workers/arq_app.py`, `workers/tasks.py` | ARQ queue in Redis | enqueue, run, run again, give up | lost and repeated jobs | bounded repetition, no mail without its invitation |
| Health, lifespan, middleware, errors, configuration, logging, schemas, migrations | none, or fixed at start | | | |

The parts meet in these places: task, comment and attachment handlers publish
through the hub; the retention job deletes what task and comment handlers refer
to; the limiter stands in front of login and register; invitations enqueue a job;
tasks and projects write `audit_logs` in their own transactions.

## Modules

| module | models | state and actions |
|---|---|---|
| `TaskStore` | tasks, audit rows, events, retention job | `rows`, `lock` (row locks), one `pc/arg/obj/out` per request. `CreateTask`, `PatchStatus`, `PatchFields`, `DeleteTask` start a handler, `Select`, `Update`, `Commit`, `Refresh`, `Broadcast` are its statements, `Fail` is a database error or the loss of the node, `Sweep` the job |
| `VersionedTask` | what the task store promises | one atomic step per change with its journal entry, whose before-state is one that the task has had |
| `TaskStoreProofs` | theorems about `TaskStore` | |
| `Projects` | projects and their cache | `rows`, `lock`, `cache`, `audit`; `LookupKey`, `Insert`, `SelectForUpdate`, `Flush`, `Commit`, `Evict`, `CacheGet`, `SelectForGet`, `Fill`, `Expire`. `missed` is for the properties: the reads that an update overtook and the updates whose eviction was lost |
| `ProjectsProofs` | theorems about `Projects` | |
| `AuthTokens` | refresh tokens | clock in ticks, `TPS` ticks per second; `issued`, `black`; `Decode`, `Check`, `User`, `Store`, `Issue`, `RedisError`, `Tick`. `revoked` and `lost` are for the properties; `Spent` says which tokens ought to be dead |
| `AuthTokensProofs` | theorems about `AuthTokens` | |
| `WsHub` | the rooms of one project on several nodes | `rooms`, `task`, `lst`, `sock`, `inbox`; `Accept`, `Join`, `Leave`, `EndpointDies`, `Publish`, and the listener's `Subscribe`, `Take`, `Send`, `Reap`, `Cancelled`, `RedisError` |
| `WsHubProofs` | theorems about `WsHub` | |
| `RateLimiter` | one key of the limiter | clock, `zset`, `expiry`; `Arrive`, `Transaction` and `RedisError` (both by way of `Exec`, the Redis transaction, which an error may precede or follow), `Tick`. `applied` and `ran` are for the properties |
| `RateLimiterProofs` | theorems about `RateLimiter` | |
| `Discussion` | comments and attachments against deletion and purge | `tasks`, `notes`, `lock`, `events`; `SelectTask`, `Insert`, `FindComment`, `Flush`, `Commit`, `Lookup`, `Publish`, `Presign`, `SoftDelete`, `Sweep` |
| `DiscussionProofs` | theorems about `Discussion` | |
| `Tenancy` | registration, invitations and their mails, organizations, teams, roles | the five tables, `jobs`; `CheckRole`, `FindEmail`, `FindMember`, `FindTeam`, `Insert`, `Commit`, `TeamDetail`; `SelectOrg`, `CommitPatch`, `RefreshOrg`; `Enqueue` and the worker's `TakeJob`, `send_invitation_email`, `FinishJob`, `LoseWorker` |
| `TenancyProofs` | theorems about `Tenancy` | |
| `Feed` | the listings: task feed, comments, task list in both orders, audit log | the table as `st` and `ts`, the walk as `cursor`, `page`, `total`; `KeysetPage`, `Count`, `OffsetPage`, `DamageCursor`, `NewWalk`, and the commits `Arrive`, `Patch`, `SoftDelete`, `PurgeTask`. `begun`, `seen`, `again`, `kept`, `upset` are for the properties |
| `FeedProofs` | theorems about `Feed` | |
| `MC*` | instances for TLC, with the symmetry sets that safety-only runs use | |

`Kinds` of `TaskStore` selects the handlers in use. The runs and theorems about
optimistic locking leave out `"fields"`, the PATCH without a status, because that
handler does not lock optimistically; `TaskStoreLostUpdate` shows the difference.
`CacheFaults` of `Projects` says whether cache calls may fail: they may in
`ProjectsAll`, and `ProjectsStaleFill` leaves them out to show that no failure is
needed. In `WsHub` and `AuthTokens` Redis calls may always fail; a listener that
has died of a Redis error (`"failed"`) and a request whose Redis call failed
(`lost`) are excused by the properties that cannot hold for them, and by those
only.

### Reading of the platform

- SELECT returns the last committed row and takes no lock. UPDATE evaluates its
  WHERE on the last committed row; if it matches and another transaction has
  written the row, it waits and evaluates again. An INSERT waits for an
  uncommitted row with the same unique key. A foreign key check holds off a
  DELETE of the row it refers to. COMMIT makes everything visible at once;
  ROLLBACK, and the loss of the connection, undo everything and free the locks.
- The ORM flushes a changed object with the primary key as its only condition
  (the mappers have no `version_id_col`) and raises when no row matches. No
  handler maps that error, nor `IntegrityError`: the client sees a 500.
- Redis runs a pipeline as one transaction, deletes a key when its TTL has run
  out, and delivers a published message to the current subscribers.
- A client sends any `expected_version` from 1 that the schemas accept
  (`schemas/task.py:27`, `schemas/project.py:21`), also one that the row does not have
  yet. A request is sent at most once; a client's retry is another request.
- A PATCH that names a column with the value the handler has read writes nothing to
  it, so it is a PATCH that does not name it; the sets of columns of `Projects` and
  `Tenancy` are those that change.
- The Redis client does not repeat a command whose reply was lost; the transaction of
  the limiter may then have run although the request ends with a 500.
- The retention job's DELETE and COMMIT are one step: between them the rows are
  locked and visible to SELECTs as before, which is the same as the step taking
  place at the COMMIT. Which rows are old enough is left open.
- `Discussion`'s `SoftDelete` is the commit of a DELETE of `TaskStore`.
- A CREATE audit row of a task does not hold the version; the insert fixes it at 1
  and the model writes it down.
- Registration inserts three rows in one transaction, after the lookup; only the
  first INSERT can meet a duplicate, so they are one step.
- An organization's PATCH writes values from the request, to the columns it names,
  so its UPDATE and COMMIT are one step: nothing it writes depends on what it waited
  for.
- ARQ counts a try when a worker takes a job, gives up beyond `max_tries`, runs a
  job again when its worker shuts down or is lost, and does not retry a job that
  raised or exceeded `job_timeout`. It has no setting `retry_delay`. A mail that has
  gone out is not called back by a loss that follows.
- In `Feed` each of COUNT and SELECT sees what is committed when it runs.
  `created_at` comes from the clock of some node at the flush, before the COMMIT, so
  a row may appear anywhere in the order; rows that sort alike come in any order.
  The tenant filter and the other conditions are one set of rows that tasks enter
  and leave. A client asks until there is no `next_cursor`, or until the last of
  `total_pages`. Its cursor is spoiled at most once in a walk. Nothing but the
  retention job removes comments, and nothing removes audit entries.
- Nothing deactivates users, changes roles or removes members: those branches of
  the role and token checks have no state in which they matter.

Known limits of the code that the models contain and that no run is spent on:

- `update_project` has the lost update of the field path of tasks
  (`TaskStoreLostUpdate`): the version is compared on an object that was read
  without a lock, and the flush names only the primary key.
- Audit entries of projects leave out `team_id` always and the description at
  CREATE, and describe the object in the handler's memory, so after a lost update
  no single entry need describe the resulting row. `ValuesAudited` says what
  remains true: each value of an audited column is in the entry of the request
  that wrote it.
- The `before_state` of a task's audit entry is what a SELECT without a lock has read
  (`services/task.py:73`). A client that names version v + 1 while the task is at v
  matches as soon as another PATCH commits between its SELECT and its UPDATE, and its
  entry then goes from v to v + 2. `AuditReplay` says that this is the only way: for
  a client that names a version that the task had when the request came the two
  states follow each other, and the after-states have no gap for anybody.
- A GET that an update overtakes between its SELECT and its SET, or an eviction that
  is lost, leaves a stale project in the cache for up to the TTL
  (`ProjectsStaleFill`); `StaleExplained` says that nothing else does.
- The TTL of a revocation is cut to whole seconds, so a revoked token is accepted
  again in its last second; hence the name `RevokedUntilLastSecond`.
- `logout` swallows a Redis error and answers 204 without having revoked.
- A room whose listener died of a Redis error stays without one until its last
  socket has left.
- A transaction of the rate limiter that runs late with an old timestamp is not
  seen by one that ran before it with a newer one; hence `Window - MaxDelay` in
  `Throttled`.
- Nothing checks that a user belongs to the organization of the team it is put into
  (`services/team.py:34`); `FindTeam` looks the user up in the whole table, as the
  code does, and `TeamsApart` speaks of teams only.
- A row that commits late with a `created_at` before a cursor already handed out is
  missing from that walk; hence `kept` in `Complete`.
- A cursor that cannot be decoded is taken for none: the client is served the first
  page again, without an error. `NoRepeat` excuses a walk for it, `Complete` and
  `FeedEnds` do not.
- COUNT and SELECT of an offset page may see different tables, and pages shift when
  rows come or leave; `OffsetExplained` says that nothing else makes them err. The
  audit log has no second sort column, so there equal timestamps are one more reason.
- `sort_by` knows `created_at:asc` and takes everything else for newest first, while
  a comment (`schemas/task.py:54`) and the repository's README speak of other
  fields.
- The mail job of an invitation may be lost (`enqueue` only logs), fail without
  another try, or send up to `max_tries` mails.
- Events of one task may be published in another order than their commits; each
  names the version it tells of.
- `TaskCreate` accepts `parent_id` and `due_date` and the handler does not pass them
  on. The key and size of a confirmed attachment are not compared with S3, and
  nothing calls `delete_object`.
- `update_comment` never compares the comment's task with the task in the path, so
  a COMMENT_UPDATED event and the room it goes to follow the path; and its
  response names the editor as author.

## Runs

Expected to pass:

| run | bounds | distinct states | shows |
|---|---|---|---|
| `TaskStoreAll` | 4 requests, 2 tasks, 2 statuses, expected versions 1 and 2, symmetry | 1.1 M | `DeletedOnce`, `EventTruthful`, `StatusFromExpected`, `TombstoneFinal` for all handlers and the job |
| `TaskStoreOcc` | 3 requests, 2 tasks, 2 statuses, expected versions 1 and 2, without `"fields"`, fair | 91 k | `OneWinner`, `AuditReplay`, the refinement `ImplementsVersionedTask`, and that handlers which wait for each other's locks all answer (`Answered`) |
| `ProjectsAll` | 4 requests, 2 organizations, 2 projects, 1 key, expected versions 1 and 2, 2 columns of which a CREATE entry shows one, cache faults, symmetry | 256 k | `KeyUnique`, `NoCrossTenant`, `ValuesAudited`, `StaleExplained` |
| `AuthTokensAll` | 4 requests, 3 tokens, 2 ticks per second, life 2 s, 6 ticks, symmetry | 692 k | `RevokedUntilLastSecond`: whatever was logged out or exchanged without a Redis error is refused until its last second |
| `WsHubAll` | 2 nodes, 2 sockets, 2 listeners, 2 events, fair | 57 k | `ListenerListed`, `NoDeafRoom`, `InOrderOnce`, `Delivered`, `DeadReaped` |
| `RateLimiterSafe` | 5 requests, limit 2, window 3, delay 1, 6 ticks, symmetry | 1.4 M | `Throttled`, `RefusedForCause` |
| `DiscussionAll` | 3 requests, 1 task, 2 notes, 2 users (one admin), fair | 730 k | `NoOrphan`, `Acknowledged`, `EventCommitted` (also: edits only by right), `PurgedEventually` |
| `TenancySafe` | 4 requests, 2 users, organizations, teams and emails, 1 slug, roles viewer and admin, `max_tries` 3, symmetry | 118 k | `RegisteredOnce`, `Provisioned`, `InviteHonoured`, `TeamsApart`, `MailBounded`, `ColumnsKept` |
| `FeedAll` | 3 rows, 3 timestamps, pages of 1 and 2, all five listings, fair | 507 k | `NoRepeat`, `Complete`, `OffsetExplained`, `FeedEnds` |

Every passing run also checks its module's `TypeOK`, except `TaskStoreOcc`, whose
module has it in `TaskStoreAll`, and `RateLimiterSafe` and `FeedAll`, for whose
modules it is proved.

Violations, each of a sentence in the repository's README, a comment or a test:

| run | property | what TLC's trace shows |
|---|---|---|
| `TaskStoreLostUpdate` | `OneWinner` | two field PATCHes read version 1, both write version 2, both answer 200 |
| `ProjectsStaleFill` | `EvictedAfterUpdate` | a GET reads, a PATCH commits, evicts and answers, the GET then fills the cache |
| `AuthTokensDoubleRefresh` | `SingleRotation` | two refreshes pass the blacklist check before either revokes |

### Bounds

Requests are used once, so their number bounds a behaviour's length. Every race
named above needs two writers of one row and one request that creates it; a fourth
request, where there is one, is an outcome that must be impossible. Two tasks,
projects or organizations are what is needed to confuse them. `MaxExpected` is 2: a
task or project is at version 1 when it has been created, so 2 is a version named in
advance until the first update has committed, and the current one after it; a
request that names a version which never comes answers 409 like one that names
2 while the row stays at 1. In `AuthTokens` two
ticks per second make a last second with a middle, and 6 ticks reach past the
expiry of a token issued at the start while its successor is still good. In `RateLimiter` a
window of 3 and a delay of 1 leave room for a request on each side of the
boundary, 6 ticks are two windows, and five requests are two more than the limit
needs. Two sockets and two
listeners let one socket of a room fail while the other listens, and a room be
torn down and made again while its first listener is still ending; two nodes let
one event reach two listeners. In `Discussion` one task, one note written before
its deletion and one after are what the purge can miss. In `Feed` three rows make a
walk of three pages of one row, and pages of two rows that are exactly full or one
row over; three timestamps let a row arrive before, between and behind the others, and
two rows share one. In `Tenancy` a worker can be lost as often as `max_tries` allows,
and once more. `MaxNow`, `MaxEvents`
and `MaxExpected` are bounds of the models, not of the code.

The models end: when no request is in progress `Quiet` stands for a server that
waits, so TLC's deadlock check stays on and finds handlers that block for ever.

### Fairness

- `WF(Step(r))` for each request: the event loop resumes a coroutine whose
  awaited call has returned, and PostgreSQL and Redis answer or fail. No fairness
  for the arrival of requests, for `Fail` or for errors.
- `WF(Sweep)`: the worker runs the job every day (`arq_app.py`, cron at 03:00).
- `WF(Walk)` in `Feed`: the server answers and a client that has a cursor asks on.
  Commits and spoiled cursors are not fair. `FeedEnds` holds because every page
  moves the cursor and the rows that a bounded table can bring in front of it run
  out; it says that the server never hands out a cursor that leads nowhere.
- `WF` for the listener's steps and for `Join` and `Leave`: the event loop again.
  Nothing is fair about clients that go away, endpoints that die or events that are
  published; `DeadReaped` therefore speaks of an event that is already queued.

Symmetry is used only in the runs without a liveness property. Ids are interchangeable; statuses, users of
`Discussion` and roles are not and are left out of the symmetry sets.

## Theorems

`TaskStoreProofs`, for any sets of requests, tasks and statuses, from the
assumption that `None` and `Backlog` are what their names say:

- `TypeCorrect`: `TypeOK` is inductive on its own.
- `Invariance`: `IInv` is `TypeOK` with
  `FlowInv` (which handler can be at which statement),
  `LockInv` (the lock of a row is held by exactly the transaction about to commit it),
  `PendingInv` (what the UPDATE matched is still so),
  `DeleteInv` (a committed delete is of a gone task and the only one),
  `PublishInv` (a handler about to publish holds what its audit entry says), and
  `EventTruthful`. The properties are not inductive alone: between UPDATE and
  COMMIT a handler relies on nobody else having written the row, which is
  `PendingInv`, which needs the lock to be its own, which is `LockInv`.
- From it `DeletesOnce`, `EventsTruthful`, `TombstonesFinal`, `StatusByOcc`.
- Where `"fields"` is not in `Kinds`: `OccInvariance`, with `OccInv` of `SeenInv`
  (what a status handler has read is not newer than the row, not older than the
  version the task had when the request came, and some audit entry left it),
  `AuthorInv` (whoever has an audit entry has begun, so its request no longer changes), `AppliedInv` (whoever succeeded has
  an entry for the version after the expected one), `AbsentInv` and
  `AuditReplay`. From it `OneWinnerOcc` (two winners would own the same entry),
  `AuditReplays`, and `Refinement`: initial states map to initial states, each
  commit and each sweep to one step of `VersionedTask`, everything else to a
  stutter. None of it bounds the versions that clients name: that the UPDATE matched
  the row fixes the version it leaves, and the version the task had at the request
  fixes how stale the read can be.

`RateLimiterProofs`, for any finite set of requests, any positive limit and
window, any delay:

- `TypeCorrect`: `TypeOK` is inductive on its own.
- `Invariance`: `IInv` is `TypeOK`, `DelayInv` (a transaction runs within
  `MaxDelay` of its clock reading) and `RememberInv` (whoever ran less than
  `Window - MaxDelay` ago is still in the set, and the key has not expired), for
  every request whose transaction ran, answered or not.
- `NeverOverLimit`: the last of a set of admitted requests that ran close
  together counted all the others.
- `NeverRefusedWithoutCause`: the members counted besides the request itself ran
  before it and were stamped within its window.

`MaxDelay` is a hypothesis about the deployment: the code bounds it only by
Redis' timeouts. The theorem speaks of `Window - MaxDelay` because a late transaction
with an old timestamp is invisible to one that has already run.

`FeedProofs`, for any finite set of rows, any timestamps and any page sizes, where
rows and timestamps are numbers and `None` and `Damaged` are no cursors:

- `TypeCorrect`: `TypeOK` is inductive on its own.
- `Invariance`: `IInv` is `TypeOK`, `StandInv` (a walk without a cursor has not begun
  or has ended, what it has met exists, what is kept is visible), `CursorInv` (what
  was shown does not lie behind the cursor, and whatever of the kept rows does not
  lie behind it was shown), `NoRepeat` and `Complete`. The properties need
  `CursorInv`: the next page takes only rows behind the cursor, so none that was
  shown, and the first of them, so that what it leaves out lies behind its last row
  (`SliceFacts`, `BeforeOrder`).
- From it `WalksNeverRepeat` and `WalksAreComplete`, for the task feed and the
  comments.
- `OffsetInvariance`, for the walks by page number, on top of `IInv`: as long as no
  row has come, the rows up to any row shown are no more than the pages read
  (`Upto` counts them); as long as none has left, a kept row that was not shown
  has at least the pages read in front of it. Both are about ranks, because an
  offset is one: a row that comes moves those behind it towards the next page, one
  that leaves moves them to the page before. `PagesExplained` follows with
  `PagesSuffice`, that `total_pages` times the page size is at least `total`.

`AuthTokensProofs`, for any requests, tokens, lifetime and ticks per second:

- `Invariance`: `IInv` is `TypeOK`, `FlowInv`, `ReachInv` (a TTL that is on its way to
  Redis, and every key that was stored, reaches into the last second of its token)
  and `SettledInv` (a handler that issues a new pair, or has answered without a
  Redis error, has the old token revoked or in its last second). `ReachInv` has to
  speak of the TTL in flight: it is computed from a clock that is read before the
  SET, and the SET can only come later, so the key can only last longer.
- From it `RevocationHolds`.

`ProjectsProofs`, for any requests, organizations, projects, keys and columns, any
choice of audited columns, with and without cache faults:

- `Invariance`: `IInv` is `TypeOK`, `FlowInv`, `LockInv` (a transaction about to
  commit has its row's lock), `InsertInv` (the row of an open INSERT is absent, its
  key free, and no other open INSERT has it), `TenantInv` (what a handler or a cache
  key got past the tenant filter is of that organization), `WriterInv` (the values of a row come from requests
  that have committed), `FillInv` (what a GET is about to cache
  is the committed project, unless an update has overtaken it), `KeyUnique`,
  `ValuesAudited` and `StaleExplained`. The lookup of the key before
  the INSERT appears in none of them: the unique constraint alone keeps keys apart.
- From it `KeysUnique`, `TenantsApart`, `ValuesAreAudited`, `StaleIsExplained`. A
  write of a key settles the causes of one project only because `TenantInv` leaves
  no project with entries under two keys (`KeyWritten`).

`DiscussionProofs`, for any requests, tasks, notes, users and admins among them:

- `Invariance`: `IInv` is `TypeOK`, `FlowInv`, `LockInv`, `NoteInv` (a note is gone
  only with its task), `InsertInv` (the note of an open INSERT is absent and its task
  not purged), `EditInv` (an editor past its check has found a comment that it may
  edit), `StoredInv` (a committed INSERT left the note that the request described),
  `EventInv`, `NoOrphan` and `EventCommitted`. `NoOrphan` needs `InsertInv`, which
  holds because the foreign key check of the INSERT keeps the purge away until the
  COMMIT.
- From it `OrphanFree`, `AcknowledgedKept`, `EventsTrue`.

`WsHubProofs`, for any nodes, sockets and listeners and any number of events:

- `Invariance`: `IInv` is `TypeOK`, `HomeInv` (sockets of a room, and those that a
  listener has still to serve, are on its node), `RosterInv` (a room and its entry in
  `_listener_tasks` come and go together, with `NoDeafRoom` and `ListenerListed`),
  `QueueInv` (what waits is in order, after the event being sent) and `OrderInv`
  (what an open socket has got is older than all that a live listener of its node has
  queued or has still to send to it, and `InOrderOnce`). `InOrderOnce` is about two
  listeners, the one of a room torn down and the one of the room made after it, so
  it needs `ListenerListed`: only one of them is at work.
- From it `ListenersListed`, `RoomsServed`, `EventsInOrder`.

`TenancyProofs`, for any requests, users, organizations, teams, emails, slugs, roles
and columns, and any positive `max_tries`:

- `Invariance`: `IInv` is `TypeOK`, `RequestInv`, `JobInv` (each mail has had a try of
  its own, and no job is there before its 201), `ColumnInv` (a column's value comes
  from a PATCH of that organization that names it), `UniqueInv` (emails and team slugs
  are unique), `OneAnswer` and `Provisioned`. `RequestInv` says of each handler that
  what it names exists (`Asked`), where it can be (`Flow`), that what it found out
  still holds (`Known`) and that what it has inserted and not committed clashes with no
  committed row (`Pending`) nor with what another has inserted (`Distinct`). `Known`
  holds because nothing deletes users, members or teams.
- From it `OneAccount`, `WhollyProvisioned`, `InvitationsHold`, `TeamsStayApart`,
  `MailsBounded`, `ColumnsStay`.

All the proofs assume of the constants only that `None` is none of the values that it
is told apart from (answers included), that `InviteRoles`, `Admins` and the audited
columns are what their names say, and the ranges named above. The inductive
invariants were checked by TLC on the bounds of the runs before they were proved.

Only model-checked is liveness: `Answered`, `Delivered`, `DeadReaped`,
`PurgedEventually` and `FeedEnds`. They rest on fairness, and so on
`ENABLED`, which this prover does not reason about.

## Not modelled

- S3 objects and presigned URLs: the server keeps no state about them and never
  looks at S3; the client talks to it directly.
- `send_task_notification` and `CacheService.delete_pattern`: no caller.
- Password hashing, JWT signatures, the WebSocket endpoint's token check: taken as
  correct.
- Lists of projects, members and teams: one statement, one answer.
- Lifespan and health: start and shutdown open and close pools; readiness probes the
  three services anew for each call and keeps nothing. (Its storage probe reports
  healthy also where creating the missing bucket failed.)
- Middleware and error mapping: request ids, headers and the format of errors. The
  models use the status codes, and that unmapped errors are a 500.
- Configuration, logging, telemetry: fixed at start, or output only.
- Schemas: checks of single fields; the models' requests have passed them.
- Migrations and deployment: the constraints they make are in the models (`Taken`,
  `UniqueKey`, foreign keys in `Sweep`).

What is left of the source has no state that outlives a request and no step that
another actor can come between, so a model of it would restate it.

## Plan

Done, in this order: `TaskStore` with its abstract specification and proofs,
`Projects`, `AuthTokens`, `WsHub`, `RateLimiter` with proofs, `Discussion`,
`Tenancy`, `Feed` with proofs, the mail jobs and `PATCH /organizations/current` in
`Tenancy`; then the proofs about `AuthTokens`, `Projects`, `Discussion`, `WsHub`,
`Tenancy` and the offset walks of `Feed`.

Left, modelling: `TaskStore` composed with `WsHub`, from a commit to a client's
screen; what a client that re-reads after each event knows. The two meet only in
`Broadcast`, whose counterpart is `Publish`.

Left, proving: an abstract specification of the hub, a log that each socket has a
part of, and that `WsHub` implements it; of projects, that two PATCHes of one version
both succeed only if both read the row before either commits.
