# TaskFlow in TLA+

Specifications of the TaskFlow API (a multi-tenant task manager: Express,
Prisma on PostgreSQL, BullMQ on Redis), the configurations that model-check
them with TLC, and proofs that TLAPS verifies. Paths are relative to the
repository; `src/src/...` is TypeScript, `src/prisma/schema.prisma` the schema.
`PROJECT.json` holds the line-by-line map from definitions to code.

The code's hard part is that a request is a chain of separate database calls.
The services read, decide, and later write by id, mostly without a
transaction around the whole; Node interleaves requests at every `await`, and
several instances may run. Beside the requests, a queue with retries, a worker
that may die or be told to stop, and a Redis that may be away handle
notifications. Each model
therefore takes one database or queue call per step and lets everything
interleave, and the properties ask what survives that.

## 1. Inventory

| Component | State | Operations | What is hard | What makes it correct |
| --- | --- | --- | --- | --- |
| Accounts and refresh tokens (`modules/auth`) | `users`, `org_members`, `refresh_tokens` (hash, family, `revoked_at`, `expires_at`) | register, login, refresh, logout, logout-all, me | refresh reads, revokes by id and stores the successor in three calls; reuse detection and logout-all are updates over many rows in between | rotation retires the old token; reuse ends the family; a dead family stays dead; documented error codes |
| Task assignment and outbox (`tasks.service.ts` `assignTask`) | `task_assignments`, `outbox_jobs` | commit assignment and outbox row, then add a job | the add is outside of the transaction; Redis or the process may be gone by then | no job without a committed assignment; committed rows are enqueued in the end; nobody outside an organization is mailed about its tasks |
| Notification queue and worker (`src/src/jobs`) | BullMQ job states, dead-letter queue, rows of `outbox_jobs` | add, run, retry with backoff, fail, copy to the dead-letter queue, settle rows | at-least-once runs, stalls after a worker's death, outages of Redis, a listener nobody waits for | bounded number of mails; every job settles, and a row of its own assignment with it; the dead-letter queue holds exhausted jobs |
| Projects, tasks, comments (`modules/projects`, `modules/tasks`, `modules/comments`) | `projects`, `tasks` (both soft-deleted), `task_assignments`, `comments` | create, update, delete, bulk update, assign, unassign, comment | checks and updates by id are different calls; a project or a task may be deleted, a membership lost in between | writes stay in the writer's organization; whoever left it stays out; soft deletion holds |
| Authentication and roles (`middlewares/auth.ts`, `rbac.ts`) | `req.user`, `req.authOrg` | authenticate, requireRole | the role is read once and used until the request ends | see the row above |
| Lists and pagination (`findManyCursor`, `findManyOffset`, `utils/pagination.ts`) | none of its own | pages by cursor or by offset | the table changes between pages, and between a page and its total; tied rows have no fixed order | no repeats by cursor; what may be repeated or missed, and when |
| Dashboard (`getDashboardStats`) | none | four counts | each count sees another moment | how far the counts may drift apart |
| Job status endpoint (`modules/jobs`, `getJobStatusById`) | none | poll a job by its id or by the id of its copy | the job is read in one call and its state in a later one; completed jobs are dropped by the thousand | an end once told is not taken back; a client that polls on learns the end |
| HTTP rate limiter (`rateLimiter.ts`) | hits and reset time of an address, in memory | count, admit or refuse | two windows meet inside one minute; a restart forgets | a bound for every sliding minute; nobody is refused who did not use the limit up |
| Health report (`healthService.ts`, `app.ts`) | none | `SELECT 1`, `PING`, four calls to the queue, overall status, status code | six calls at six moments over three connections; a call to Redis may wait for ever or be refused | what it says was true at some moment of the request; it ends |
| Start-up and shutdown (`server.ts`, `worker.ts`) | the process | start, signal, close, forced exit | requests that hang, listeners nobody waits for | a process that was told to stop stops |
| Error handler | none | error to code | the unique index behind a check | modelled where a property needs the code |
| Validation, passwords and token encoding, views, logging, configuration, seed | none, or a library's | - | - | not modelled |

How they interact. `authenticate` precedes every project, task and comment
request and gives it organization and role. `assignTask` is where the tables
of tasks meet the outbox and the queue (`Assignments` composes the two); the
worker writes back to the outbox only. The job status endpoint reads the
queue the worker empties. Lists and the dashboard read the tables that the
task and project services write. Sessions share only `users` and
`org_members` with the rest. The rate limiter precedes `/auth/register` and
`/auth/login` and is forgotten when the process ends.

## 2. Modules

| Module | What it is |
| --- | --- |
| `Sessions` | accounts and refresh tokens; request slots `Req`, one database call per step |
| `Families` | what a token family promises to its user; `Sessions` implements it |
| `Notifications` | from the assignment's transaction to the mail and the dead-letter queue, with the worker process |
| `Delivery` | what the queue promises to its producer; `Notifications` implements it |
| `JobStatus` | extends `Notifications` with a client that polls a job |
| `Workspace` | projects, tasks, assignments and comments of several organizations, with the middleware |
| `Assignments` | composes `Workspace` and `Notifications`: one transaction writes assignment and outbox row |
| `Reads` | cursor scans, offset scans and the dashboard over a changing table |
| `RateLimiter` | the counter in front of `/auth`; `Server` implements it |
| `Server` | the API process: rate limiter, health report, signal, exit and restart, while services come and go |
| `MCSessions`, `MCNotifications`, `MCJobStatus`, `MCWorkspace`, `MCAssignments`, `MCReads`, `MCServer` | instances for TLC: symmetry sets, memberships |
| `SessionsProofs`, `NotificationsProofs`, `JobStatusProofs`, `WorkspaceProofs`, `AssignmentsProofs`, `ReadsProofs`, `ServerProofs` | theorems and proofs |

Definitions marked `Faulty:` are not part of a specification. Each is a
plausible bug in the definition that follows it; putting it in that
definition's place makes a named property fail, which shows that the property
depends on the code it is about.

### Sessions

A request `r` has a program counter `pc[r]` (the next database call), and what
it has read: `who[r]`, `tok[r]`, and whether the row came with a membership
(`homed`). `RefreshLookup` is `findRefreshTokenByHash`; its verdict (`reuse`,
`expire` or `rotate`) is acted on by a later step without another look, as in
`AuthService.refresh`. `RefreshRotate` revokes by id and only then turns away
a user without a membership, `RefreshReissue` stores the successor. A family
is named by its first token. Tokens are model values: hashes and signatures
are not modelled, and a client may present any token ever issued to it. `Abort`
is a server that dies or a statement that fails between two calls; a slug that
collides on registration is one such failure. `Expire` and `LoseMembership`
are time and an operator. `expired` is read once by refresh, so time passes
between steps. History variables (`parent`, `compromised`, `signedOut`,
`late`, `raced`, `forked`, `traffic`) are used by properties only; `traffic`
turns to `overlapping` when a request starts while another is under way.

`Families` is the abstract specification: a family is a session that a login
opens for one user, in which tokens are issued while it is open, and that is
never open again once it is over; one step ends sessions of one user only. The
mapping calls a family `over` when it has neither an unrevoked token nor a
rotation under way. It hides requests, expiry, crashes and which token of a
family is the live one - the last because two refreshes of one token do fork a
family (`double_rotation`), so a stronger promise would be false.

### Notifications and Delivery

`AssignCommit` is the transaction of `assignTask`. `Enqueue` computes the job
id (task, assignee, window of the clock), and `Add` is Redis accepting the
job, or doing nothing for an id it knows. A job goes `waiting`, `sending`
(picked up), `sent` (mail out, `sendMockEmail` returned), `marked` (outbox
updated), `completed`; `AttemptFails` is an exception in the first two. The
attempt is counted by `CountFailure`: attempts includes the first run, so
`attempts: 3` is two retries. The `failed` listener runs on its own
(`failed[k]`): `DlqAdd`, then `MarkFailed`, or `ListenerGivesUp` (a call threw).

The worker process is `running` or `closing`. `WorkerSignalled` is SIGTERM or
SIGINT: `worker.close()` picks no more jobs up and `WorkerExits` when those it
runs are over. It does not wait for the listener, so a listener between the
failure and its last call is `cut`. `WorkerDies` is a crash, which leaves the
running jobs to the stall check as well. A supervisor starts the next worker.

BullMQ is external and modelled from its use here. A worker that dies leaves
its jobs `stalled`; up to `MaxStalls` times (default 1) they wait again, after
that `StallLimit` fails them, counting one attempt as BullMQ does when it
picks such a job up. A settled job keeps its id from being added again:
`removeOnFail` is false, and completed jobs are kept by the thousand, far
beyond the five seconds in which an id can recur. The worker's limiter (50
mails a minute) delays pick-ups and nothing else, which a step that may wait
already covers. With `maxRetriesPerRequest: null` a queue command waits for
Redis, so the steps that talk to Redis are disabled while it is down, and the
database steps are not.

`Delivery` has two variables, `phase` and `sent`, and four actions: a job is
taken once, mailed at most `MaxMails` times while open, and completed (after a
mail) or given up, once. The mapping sends all states between `absent` and
`completed` or `failed` to `open`, and `mails` to `sent`.

### JobStatus

`JobStatus` extends the queue with the three calls of `getJobStatusById`:
`FindJob` in the main queue, `FindDeadLetter` if it is not there, and
`ReadState`, `job.getState()`, later. What the first read returned (finish
time, reason) is kept as `details`, so an answer joins two moments. `Evict`
drops a completed job, since `removeOnComplete` keeps the latest thousand;
which job is dropped when is left open. An id is that of a job or `dlq_...`
of its copy. `PollFails` is an exception, answered by the error handler.

### Workspace

A request is `routed` once `Authenticate` has read the user and membership;
`actor`, `org` and `rank` are `req.user` and `req.authOrg`. A request
keeps only what a later call of it reads: `requireRole` is the last to look at
the role and only a comment names its author, so `Continue` forgets `rank` and
otherwise `actor`. Every handler is a
check step (`ProjectCheck`, `CreateTaskCheck`, `TaskCheck`, `BulkCheck`: the
reads of `getProjectById`, `createTask`, `getTaskById`, `bulkUpdateStatus`)
followed, after further look-ups of memberships, by a write step that uses
only what the checks let through. `UpdateProject` and `DeleteProject` match
organization and deletion again in their WHERE clauses, as the repository
does; the task updates go by id. `BulkUpdate` leaves out tasks that were
deleted since its check, because its UPDATE says so. `Refuse` stands for every
error and for a death of the process. Memberships only shrink or change role
(`ChangeRole`): the API has no call that adds one to an existing organization.
Titles, due dates and priorities are left out here; `status` stands for the
columns an update by id may set. Outbox rows are in `Notifications`.

### Assignments

`Assignments` instantiates both modules over one set of variables. `AssignTask`
is the conjunction of `Workspace`'s `Assign` and `Notifications`'
`AssignCommit` for the same task and user: one `$transaction` in the code. The
request slot then goes on to the queue (`call[r]`), and takes no other request
before it is done. `createTask` with `assigneeIds` writes assignments and no
outbox rows; `born` records those. `Silent(u, o)` is the end of a membership
as the mail server sees it: `u` has left `o`, no request past the look-up of
the membership or busy with the queue names `u` there, and no such job is open. Every other step is a step of one part.

### Reads

The table is `state`, `place` and `gone`: a row's state, its position by due
date and creation time, and the project's deletion. `Create`, `Change`,
`Reschedule` and `DeleteProject` are what the services do to it, in any order,
each an atomic statement. A task's number is its id; ids are random, so a new
task may appear anywhere in id order. Other filters (assignee, priority, text)
make tasks join and leave a list in the same way as the status does.

One client at a time reads. `CursorPage` is `findManyCursor` with
`buildCursorPaginationResponse`: rows with ids from the cursor on, one row
skipped, `Limit` returned, and a further row as the sign that there is more.
PostgreSQL skips the first row of the result, which is the cursor's own only
if that still matches the filter. `OffsetData` and `OffsetTotal` are the two
statements that run side by side; a client asks for the next page while pages
are full. The dashboard's statements run in the code's order, the last two side
by side. `steady`, `came`, `left`, `moved`, `stale` and `repeated` measure what
happened meanwhile.

`findManyOffset` orders by `dueDate`, which may be null, and `createdAt`,
which counts milliseconds: nothing makes the order of tied rows unique, and
PostgreSQL may find them in another order in each query. `place` is that pair
of columns, several tasks may have one place, and `Heads(n)` is the set of all
sets that the first `n` rows may be. `OffsetData` skips one of them and takes
another around it. A page whose start falls between tied tasks is noted in
`split`: such a scan may repeat or miss tasks in a list that does not change
at all, and the two properties of offset scans say so.

### RateLimiter and Server

`RateLimiter` is `express-rate-limit` with its memory store, as
`authRateLimiter` configures it: `WindowAfter(a)` is what `increment` makes of
an address's hits, a refused request counts, and a window is opened by the
first request after the end of the last one. `admitted` is history.

`Server` adds the process. `Arrive` is a request to `/auth`, `Served` its end.
One health request at a time goes through `SelectOne`, `Ping`, `IsPaused` and
three `Count`s; `report` holds what each has found out. PostgreSQL answers or
refuses. `redis` is the connection of `redisClient`, which is pinged, and
`queue` the connection that BullMQ opens for the queue (`queue.ts:22`); each
is `up`, `away` (with `maxRetriesPerRequest: null` a call waits) or `refusing`
(connected, but calls fail, as while Redis loads its data), and either may
fail without the other. An answer other than `PONG` is `degraded`, and so is
a paused queue; a count that fails is reported as 0. `seen` records the
states of each service during the request. `gracefulShutdown` is
`Signalled`, after which requests on connections that are kept alive still
come in, then `Closed` (the callback of `server.close`) or `ForcedExit`
(the timer of ten seconds, which may run out at any time here). `Start` empties
the limiter's store.

## 3. Runs

| Run | Instance | Checks | States |
| --- | --- | --- | --- |
| `sessions` | 1 user, 3 tokens, 2 requests | `SuccessorRetiresParent`, `ForkNeedsStaleRotation`, `WipeSurvivorsRaced`, `SerialRotation`, `SerialReuse`, `SerialLogoutAll`, `OnlyOwnersRevoke`, `KeepsSessions` | 1,055,079 |
| `notifications` | 2 tasks, 2 users, 2 rows, 2 windows, 2 requests, 2 attempts, 2 stops of the worker, 1 outage | `JobsMatchRows`, `MovesRunOut`, `MailsBounded`, `DlqHoldsExhausted`, `MissingDeadLettersExplained`, `DispatchedTaskMailed`, `FailedTaskDead`, `JobsSettleTheirRows`, `KeepsPromise` | 1,461,084 |
| `job_status` | 1 task, 1 user, 1 row, 1 request, 3 stops, 2 outages, fairness | `DetailsNeverAhead`, `EndsAreFinal`, `JobsSettle`, `PollerLearnsEnd` | 212,855 |
| `workspace` | 2 organizations, an administrator of one and a member of both, 1 project, 1 task, 2 requests | `TenantWrites`, `LeaversStayOut`, `ClosedProjectStaysClosed`, `ClosedTaskStaysClosed`, `AuthorityEnds` | 1,234,143 |
| `assignments` | 1 organization, a member and a stranger, 1 project, 1 task, 1 row, 2 requests | `AssignmentsHaveRows`, `DeletedTasksStayQuiet`, `LeaversGetNoMail` | 447,828 |
| `reads` | 3 tasks at 2 places, pages of 1 | `CursorNeverRepeats`, `CursorMissesOnePerStaleCursor`, `OffsetRepeatsNeedArrivals`, `OffsetMissesNeedDepartures`, `PageFitsTotal`, `DashboardDrift` | 6,916,863 |
| `server` | 1 address, limit 2 in 2 seconds, clock up to 2, 1 restart, 2 changes of services, fairness | `MinuteBound`, `RefusalsAreEarned`, `HealthIsHonest`, `ShutdownEnds`, `HealthRequestsEnd` | 890,940 |

Type invariants are not run, as they are proved; nor are `NoPhantom` and
`DeadFamilyStaysDead`, which are proved too and which `JobsMatchRows` and
`KeepsSessions` go beyond.

What they show.

- *Sessions.* Whatever two requests, expiry and crashes do, a successor exists
  only once its predecessor is revoked; a family has two unrevoked tokens only
  after a rotation that revoked an already revoked token; an unrevoked token
  of a wiped family descends from a rotation that was under way at the wipe;
  and a family without unrevoked tokens and rotations never gets one again
  (`KeepsSessions`). A token is revoked by requests of its own user only: by
  logout-all, by reuse in its family, or because it was presented itself.
  As long as requests have not overlapped, the plain promises hold (`Serial...`).
- *Notifications.* Every job stems from a committed row of its own, so no
  assignment is multiplied. Every move of a job leaves it with fewer moves:
  retries, stalls, crashes and outages in any mixture cannot keep one going for
  ever. A job mails at most `Attempts + MaxStalls` times, and is in the dead-letter queue only with its
  attempts used up. A failed job is missing there only while the listener is
  busy, when it was cut off, or when the job stalled out with attempts left:
  three reasons, the last two for good. A dispatched row has a mail about its
  *task*, a failed row a dead-lettered job of its *task* (not more: see below).
  What jobs of other assignees do to the rows of a task never hides a job's own
  end: a completed job has a settled row of its own assignment, and one that
  the listener has dealt with has a failed one (`JobsSettleTheirRows`).
- *Job status.* Every job that Redis took settles. A client that was told
  `failed` is told so for ever, and `completed` until the job is dropped. The
  details of an answer are older than its status, never newer. A client that
  polls on learns the end, or the job has been dropped.
- *Workspace.* No order of calls writes to another organization's objects,
  although most updates are by id. A membership may end between the look-up
  and the write, so a request past that point still assigns; once there is
  none, whoever left is assigned to nothing more and comments on nothing
  (`LeaversStayOut`). A deleted project
  or task stays as it is from the moment no request is past its check of it.
  The role that `authenticate` read is never read again, but its power ends
  with the request: an organization without members and requests of theirs does
  not change any more, and without administrators no project of it is deleted.
- *Assignments.* Every assignment that `assignTask` made has its row. Who
  has left an organization is still mailed by what was past the look-up of the
  membership then, and never after that, although checks, transaction,
  enqueueing and mail are far apart (`LeaversGetNoMail`). A deleted task that
  no request and no open job is busy with is never mailed about again; until
  then it may be, as neither the add nor the worker looks at the task.
- *Reads.* A cursor scan repeats nothing and misses at most one steady task
  for each cursor that went stale. An offset scan repeats only when tasks
  arrive or move, and misses only when tasks leave or move - or when one of its
  pages begins between two tied tasks, which the order of the code allows.
  Counts disagree
  by at most the tasks created or deleted meanwhile; a completion rate above
  100 per cent (which is possible) needs a deletion. In a quiet list an offset
  scan without such a page returns exactly the list (`QuietScans`, proved from
  these).
- *Server.* In any sliding window an address has at most `2 * Max - 1` requests
  admitted (19 in a minute with the code's 10), and is refused only after `Max`
  admissions in the last one. A 200 of `/health` means that PostgreSQL and Redis
  were both up during the request, if not at once, a 503 that one was not. The
  queue may fail alone and for long, and the overall status leaves it out; but
  its own entry of the report says `down` only if it refused, and anything else
  only if it was up, at some moment of the request. A
  process that was told to stop stops, even with a health request that hangs;
  unless one of the connections to Redis stays away for good, health requests end.

Bounds. Two request slots are enough for every race here, which is between two
requests; a third adds no new kind of step. Three tokens are a login, its
rotation and a second rotation of the same token or of its successor; or two
logins and a rotation, which is what logout-all has to end. One stop of the
worker makes a job stall, two reach the stall limit, the third of `job_status`
comes while the listener is busy. Two rows, two tasks and two windows are the
smallest numbers with two jobs for one task as well as jobs of two tasks, and
two users with jobs of two assignees of one task. `Concurrency` is the code's 5
in `notifications` and 1 elsewhere. The project and the task of `workspace` may
belong to either organization; alice administers one, bob is a member of both
and may lose either membership, or be promoted. `assignments` has the faults of
the queue off (`notifications` has them) and asks what the tables and the queue
say of each other; its stranger is never a member, and may still be sent as an
assignee, while alice assigns herself and may leave at any point of that.
`reads` has three pages of one row, so a scan can lose and gain on both sides of
its position, and two places for three tasks, so that some are tied. `server`
has two windows that meet, and a service or connection that leaves and returns
within one report, or two of them that fail one after the other. `WindowLength =
1`, not 5: a window is what matters, not its seconds. `Attempts` is the code's 3
in `job_status`, 2 (one retry and a last attempt) in `notifications` and 1 in
`assignments`; `MaxHits` caps the counter of refused requests one above the
limit. The theorems below hold without these bounds.

`sessions` has one user, whose families and requests do all the racing; that
one user's requests leave another's families alone, which `KeepsSessions` and
`OnlyOwnersRevoke` also say, is proved for any users and not model-checked
(two users make the run several times as long).

Symmetry is used only by runs of invariants and action properties, never by
runs of liveness. Runs of `Notifications`, its compositions and `Server` do not
look for deadlock: rows, the clock and restarts are bounded, and finished work
stops.

### Where code and documentation disagree

These runs have one property, stated by a document, comment or message of the
repository, and a counterexample.

| Run | Property | What happens |
| --- | --- | --- |
| `reuse_race` | `ReuseWipesFamily` | a rotation in flight stores its successor after reuse detection revoked the family (`auth.service.ts:143`) |
| `double_rotation` | `ReuseDetected` | two refreshes read one token unrevoked, both rotate it, nobody is alarmed (`auth.service.ts:156`) |
| `duplicate_email` | `DuplicateIsConflict` | overlapping registrations of one address: the unique index rejects one, answered with `INTERNAL_SERVER_ERROR`, not 409 (`errorHandler.ts:45`) |
| `rows_pending` | `RowsReconciled` | a request that dies or is rejected before its add leaves the row pending; there is no outbox processor (`tasks.service.ts:256`) |
| `deleted_project` | `TasksBornInLiveProjects` | a project is deleted between `createTask`'s check and its insert (`tasks.service.ts:64`) |

Seen while modelling, without a run of their own: logout-all has the race of
`reuse_race` (`WipeSurvivorsRaced` covers both); a failed add to the
dead-letter queue is logged and lost (`worker.ts:127`); an assignment waits
for Redis rather than returning `enqueued: false` (`redis.ts:11`);
`attempts: 3` is two retries, where ARCHITECTURE 6.2 lists three; a mail marks all pending rows of its task as
dispatched, those of other assignees too (`worker.ts:60`), so that
`DispatchedTaskMailed` is all that a row says; a failing
job marks all rows of its task as failed, dispatched ones too
(`worker.ts:112`); the five-second window is cut at multiples of five, so two
assignments a moment apart may both mail (`queue.ts:51`); a bulk update that
races a deletion is partial, yet reports the full count (`tasks.service.ts:166`);
`createTask` with `assigneeIds` assigns without an outbox row
(`tasks.repository.ts:17`), though ARCHITECTURE 6.1 speaks of every assignment;
ten requests a minute are nineteen at worst (`rateLimiter.ts:8`); the overall
health ignores a queue that is down (`healthService.ts:134`), and `/health`
hangs while a connection to Redis is away (`healthService.ts:87`); an offset
page has no stable order of tied tasks (`tasks.repository.ts:108`); a job that stalls out with
attempts left is never copied to the dead-letter queue (`worker.ts:90`); a
graceful end of the worker may cut that copy off (`src/src/worker.ts:17`).

## 4. Fairness

`Progress` of `Notifications` assumes weak fairness of a request's own next
call, of each job's processing, of the queue's timers and of the listener;
`PollFairSpec` of `JobStatus` adds Redis's recovery, the worker's exit after a
signal, and the client. The event loop runs every continuation that is ready,
BullMQ polls and checks for stalls on timers, and `retryStrategy` reconnects
for ever with a delay of at most two seconds; the outage itself is assumed to
end, and stops are boundedly many (a supervisor restarts the worker). Fairness
is on the disjunction of outcomes (`Add` or `AddRejected`; all of
`Process(k)`), so nothing is assumed about the mail server or the database
succeeding, and a job that fails every time settles as failed. The client asks
on for the id it asked for; its calls may fail (`PollFails`) but not for ever,
which is the strong fairness of `FindJob` and `ReadState`. Nothing is fair about
`AssignCommit`, `Evict`, `Tick` or faults.

`FairSpec` of `Server` assumes that a call of a health request ends if its
connection is not away, that requests to `/auth` end, and that the callback
and the timer of the shutdown run. Neither connection to Redis need come back:
`ShutdownEnds` does not ask for it, and `HealthRequestsEnd` names the
condition, for both connections, in its statement. Nothing is fair about
signals, crashes, starts or services.

`FairSpec` of `Notifications` (the same without client) serves `rows_pending`.
The other modules make no liveness claims.

## 5. Proofs

For every value of the constants, from the assumptions stated beside them.

| Theorem | Statement |
| --- | --- |
| `SessionsProofs!TypeCorrect` | `Spec => [](TypeOK /\ RequestInv)` |
| `SessionsProofs!RotationRetires`, `ForksAreStale`, `WipesAreThorough` | `SuccessorRetiresParent`, `ForkNeedsStaleRotation`, `WipeSurvivorsRaced` |
| `SessionsProofs!DeadStaysDead`, `OnlyOwnersRevokeHolds` | `DeadFamilyStaysDead`, `OnlyOwnersRevoke` |
| `SessionsProofs!SessionsAreKept` | `Spec => KeepsSessions`: `Sessions` implements `Families` |
| `SessionsProofs!SerialRotationHolds`, `SerialReuseHolds`, `SerialLogoutAllHolds` | the promises of a server without overlapping requests |
| `NotificationsProofs!TypeCorrect`, `NoPhantoms`, `MailsAreBounded`, `DeadLettersAreExhausted`, `DeadLettersAreAccountedFor` | `TypeOK`, `NoPhantom`, `MailsBounded`, `DlqHoldsExhausted`, `MissingDeadLettersExplained` |
| `NotificationsProofs!DispatchedMeansMailed`, `FailedMeansDead`, `JobsSettleTheirRowsHolds` | `DispatchedTaskMailed`, `FailedTaskDead`, `JobsSettleTheirRows` |
| `NotificationsProofs!JobsStemFromRows`, `MovesAreBounded` | `JobsMatchRows`, `MovesRunOut` |
| `NotificationsProofs!QueueKeepsPromise` | `Spec => KeepsPromise`: `Notifications` implements `Delivery` |
| `JobStatusProofs!PollsLeaveQueueAlone` | `PollSpec => Spec`: `JobStatus` implements `Notifications` |
| `JobStatusProofs!PolledQueueDelivers` | `PollSpec => KeepsPromise /\ []JobsMatchRows /\ MovesRunOut` |
| `JobStatusProofs!PollTypeCorrect`, `DetailsLag`, `EndsStayTold` | `PollTypeOK`, `DetailsNeverAhead`, `EndsAreFinal` |
| `WorkspaceProofs!TypeCorrect`, `WritesStayInTenant`, `LeaversStayOutHolds` | `TypeOK`, `TenantWrites`, `LeaversStayOut` |
| `WorkspaceProofs!ProjectsStayClosed`, `TasksStayClosed`, `AuthorityEndsHolds` | `ClosedProjectStaysClosed`, `ClosedTaskStaysClosed`, `AuthorityEnds` |
| `AssignmentsProofs!PartsRun` | `Spec => W!Spec /\ Q!Spec`: what is proved of a part holds of it in the composition |
| `AssignmentsProofs!AssignmentsAreDelivered`, `TenantsStayApart` | in the composition: the three results on jobs, the five of `workspace` |
| `AssignmentsProofs!AssignmentsHaveRowsHolds`, `LeaversGetNoMailHolds`, `DeletedTasksStayQuietHolds` | the properties of those names |
| `ReadsProofs!TypeCorrect`, `ScansNeverRepeat`, `MissesHaveStaleCursors` | `TypeOK`, `CursorNeverRepeats`, `CursorMissesOnePerStaleCursor` |
| `ReadsProofs!DeparturesRepeatNothing`, `ArrivalsHideNothing`, `PagesFitTotals` | `OffsetRepeatsNeedArrivals`, `OffsetMissesNeedDepartures`, `PageFitsTotal` |
| `ReadsProofs!CountsDriftWithTheTable` | `DashboardDrift` |
| `ReadsProofs!QuietScans` | `Spec => []QuietScansAreExact` |
| `ServerProofs!ServerLimits` | `Spec => LimiterSpec`: the server implements the limiter |
| `ServerProofs!TypeCorrect`, `MinuteBoundHolds`, `RefusalsAreEarnedHolds`, `HealthIsHonestHolds` | the invariants of `Server` |

Along which arguments:

- *Sessions.* `RequestInv` ties a request's program counter to what it holds
  (a rotation about to reissue has revoked its token); `FamilyInv` says that a
  family is named by a row of its one user, so that a fresh token starts a
  fresh family. Forks need `ForkInv`: without a stale rotation, at most one
  token or pending rotation can carry a family on. Wipes need `WipeInv`: a
  rotation under way in a wiped family is late or works for a raced token.
  None of the properties is inductive alone, as each says nothing of the
  rotations in flight. `SerialInv` (nothing was forked, raced or late yet, and
  one request at most is busy) reduces the serial promises to these.
  `RevocationStep` lists who revokes what; `OneUser` draws from it that a step
  ends sessions of one user. The refinement then has a lemma for each action
  of `Families`: `StartRefines`, `IssueRefines`, `EndRefines`. Its point is
  that a family's name is a token of the family (`family[family[t]] =
  family[t]` in `FamilyInv`), so that a family is named once, and `DeadStep`,
  that a dead family has no rotation left that could issue in it.
- *Notifications.* `JobInv` relates a job's state to its attempts, stalls and
  listener; `MailInv` bounds mails by the runs that are over, each of which
  cost an attempt or a stall; `RequestInv` says that a request works for a
  committed row. The refinement is proved action by action under these. For
  the rows, `EvidenceGrows` (mails and dead letters are never taken back) and
  `RowsChange` (which step gives a row which status) carry the argument.
  `JobsSettleTheirRows` forgets the job that is marked and not completed yet;
  `OwnRowInv` adds it, `JobsEnd` says who marks a job and who is done with it,
  and `SettledRowsStay` that no other job takes a settled row back.
  `JobsMatchRows` is not inductive, as it forgets the requests that have
  committed and not added yet: `SourceInv` gives each of them a row that is its own
  and no job's, and the job it adds takes that row over. `MovesRunOut` needs
  `JobInv`'s bound on stalls (one more than allowed, the stall that fails the
  job) and a measure: six moves for each attempt and stall left, plus the
  distance of the state from its end (`Stage`).
- *Job status.* `ToldInv` relates what a client was told, and what a request
  under way has read, to the queue; `SettledStays` says that a settled job
  never moves again, which is why an end may be told. `PollsOnlyRead`: a poll
  is a stutter of the queue.
- *Workspace.* `CheckInv`: what a check let through still belongs to the
  request's organization when it is used, since organizations and projects of
  objects never change. `TaskInv`: tasks belong to existing projects.
  `AuthorityEnds`: `OthersUntouched` says that a step changes data of the
  organization of its request only, `RolesShrink` that nobody without a membership gets one, and
  `ContextsComeFromChecks` that a request gets its rank from a membership of
  that moment and its people from a look-up. `LeaversStayOut` follows in two
  parts: whoever has left has left for good (`LeftForGood`), and a request of
  the organization names others (`OwnRequestsNameOthers`), while requests of
  other organizations touch none of its tasks (`OtherRequestsStayAway`).
- *Assignments.* By `PartsRun` the invariants of both parts hold. Rows are
  written only for a task and a user that `Workspace`'s checks let through,
  and neither rows nor tasks change owner (`RowsAreKept`, `TasksAreKept`,
  `TasksComeFirst`: the task of a row is older than the row). `QuietStep` goes
  through all steps of a composition in which a task is quiet; `QueueQuiet`
  says the same of a set of pairs, so that it also serves the tasks of one
  organization and somebody who left it, with `NewPairsAreSilent` for what the
  set gains when tasks are created.
- *Reads.* Cursor: `ScanInv`, the cursor of an unfinished scan is at least
  everything returned so far, and `StaleInv`, no more tasks are missed than
  cursors went stale, since a page adds one at most and only then. Dashboard: `DashboardInv`, behind each count stands the
  set that was counted, which differs from the table by what came and left.
  Offset: rows that are tied have no ranks, so the argument is about
  beginnings of the list, sets that nobody else stands before (`Ahead`). A page
  lies between two of them (`PageLies`), and two beginnings are nested if one
  of them ends between tasks that are not tied (`BeginningsNest`);
  `OffsetInv`, what was returned is in a beginning no larger than the pages
  passed unless something arrived; `MissInv`, what was not returned is beyond
  one no smaller unless something left; `PageInv` for the totals; `MetInv`, a scan meets
  nothing but what was there, came or left.
- *Server.* `LimiterInv`: admissions of an address carry their window and
  number, windows do not overlap, and numbers in a window are distinct and at
  most `Max`. A sliding window meets at most two windows, and if it meets two,
  the first admission of the earlier one lies before it, hence `2 * Max - 1`.
  `ReportInv`: what each finished check reported was true when it was made.

Only model-checked: the four liveness properties (`JobsSettle`,
`PollerLearnsEnd`, `ShutdownEnds`, `HealthRequestsEnd`), as fairness and
ENABLED are beyond the prover. Every other property of a run that passes is
proved, for any number of requests, tasks, tokens, rows, addresses, retries
and stops.

## 6. Not modelled

- Request validation (`*.schema.ts`, `validate.ts`) is stateless parsing by a
  library; the modelled requests are those it lets through.
- The memory store of `express-rate-limit`, BullMQ, PostgreSQL and Redis are
  external and modelled from their use here. The limiter's store drops idle
  addresses; an address it forgot and one whose window is over behave alike.
- `errorHandler.ts` is modelled where a property depends on a code (`Answer`,
  `RegisterDuplicate`, `Refuse`); its wording and the development stack are not.
- `responseTime`, uptime and latency of the health report are clock readings
  without a decision.
- Password hashing, JWTs, encodings, HTML views, logging, configuration, the
  seed. An access token stays valid until it expires whatever happens to
  sessions; `Workspace` lets any member authenticate at any time, which covers it.
- Isolation below single statements: PostgreSQL runs each statement, and each
  `$transaction` of the code, atomically at the granularity modelled.

## 7. Plan

Done, in this order: sessions, notifications, workspace, reads; then the
worker's graceful end, job status, rate limiter and server, the composition of
assignments, the theorems on all of them, and the refinements: `Sessions` of
`Families`, `JobStatus` and both parts of `Assignments` of what they are
built from. What is left is small:

1. An abstract specification of what a client sees of an assignment from the
   request to its polls, across `Assignments` and `JobStatus`.
2. The codes of all errors (`errorHandler.ts`) as a function of what went
   wrong, once a document states them for every endpoint.
3. The one hazard that no property covers, because the code promises nothing
   there: the count of a bulk update that races a deletion
   (`tasks.repository.ts:197`).
