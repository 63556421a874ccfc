# WFM Control-M: a TLA+ model of its protocols

WFM Control-M watches the batch work of many workforce-management clients: it
executes jobs, discovers the cron jobs of every client's server over SSH, asks
every client's DB2 database for its batch queue, escalates queues that build up
and mails the people in charge.  The backend (`src/backend/src`, TypeScript,
Express, Prisma over SQLite) is **one Node process**; the frontend
(`src/frontend/src`, React) polls its REST API.

One Node process means: code between two `await`s is atomic, and anything else
may run at an `await`.  That is the interleaving of all modules here.  **One
action is one awaited call** (a Prisma query, a transaction, an SSH command, a
child process, a mail, a timer) **together with the synchronous code that
follows it**, up to the next `await`.  A request or a promise in flight is a
process whose `pc` names the call it is suspended at; its local variables are
state.  A crash ends every process and keeps the database.

Contents: [inventory](#inventory) - [modules](#modules) - [runs](#runs) -
[proofs](#proofs) - [observations](#observations) - [plan](#plan) -
[not modelled](#not-modelled).

## Inventory

| component | state | operations | interactions |
|---|---|---|---|
| **Queue-buildup escalation** `services/escalation-service.ts` | `EscalatedAlert` rows (status, acknowledged by/at, suppress until, first seen, resolved at, e-mail sent at), recipients | `processEscalations`, `resolveClientEscalation`, auto notify-and-acknowledge, `sendEscalationEmails`, `acknowledge`, `suppress` | called without `await` by both batch-status routes (`routes/db-monitor.ts`), by `routes/escalations.ts`; SMTP |
| **Job execution** `engine/executor.ts`, `engine/scheduler.ts` | `JobExecution` rows, `runningProcesses`, timers, promises of `executeWithRetry` | trigger, attempt, retry, cancel, kill timer, restart | `routes/jobs.ts` triggers and cancels; child processes; alert rules after each result |
| **Batch summary cache** `services/db2-direct-service.ts` | summary per window of days, pool of JDBC children, `shuttingDown` | `getAllBatchStatusSummary`, `patchBatchSummaryClient`, `runConnector`, `shutdown` | filled by the warm sync of `index.ts` and by the routes; feeds escalation |
| **Cron synchronisation** `services/sync-service.ts` | cron `Job` rows, `SyncHistory`, `CachedCronJob`, `isSyncing` | `syncClientCrons`, `syncClient`, `syncAllCrons`, `syncAllClients` | nightly schedule in `index.ts`, `routes/clients.ts`; SSH |
| **Upcoming status checks** `engine/scheduler.ts` | `pendingStatusChecks`, timers | scan at start and every interval, execute a check, clean up, stop | log checks of the sync service |
| **Sessions and access** `services/token-revocation-service.ts`, `services/access-request-service.ts`, `routes/auth.ts`, `routes/admin.ts` | accounts, token versions, denied tokens, access requests | login, refresh, logout, revoke all, deactivate; register, request, approve, reject | every request and every socket |
| **Log status analysis** `services/sync-service.ts` | last status of a job | stat, tail and exit code to a status | after each sync, each status check; SSH |
| **Alert rules** `services/alert-service.ts`, `routes/alerts.ts` | rules with the time they last fired, events | match, cool down, record, send, acknowledge | job results; SMTP, webhooks |
| **Unprocessed punch alerts** `services/unproc-punch-alert-service.ts` | alert rows per client | acknowledge, suppress, notify, expire on read | its own route and the notify route of escalations |
| **Punch counts** `routes/unprocessed-punch.ts` | cache of all counts, the fetch in flight | fetch all, stream | DB2; the page in the browser |
| **Punch page** `useProgressivePunchData.ts`, `useBackgroundPolling.ts` (frontend) | rows shown, load in flight, query cache | start, abort, poll | asks for one client after the other |
| **File monitor** `routes/file-monitor.ts`, `services/file-monitor-service.ts` | the scan in progress | fetch, cancel, disconnect | SSH to every client in turn |
| **Payroll monitor** `services/payroll-service.ts`, `constants/payroll.ts` | none | snapshot of all clients' pay generators | DB2 |
| **Maintenance calendar** `routes/maintenance.ts` | windows, calendars | import, patch, list (which updates statuses), delete | |
| **Nightly purge** `services/purge-service.ts` | settings per table | `runAll`, `runPurge` | cron schedule, admin route; every history table |
| **Configuration** `services/config-service.ts` | table, cache, configuration of the process | load, defaults, validate, update, bulk update | read by every component |
| **Outage impact** `routes/outage.ts`, `services/outage-impact-service.ts`, two pages | the calculation in progress, the stream, the result on screen | calculate, cancel, disconnect, give up a stale one | cron jobs of the clients |
| **Sealed passwords** `utils/crypto.ts`, `services/reencrypt-secrets-service.ts` | `Client.db2Password`, the fallback in the configuration, two keys of the environment | re-encrypt, pre-flight, set, bulk update, restart with other keys | configuration, every DB2 query |
| **Browser session** `context/AuthContext.tsx`, `services/api.ts`, `middleware/csrf.ts` | the cookie all tabs share; per tab the user shown, the CSRF token, requests in flight | load, sign in, sign out, poll, write; a 401 signs the tab out | every route |
| **Live monitor** `JobMonitor.tsx`, `useWebSocket.ts`, `websocket/index.ts` | the rows shown, the socket, events on their way | connect, lose the socket, handle an event, poll, fetch again | events of the executor |
| Monitoring reports, directory, connectors, exports, the other pages | little or none | | |

What is hard, and what makes each part correct:

- **Escalation.** Rows are read, decided on and written in separate awaits,
  requests overlap freely (they are started without `await`), and the mail sits
  in the middle.  Correct means: an active alert exists exactly while its client
  is pending, at most one per client; resolved stays resolved; what the engine
  acknowledges was mailed; what a user decided holds.
- **Job execution.** The promise of an execution, a user's cancel, the child's
  close and a 10 s kill timer write the same row and signal the same id.
  Correct means: the row tells the truth about the child, ended rows have a
  result, timers never hit a later attempt, retries stop, limits hold.
- **Batch cache.** A callback-driven worker pool whose promise is resolved by
  hand, and two writers of one cache entry.  Correct means: a summary covers
  every client, the pending list matches the groups, answers do not go back.
- **Cron sync.** A loop of awaits that ends in a hard delete of everything it
  did not see, with no lock per client, and crashes in between.  Correct means:
  whatever happened before, one undisturbed sync leaves the jobs of the crontab.
- **Sessions.**  A request is admitted by two queries, a token is signed with a
  version read earlier, and an administrator revokes in between; accounts are
  created by two routes.  Correct means: what was revoked stays revoked, and an
  approved request has its account.
- **Status checks.**  A scan repeats faster than the timers it sets expire.
  Correct means: one check per run, through stop, start and toggles.
- **Configuration.**  The table, a cache and a process-wide copy, written one
  key after the other.  Correct means: they agree again when nothing is in flight.
- **Shared work** (punch counts, file scans, the page's load): a promise, a lock
  and an abort flag tested around awaits.  Correct means: one fetch, one scan,
  and a finished load shows all its clients.
- **Streams and locks that are global** (outage impact): one flag for all users,
  and a stream that may stop anywhere.  Correct means: the lock is free when the
  work is over, and rows without their end are not shown as a result.
- **Several tabs, one cookie** (browser session): a login in one tab changes the
  session under the others.  Correct means: what a user does is done as the user
  on screen, and an ended session leaves the screen.
- **Pushed and polled** (live monitor): events are sent once and may be lost, and
  each starts a fetch while another is under way.  Correct means: what the page
  was told of it shows, and what it was not told of it finds out.
- **Key rotation.**  Two keys, many rows, one restart too early.  Correct means:
  what the pre-flight calls done can be read without the previous key.
- **Readings of a moving world** (log status, payroll snapshot, alert rules):
  several reads, or reads and writes, of rows and files that change meanwhile.
  Correct means: the answer follows from what was really there.

## Modules

| module | models | abstract part |
|---|---|---|
| `Escalation` | `escalation-service.ts` 24-614, the routes that start it | mails are a stamp; recipients are always present |
| `JobExecution` | `executor.ts` 29-458, `scheduler.ts` 178-243, cancel/trigger/toggle routes | the work is: ends well, ends badly, or does not end |
| `JobLifecycle` | the statuses an execution may go through: what `JobExecution` implements | |
| `BatchCache` | `db2-direct-service.ts` 229-262, 450-535, 550-631, and the single-client route | a client's queue is a version number |
| `CronSync` | `sync-service.ts` 400-709, 1142-1236 | a line is command and schedule; names as below |
| `Access` | `routes/auth.ts`, `token-revocation-service.ts`, `access-request-service.ts`, the session check of `middleware/index.ts`, accounts in `routes/admin.ts` | passwords and directory answer yes or no; permissions are data |
| `SessionLifecycle` | the standings a token may go through: what `Access` implements | |
| `Maintenance` | `routes/maintenance.ts` windows and calendars | time zones; an instant is a number |
| `PunchAlerts`, `PunchCounts` | `unproc-punch-alert-service.ts` and the mail route; `routes/unprocessed-punch.ts` | counts; the TTL may pass at any time |
| `FileMonitor` | `file-monitor-service.ts` 332-518, `routes/file-monitor.ts` | file lists |
| `ProgressiveLoad` | the two frontend hooks | rows are shown or not |
| `Payroll` | `payroll-service.ts` 393-805, `constants/payroll.ts` 249-383 | a unit of time is some minutes |
| `AlertRules` | `alert-service.ts` 177-250, 489-499, `routes/alerts.ts` | a rule's condition on a job |
| `ConfigStore` | `config-service.ts`, `applyDbConfig`, the PATCH route | six keys, one of each kind |
| `StatusChecks` | `scheduler.ts` 46-110, 250-364 | one period per job |
| `LogStatus` | `sync-service.ts` 750-1085 | a line is a success mark, an error mark, both or neither |
| `OutageImpact` | `routes/outage.ts`, `outage-impact-service.ts` 103-285, `postNdjsonStream`, the two pages | a client has one job: the minutes at which it fires |
| `SecretKeys` | `crypto.ts`, `reencrypt-secrets-service.ts`, the writers of DB2 passwords | a key is its number, a sealed value names its key |
| `Browser` | `AuthContext.tsx`, the interceptors of `api.ts`, `csrf.ts` on both sides, `/login`, `/logout`, `/me` | a session stands for its user and for the CSRF token made of it |
| `LiveMonitor` | `JobMonitor.tsx`, `useWebSocket.ts`, `websocket/index.ts` and the events of `executor.ts` | a row is its phase and how often it was written; the query cache is react-query as the page uses it |
| `Retention` | `purge-service.ts` on escalated alerts, composed with `Escalation` | other tables |
| `MC...` | small instances: symmetry sets, crontabs, sums of components | |
| `..._proofs`, `Counting` | theorems and proofs, see [Proofs](#proofs) | |

### Escalation

`alert` is the table (a function of existing ids, in creation order), `run[r]`
the local variables of a request in flight: `pc`, the client in hand (`cur`),
the row it has read (`seen`, with the values it had then), the clients it found
pending, the alerts it will resolve or mail.  `RefreshAll` and `RefreshOneStale`
start `processEscalations` with the pending clients (any set: DB2 is outside;
clients in `Unreachable` may be missing because their query failed).  Then
`FindNone`/`Create` or `FindExisting`/`Reopen` per client, `ListUnresolved` and
`Resolve` per alert, and, if auto-notification is on, `AutoEligible`,
`SendSelect`, `SendMail` (or `SendFails`), `Mark` per alert, `AutoAck` per
alert.  `Notify` enters at `SendSelect`.  `RefreshOneClear` is the branch of the
single-client route for an empty queue.  `Acknowledge` and `Suppress` are the
page's routes: they store the `userId` of the body or, as the page sends none,
`system` (`routes/escalations.ts` 65, 75), so `User` ranges over `Users` and `System`
and the rows the page acknowledges are those the engine takes for its own.  `Fail` is a
rejected await, after which the rest of the handler is skipped (also what a crash does
to each request).  Time is in minutes, up to `MaxTime`.

`lastMail` and `early` are history variables: the newest stamp of a mail that was
delivered for an alert, and the alerts mailed again within the cooldown.
`AutoAckMeansNotified` is about the step in which the engine acknowledges, not about
the row it leaves, since a row a user acknowledged looks the same.
`Report` is the report of a period: the rows that overlap it and, of these, the
ones that were open at its end (or now, if it is not over).

### JobExecution and JobLifecycle

`Trigger`, `CountRunning`, `CreateExecution` are the three awaits of
`triggerJobExecution`, per caller.  `BeginAttempt` ... `ResetForRetry` are those
of `executeWithRetry` and `execute`; `WorkEnds` is the child's close, the script
or the HTTP answer.  `Cancel` signals the child and starts the timer,
`CancelRecorded` is its update, `KillTimer(e, n)` the 10 s timer set for attempt
`n`, which looks the id up again (a retry reuses it).  `UpdateRejected` is a
Prisma call that rejects, in `execute` (caught, written as an error) or in the
loop (the promise rejects).  `Crash` drops all promises and children and keeps
the rows; nothing in `start()` looks at them again.

`JobLifecycle` is the abstract specification: per execution a status and a
number of tries, with `Admit`, `Attempt`, results, `RetryLater`, `RetryNow`.
`JobExecution` implements it under `tries <- attempt` as long as nobody cancels
(`FollowsLifecycle`): crashes, rejected updates and retries included.

### BatchCache

`entry[w]` is `data.clients` of the summary for window `w`: per client a version
(what its query saw), `Failed` or `Missing`; `alerts[w]` counts how often a
client is in `pendingAlerts`.  A load is a call in flight.  `AskAll`,
`ListClients`, `SpawnChild`, `EvaluateQuery`, `QueryDone` and `StoreSummary` are
`getAllBatchStatusSummary` with its pool (`NextBatch` is the `while` loop of
`runNext`: as many further clients as there is room for), `AskOne` and
`PatchClient` the single-client refresh, `Shutdown` kills the children that have
been spawned.  `version` changes at any time (`QueueChanges`); a query answers
with the version at its evaluation, and answers arrive in any order.

### CronSync

One client; other clients have names and rows of their own.  `job` holds its
cron job rows (a row of `appserver_cron`, possibly soft-deleted by a user),
`running` the `SyncHistory` rows that say RUNNING.  `SyncOne` is the route of a
single client, `SyncAll`/`VisitClient`/`BatchEnd` a batch, which is `before` or
`after` this client while it is at others.  Then the awaits of
`syncClientCrons`: `Proceed` or `Skip`, `CloseOrphans`, `NewRecord`,
`ReadCrontab`, per line `FindJob` and then `CheckName`/`UpdateJob` or
`CreateJob`/`TakeOverJob` (the two halves of the upsert by name), `EntryFails`
for an entry that throws, `RemoveStale`, `Finish`, `StampSync`; `Fail`,
`RecordFailure` and `CatchThrows` are the catch block.  `ReadCrontab` may see a
prefix of the file when faults are on, because `sshExec` resolves with whatever
had arrived when the channel closed.  A job name is `<<name, schedule or 0, copy>>`: `JobName`
is the three-step de-duplication of lines 531-548.  `alone` is a history
variable: no other call was in this client's sync since the call began.

### Access and SessionLifecycle

`account` and `request` are the rows, `token` what has been signed (owner and
version), `denied` the revoked jti, `expired` the tokens past their `exp`.
`handler[h]` is a request in flight.  `Login`/`SsoLogin`, `CountProfiles`,
`ReadVersion` and `Sign` are the awaits of a login.  `Present`, `CheckDenylist`
and `CheckVersion` are those of the session check, after which `Serve` runs the
route: `RevokeOwn`, `RevokePrior` (refresh), `RevokeAll`, `Deactivate`,
`SetProfile`, or the review of an access request (`Review`, `CheckAccount`,
`Approve` or `Reject`).  `Register`/`CreateRegistered` and
`Resolve`/`FindRequest`/`FileRequest` need no session.  `HandlerFails` is a query
that throws, `Restart` a crash followed by `purgeExpired`, which drops denials of
expired tokens only.  `SessionLifecycle` is the abstract specification: a token
is unissued, live or dead, and dead is for ever.  `Access` implements it under
`standing <- Standing`, the verdict `isSessionActive` would give now.

### Maintenance

`ListWindows` reads the rows and fixes the updates of `NextStatus`, `AutoUpdate`
writes one of them (the `Promise.all` of the route, in any order), `PatchWindow`
and `WriteWindow` are the two awaits of PATCH, `Import`/`ImportRow` the bulk
route, row after row, and `ReplaceCalendar`/`CreateCalendar` the two of the
calendar import.

### PunchAlerts and PunchCounts

`getAlertStatuses` reads all rows; `ReopenPunchAlert` is one update of its loop.
The notify route goes on with `SendPunchMail` and `recordEmailSent` per row.
In `PunchCounts` a call may start a fetch of its own, any number of them side by side:
`countCall[r].of` is the call whose fetch `r` awaits, and `punchAllInFlight` only names
the one that later calls may join.  `Join` is `GET /all` when the cache does not answer:
it looks at `punchAllInFlight` and waits for that fetch or starts one; nothing but this
test keeps a second one from running (the mutant `JoinAlways` drops it).
`Stream` is the event stream, with queries of its own that no one joins.
`AskOne`/`Answered` are the pool of either (`processWithConcurrency`), `FetchDone` and
`FetchRejects` the ends of a fetch, with `Settle` for what every call that awaits it
does then and for `finally`, which withdraws whatever fetch is in flight.

### FileMonitor

`Fetch` and `Resolved` are the two halves of `POST /fetch`, `Connected`,
`Executed`, `Row` and `Advance` the visit of one client, `Paused` the pause
before the next (long with TOTP), `Interrupted` a connection that the cancel
destroyed, `Complete` the end in every branch.  `CancelScan` is the cancel route
and the closed response alike.

### ProgressiveLoad

`load[l]` is a call of `start()`; `current` is what `abortRef` holds.  The pool
of `fetchProgressive` is `AskBox`/`BoxAnswered`.  `PollTick`, `Polled` and
`PollFails` are the application-wide poller, which writes the same query cache;
`Mount` and `Unmount` the page.

### Payroll

`queue` is each client's DB2, which `Generator` changes at any time.  A worker
takes a client (`NextClient`), reads its pay periods (`Periods`), its generators
(`Generators`) and the units of each (`Units`), or leaves an `ErrorRow`.  The
functions of `constants/payroll.ts` are operators with their names.

### AlertRules

`Raise` is a job event; `Match` reads the active rules, then per rule `NextRule`
(the cooldown, against the row as matched), `CreateEvent`, `Stamp` and `Send`
per channel, which may fail.  Rules and events are edited by their routes at any
time; a deleted rule makes `CreateEvent` throw and ends the call.

### ConfigStore

`row`, `cache` and `transport` are the three copies.  `BootStep` walks `load()`
write by write, `Patch` is the validation of the whole body, `Update`, `Write`,
`Written` one key of `bulkUpdate`, `Replied` the rest of the route.
`ConfigFaults` lets any write throw, `RestartServer` starts again from the rows.

### StatusChecks and LogStatus

`StatusChecks` has the scanner with its table `queued` and the timers `armed`;
a scan is `ScanBegins` (its query) and `ScanEnds` (all it queues, after the
clean-up of overdue keys).

`LogStatus` is one look at one job: `LookBegins` (the expected run; `PathRejected` for
a path that is not allowed), `Stat` with `LogFresh` (the 5-minute grace and the hour of
a job with a cron expression, the 24 hours of one without), `TailLog`, `CronExitCode`,
`WriteStatus`, with `Verdict` the cascade from exit code over staleness to the lines.
The server owes the check nothing: a run writes lines with markers of either kind, of
both or of none, it succeeds or fails with or without a word in its log, and the log
may at any time be moved away or replaced by a new, empty one.  `look.told` is history:
the last run has failed and the log's newest marker says so, at every step until the
check has read it.  `FailureIsNotSuccess` is about those checks; what the code does
about a failure nothing tells of is under Observations.

### OutageImpact

`activeCalc` is the module-level `activeCalculation` (set, cancelled, older than
half an hour), `querying` the requests suspended at the only `await`, the query
for the jobs, with whether their response is still connected.  `PostImpact` is
the route up to that await, `ComputeImpact` everything after it, `finally`
included, which puts all events on `wire`.  `ReadEvent`, `ReadEnd` and
`BreakStream` are `postNdjsonStream` with the handlers of a page: the calculator
shows rows as they come, the calendar (`Calendars`) keeps them apart.  `Prefill`
is a new window handed to the calculator.  `Found` is the search of
`getFireTimesUtcInWindow` with its cap on the number of fires.

### SecretKeys

`keys` are the two of the environment, `stored` the values in the database
(plain, sealed with a key, long enough to look sealed), `cached` what the
configuration holds of the fallback.  A task is a request of several awaits:
`Reencrypt`/`ReencryptRow`/`ReadFallback`/`ReencryptFallback`,
`Preflight`/`Report`, `BulkPasswords`/`BulkRow`, `SaveFallback`/`FallbackSaved`.
`PlainRestart`, `RotateKey` and `RetireKey` start the server with the same, a
new and no previous key; the operator follows the banner of Admin -> Config:
`RetireKey` needs a pre-flight (`clean`) with nothing pending under these keys.

### Browser

`cookie` is the jar, `alive` the sessions `isSessionActive` accepts, `tab[t]` the
`user` and the module variable `csrfToken` of a page, `flight[t]` its requests, at
most one of a kind: the entry (`/me` at the start, login, `/me` again), a logout,
a poll, a write.  A request carries the cookie of the jar at the moment it is
sent; `Serve` is `csrfMiddleware` (403), the session check (401) and the route.
Answers arrive in any order: `Known`, `LoggedIn`, `LoggedOut`, `Received` are the
continuations in `AuthContext`, after the interceptor, which signs out on a 401.

### LiveMonitor

`table` and `engine` are the rows and the executor between two awaits
(`starting` and `ending`: the row is written, the event not yet emitted).  `Emit`
puts an event into `inbox` if the socket is connected; `Disconnect` loses what is
on its way.  `Hear` is the page's listener.  One of the two lists is followed:
`live` is polled (`PollLive`), `history` is not.  `Asked`, `Joined` and `Refetch`
are what react-query does for `refetch` and `invalidateQueries`: a fetch under
way is cancelled and begun anew, except the first one.

### Retention

`Escalation` with the purge beside it: `RunAll` reads the setting, `RunOne`
deletes the `Purgeable` rows, `StampPurge` is written whatever came of it.

### Sums of components

`MCServices`, `MCRequests`, `MCRecords` and `MCDesk` put components that share no state
side by side.  `part` is chosen at the start and only that component moves, so
the behaviours are exactly those of the components; the others are at rest in
one initial state, so the state space is the sum of theirs, not the product.
Fairness is that of the component, guarded by its part.

## Runs

The passing runs explore their whole state space; the runs that expect a
violation stop at the counterexample.  Deadlock is checked in the runs of
`Escalation` and `CronSync`.  It is not in the sums of many components: there the
pools of ids and the clocks are used up in the end, and `BatchCache` really stops
(a refresh without any client never returns, see Observations).

| run | instance | shows |
|---|---|---|
| `escalation_serial` | 2 clients, 2 alerts, 1 request at a time, the page's actions as `system`, clock to 3 | rows follow the pending set, no second mail within the cooldown, reports of past periods are final |
| `escalation_serial`: impact | 1 client, a calculator and a calendar, 4 minutes, stale calculations | one calculation, and a page at rest shows a whole result |
| `escalation_overlap` | 1 client, 1 alert, 2 requests of all kinds, faults | the engine acknowledges only what was mailed within the cooldown; resolved is final; reopening only what expired or was not seen as written |
| `escalation_one_client` | single-client refreshes | **violation**: it resolves other clients' alerts |
| `escalation_suppression` | suppression during an auto-notification | **violation**: the suppression is lost |
| `services`: jobs | 1 execution, 3 attempts, shell and HTTP job, cancels, toggles | truth of RUNNING, results, timers, no repeated success, liveness |
| `services`: batch | 3 clients, 1 load, pool of 2, shutdown | bound and termination of the pool |
| `services`: cron | 1 call, 3 crontabs, 3 job ids, faults, crashes | batches end |
| `services`: counts, files, page | 3 clients and 2 calls of each; 2 clients and 2 loads | one fetch at a time for all who ask, one scan, complete loads |
| `services`: browser | 2 tabs, 2 sessions, 1 request under way beside the polls | a write runs as the user on screen; an ended session leaves it |
| `services`: monitor | 1 execution written up to 4 times, either list | what was heard is shown; what has ended leaves the live list |
| `requests`: jobs | 2 executions, 2 callers, faults, crashes | refinement of `JobLifecycle` |
| `requests`: alerts | 2 rules, 2 alerts, 1 channel, clock to 2 | every rule matched gets its event and is sent |
| `requests`: logs | due every 2, 2 lines, clock to 2, grace and hour 1, day 2 | a failure the log tells of is not reported as a success |
| `requests`: access | 1 account, 2 tokens, 2 handlers, 1 revocation | refinement of `SessionLifecycle`; admitted means live at arrival; approved means account |
| `requests`: secrets | 1 client and the fallback, 2 tasks, 2 keys | what is sealed can be opened, also once the previous key is gone |
| `records`: batch | 2 clients, 2 loads, pool of 2 | cache and pending list agree; a summary covers every client; refresh never goes back |
| `records`: maintenance | 1 window, 2 calls, instants 0-2 | every stored window is an interval |
| `records`: punches | 1 client, 2 calls, clock to 3 | no reader undoes a suppression it has seen running |
| `records`: payroll | 2 clients, 1 group, 2 workers | the snapshot is complete, without doubles, and its "complete" is true |
| `records`: config | 2 requests one at a time, faults, restarts | table, cache and mailer agree |
| `records`: checks | 1 job, period 3, window 2, clock to 7 | one timer and one check per run |
| `job_cancelled` | 2 executions, cancels | **violation**: CANCELLED is overwritten and retried |
| `cron_overlap` | 2 calls, 2 job ids, users, faults, crashes, 2 crontabs | repair after any mess, orphans closed, batches exclusive |
| `cron_partial` | 1 call, faults | **violation**: a discovered job is removed |
| `payroll_stalled` | `Payroll` alone | **violation**: a stopped generator is never called stalled |
| `purge_resolved` | `Escalation` and the purge | **violation**: a resolved alert is never purged |

**Bounds, and why they are enough.**  `Runs`, `Loads`, `Syncs`, `Callers`, `Handlers`,
`Visits`, `PunchCalls`, `CountCalls`, `Fetches`, `LoadRuns`: two, because every hazard here is between two actors (one that has read and one that
writes meanwhile); one where the property is about non-overlapping requests.
`AlertIds`, `Execs`, `Jobs`, `Rows` bound the tables: two rows show a duplicate,
two job ids let two overlapping syncs each create one, and a third (`services`)
is remembered meanwhile.  `MaxTime` 2-3 lets a suppression and an acknowledgement expire
within one run.  `MaxAttempts` 3 has a first, a middle and a last attempt.
`Limit` 2 of 3 clients makes the pool refill once, `MaxVersion` 1 suffices for
"older" and "newer".  `Crontabs` has a command under two schedules, another
command, and (`services`) an empty file and a two-command file.  In `Access` the
second token is the one a refresh issues or another login, and one increment of
the version is a revocation.  `Window` 2 under `Period` 3 makes scans see the same
run twice and `CheckHorizon` 7 has two runs with a restart between them.
`Every` 2 with the clock to 2 has two runs due, the second over the lines of the first;
`Grace`, `Recent` and `OneDay` make a log fresh or stale by each of the three rules.
The overlap run has one alert, so the mail that covers fewer alerts than were eligible is
in the theorem `AutoAckNotified` only.
`Cooldown` 1 with the instants 0-2 has a repetition inside and one outside.
`Tabs` and `Sessions` 2: one tab changes the session under the other; `InAir` 1
beside the polls lets a poll's answer come late (2 was explored once by hand, for
safety).  `Writes` 4 is a run, its result, a retry and the next run.
Two keys are one rotation, with a value of either key and of none at its start;
`MaxFires` 2 of 4 minutes lets the search give up before the window ends.  Symmetry is used
only for ids that no property orders, and never in a run with liveness.

**Fairness.**  `JobExecution!FairSpec`: weak fairness of the promise's next step
and of timers (Node's event loop resumes what is ready), and of the close of a
child that has got SIGKILL.  The job's own work is *not* fair: it may hang, and
the liveness properties are stated so that they hold anyway.
`BatchCache!FairSpec`: weak fairness of the steps of a load; `runConnector`
settles in every case because `execFile` has a timeout (line 580).
`CronSync!FairSpec`: weak fairness of the steps of a call; SSH connections and
commands have timeouts (`utils/ssh-client.ts` 176, 219).  `BrowserFairness`:
every page that shows a user asks for the alerts of its menu badge
(`hooks/useEscalatedAlerts.ts`, mounted by `Layout.tsx`) again and again and gets
an answer, so weak fairness of a poll and its answer; nothing else of a browser is
fair.  `MonitorFairness`: the live list has a `refetchInterval` of 3 s, so weak
fairness of a fetch from the question to the answer; a socket may never come back.
The other modules state safety only, and no fairness.

**Violations** are statements of comments and documents of the repository that
the code does not keep: `PROJECT.json` "findings" quotes them.  Every property
of a passing run has a mutant: a definition that models code, changed as a
plausible bug would change it, under which TLC finds the property violated.

## Proofs

All of these hold for every value of the constants (numbers of clients, calls,
attempts, clock, ...) that satisfies the named assumption of the module and the
hypotheses of the theorem.  Everything has the same shape: an inductive invariant that
holds initially, that every action keeps, and that implies the property.

Components that share no variable share a proof module, because the number of these is
kept small; their theorems are independent of one another.

| proof module | is about |
|---|---|
| `Escalation_proofs` | `Escalation`, `OutageImpact` |
| `JobExecution_proofs` | `JobExecution`, `AlertRules`, `LogStatus` |
| `BatchCache_proofs` | `BatchCache` |
| `CronSync_proofs` | `CronSync` |
| `Access_proofs` | `Access`, `SecretKeys` |
| `Browser_proofs` | `Browser`, `ProgressiveLoad`, `LiveMonitor`, `PunchCounts`, `FileMonitor`, and their sum `MCServices` |
| `Records_proofs` | `Maintenance`, `PunchAlerts`, `Payroll`, `ConfigStore`, `StatusChecks` |
| `Counting` | least and greatest numbers of a set, the size of a pool |

### Escalation and outage impact

| theorem | statement | argument |
|---|---|---|
| `TypeCorrect` | `[]TypeOK` | what each step writes into a row and into the locals is typed (`RowTypes`, `LocalTypes`, one lemma per kind of step) |
| `ResolvedForGood` | `ResolutionIsFinal` | `RowsEffect`: any step only adds rows and changes existing ones by an edit that keeps `resolvedAt` non-null |
| `AutoAckNotified` | `AutoAckMeansNotified` | `ToldInv`: a request about to acknowledge holds only alerts that are resolved or were mailed since its own cooldown began (`Told`), and while it mails, those outside the batch are; stamps only grow (`MailsGrow`), so what another request does in between takes nothing away.  Nothing is assumed of who the page's acknowledgements are stored as |
| `ReopenedExpired` | `ReopensOnlyExpired` | `SeenInv`: what a request reopens had expired at the time it began with, and what has expired stays so (`ExpiredStays`).  So a row that has not expired is not as the request read it |
| `SuppressionStands` | a suppression that is not over is cut short only by a user, by the acknowledgement that follows an automatic mail, or by the reopening of a row that was written since it was read | from `SeenInv` again: a row that is as the request read it has expired by now.  The run `escalation_suppression` refutes `SuppressionHolds`; this names the two causes there are, for any number of requests |
| `SerialOneActive` | one request at a time: `[]OneActivePerClient` | `SerialInv`: a request about to create a row is for a client without an active one |
| `PastReportStands` | one request at a time: `PastReportIsFinal` | `FreshInv`: what a request is about to resolve nobody has resolved since it read it, so `resolvedAt` is written once per row |
| `CooldownHolds` | one request at a time, no failures: `[]NoMailWithinCooldown` | `MailInv`: the table knows of every mail sent, except the ones whose rows are about to be marked; what is being mailed was due |
| `RefreshTracks` | one request at a time: `[]RefreshTracksPending` | `Tracks`: at each `pc` of a pass, the clients it is done with that are pending have an active alert, and an alert of the others is still on its list; `SameEpisodes`: mails, acknowledgements and suppressions change nothing of that (`SameTracks`), `CreateRow` and `ResolveRow` say what they do change |
| `ResolvesWhatItSaw` | no refresh of one client, every client answers: `ResolvesOnlyQueried` | `QueriedInv`: a pass that writes has queried every client.  The run `escalation_one_client` refutes the property; this says the two causes it shows are the only ones |
| `ImpactHolds` | `[]ImpactIsSound` | `LockInv`: until one was given up for stale, the flag is up exactly while there is one calculation; `PageInv`: of what is on the wire only a `complete` event carries a whole result (`SoundEvents`), and a page at rest without an error has taken its result from there (`SoundPage`) |

### Execution, alert rules, log status

| theorem | statement | argument |
|---|---|---|
| `TypeCorrect` | `[]TypeOK` | per action |
| `RunningAlive` | `[]RunningIsAlive` | inductive as it stands |
| `KillsCancelled` | `[]KillsOnlyCancelled` | `KillInv`: timers belong to cancelled attempts, and outside `exec`..`fail` there is no child and no signal |
| `SuccessOnce` | `SuccessIsNotRepeated` | `SuccessInv`: a promise whose work has succeeded is between the success and its end |
| `ImplementsLifecycle` | `~Cancels`: `Spec => FollowsLifecycle` | `RowInv` relates `pc` to the status; `LifeStep` maps each action to a lifecycle step or a stutter |
| `AlertsReach` | `[]ReturnedAlertReached` | `AlertInv`: of each rule it matched, a call in progress still has it to do, is at it, or has left its event and tried its channels; a rule that was deleted stays `Gone` |
| `FailuresStand` | `FailureIsNotSuccess` | `LookSound`: a failure that was there whenever the check read is in what it has read, and still on the server where it has not read yet; the server may write, end and rotate as it likes (`ToldStill`).  Lines whose newest marker is one of failure give FAILED whatever came before (`FailureDecides`, from `LastMarkIsLast`) |
| `TermBacked` | a child that has been sent SIGTERM is closed, or is alive with the SIGKILL timer of its own attempt armed | `BackedInv`: a child is alive only at `exec`, so neither a retry nor a timer of an earlier attempt finds a signal that is not its own (`KillInv`) |
| `PromisesEnd` | `PromisesAdvance`: each step of a promise takes it further, no other step but a crash moves it; it takes at most 9 steps per attempt | `Travelled`: the place within the attempt, nine to an attempt (`OwnTravel`, `OtherTravel`) |

### Batch cache

| theorem | statement | argument |
|---|---|---|
| `TypeCorrect` | `[]TypeOK` | `PutIs`: what writing one client's slot does |
| `PendingCorrect` | `[]PendingMatchesClients` | `PendingListed`: a load's own list matches its own results |
| `NeverGoesBack` | `RefreshNeverGoesBack` | `Ordered`: base <= answer <= version and base <= result, with `AtWork` (where queries can be) |
| `CompleteCorrect` | `SummaryIsComplete` | `Accounted`: a client of the pool is still to do, being queried, or has a result |
| `PoolBounded` | finitely many clients: `[]PoolIsBounded` | one query starts per place (`PoolGrows`), any number may end (`PoolShrinks`) |
| `PoolWorks` | a pool with a client to ask has a query under way | `Working`: what starts with room in the pool is everything there is, or something (`BatchStarts`), and the last query to end starts the next ones or closes the pool |
| `PoolComesToEnd` | `UsesUpSteps`: no step adds to what a pool has left to do, each step of its own takes from it, at most four per client | `StepsLeft`: by where the query of the client is (`OwnStep`, `OtherStep`) |

### Cron synchronisation

| theorem | statement | argument |
|---|---|---|
| `TypeCorrect` | `[]TypeOK` | `JobNameIsNew` (pigeonhole: a free copy number exists), `Holding` (a call updates a job it holds, for an entry it has in hand) |
| `OneBatch` | `[]BatchesExclude` | `FlagInv`: a call between two clients belongs to a batch, an idle one does not |
| `OneRunning` | `[]OneRunningRow` | `RowInv`: a call nothing overlaps is the only one at work and has left no `RUNNING` row before it creates its own |
| `Repairs` | `NamesApart`: `Spec => []SyncRepairs` | `RepairInv`: a line no longer to come has a processed job, a processed job is that of a line (`LoopInv`), until the deletion turns that into the property (`EndInv`); `NameInv` shows that no row changes its command, so what other calls write cannot undo it |
| `DiscoveredStays` | `NamesApart`, one call at a time, no faults: `DiscoveredIsKept` | `KeptInv`: a line no longer to come has left no live job of its command that is not processed, a command has at most one live job (`OneLive`), and nothing can refuse what a call is about to write, so no entry fails.  The run `cron_partial` refutes the property with faults; this says that without them it holds, users and crashes included |
| `BatchComesToEnd` | `BatchAdvances`: each step of a batch takes it further, no other step but a crash moves it; what is left of its loop is a natural number | `Further`: to a later stage (`Stage`), or within the loop with less to do (`LoopLeft`, three awaits at most for each entry); a batch is never idle (`FlagInv`), so no new call takes its place |

### Access and sealed passwords

| theorem | statement | argument |
|---|---|---|
| `TypeCorrect` | `[]AccessTypeOK` | `CallInv`: a call past `authMiddleware` holds a token and an account |
| `AdmissionHolds` | `[]AdmittedWasLive` | `CallInv`: a call that came with a dead token either finds it on the denylist or is behind its account's version; only a restart forgets denylist rows, and it ends every call |
| `ApprovalHolds` | `[]ApprovedHasAccount` | `RequestIs`: only an approval that creates the account marks the request; accounts are never removed (`Grown`) |
| `RevocationHolds` | `Spec => RevocationIsFinal` | `TokenInv`: no token is ahead of its account's version, which only grows, so one that differs from it stays so (`IssuedFades`); a signature maps to `IssueToken`, any other step to `EndTokens` |
| `RotationHolds` | `[]SealedIsReadable` | `CleanIsCurrent`: after a clean pre-flight only the current key is in use; `ScanIsCurrent`: what a pre-flight has read of a client that is still sealed with the old key is what is there, because every write seals with the current one (`WritesAreCurrent`) |

### Browser, page of punches, live monitor, shared work

| theorem | statement | argument |
|---|---|---|
| `AcceptedAsShown` | `[]WritesAsShown` | `BrowserInv`: a tab that has a token and shows a user got both from one answer (`TabOK`), a login shows nobody until then (`EntryOK`), a write carries the token of what it showed (`WriteOK`); the server compares it with the cookie it serves |
| `DoneIsComplete` | `[]DoneShowsEveryClient` | `RunsSound`: only the run `abortRef` holds is not aborted, and what is not on the page it still has to ask for or is waiting for (`LoadInvariance`) |
| `HeardEnds` | `[]HeardIsShown` | `HeardInv`: an event names a write the table already has, so a fetch that reads later has it; a query is at rest with rows that have, is invalid, or is being fetched (`QuerySound`) |
| `FetchShared` | `[]FetchIsShared` | `FetchInv`: whoever waits, waits for the fetch that `punchAllInFlight` names, and that one is under way.  So a call that finds none in flight finds nobody waiting (`JoinKeeps`), and the fetch that ends is the one in flight (`SettleKeeps`) |
| `ScanExclusive` | `[]ScanIsExclusive` | `LockInv`: the lock is held exactly while one call scans |
| `LimitsStand` | finitely many clients: `ServicesSpec => []LimitsHold` | every step of the sum is a step of the pool or leaves it alone (`SameNext`), so `PoolBounded` holds of it through `INSTANCE BatchCache_proofs WITH ...`; `FetchInv` and `LockInv` carry over step by step (`PartsStep`) |

### Records

| theorem | statement | argument |
|---|---|---|
| `IntervalHolds` | `[]WindowIsInterval` | `MaintenanceInv`: a PATCH in flight writes both bounds, checked, or neither (`Changes`), so the row may have changed under it |
| `SuppressionHolds` | `SuppressionOutlivesReads` | `PunchInv`: what a call is about to reopen had expired when it read it; time does not go back |
| `CheckedOnce` | `[]ChecksOnce` | `CheckInv`: a run has at most one timer, and none once it was checked; a key that was forgotten while its timer is armed is of a run in the past, which no scan finds again (`NextMultiple`: the next run is the least multiple of the period ahead) |
| `SnapshotHolds` | `[]SnapshotIsSound` | `PayInv`: rows follow the stage of their client's scan (`RowsFollowScan`), a generator still on the list has none (`GensWithoutRow`), and a complete group stays so (`CompleteStays`) |
| `NeverStalled` | no row of a snapshot is stalled, ever | `NeverIdle`: the scan takes `QUEUE_STATUS = 'R'` for running, and the flag is for generators that are not (`RunningIsNotStalled`).  The run `payroll_stalled` shows it on one instance; this says that no clock, schedule or grace time changes it |
| `QuietConfigHolds` | one PATCH at a time: `[]QuietConfigAgrees` | `ConfigInv`: where table and cache differ, the one request in flight is about to write the cache (`CacheFollows`), or to reload the mailer (`MailerFollows`); `BootTails` follows `load()` through its steps |

The `TypeCorrect` theorems of `JobExecution`, `BatchCache`, `CronSync` and `Access`
are of type invariants that the other proofs rest on and no run spends a property on.
The invariants a run checks are seldom inductive: `FetchIsShared` does not
say that the fetch under way is the one in flight,
`SummaryIsComplete` nothing of a query under way and `HeardIsShown` nothing of an
event on its way; the strengthenings in the last column say exactly that.

**Hypotheses, and what they leave out.**  "One request at a time" is
`\A r, q \in Runs : r = q`: requests may still fail half-way and follow each other in
any order.  Two that overlap do create two rows, mail twice and rewrite `resolvedAt`
(Observations), so these four properties need it; the others of `Escalation` hold for
any overlap.  `CooldownHolds` also needs `~Faults`: a request that dies between the mail
and `MARK` leaves no stamp.  `QuietConfigHolds` has the same restriction to one PATCH
(`~Overlap`) and keeps failures and restarts.  `Repairs` assumes `NamesApart`, two
commands never share a name: without it one command can take over the other's job.
`ResolvesWhatItSaw` and `DiscoveredStays` are about properties the code does not have in
general: their hypotheses exclude exactly the causes that the violation runs show.
`SuppressionStands` and `NeverStalled` are about findings too, and have no hypotheses:
the first lists the causes of a lost suppression in its conclusion, the second says that
what its finding misses can never happen.  The finiteness of the set of clients in
`PoolBounded` and `LimitsStand` is what makes counting connectors mean something.
Where a run checks the same property, its constants satisfy the hypotheses.

**Assumptions** on the constants, which TLC evaluates in the runs of the module:
`ConstantsAssumption` (dates are natural numbers, expiry times are positive),
`ExecutionAssumption` (at least one attempt, a positive limit),
`BatchAssumption` (the limit is in 1..10, as `config-limits.ts` clamps it),
`CronAssumption` (crontabs are sequences of lines, every command has a name),
`AccessAssumption` and `AccessNames` (the bound on versions is a natural number; "no
token" and "no account" are no keys), `SecretAssumption` (there is a key),
`CheckAssumption`, `LogAssumption`, `AlertAssumption`, `CountAssumption`,
`LoadAssumption`, `MonitorAssumption` (periods and workers are positive, horizons and
ages are numbers, "none" is no call), `ImpactAssumption` (finitely many clients, so that counting them means something).

**Without induction.**  The induction theorems of the library cannot be used here.  What
needs it here is that a set of numbers has a greatest element (`GreatestNumber`, from
`LeastNumber`, from the well-foundedness of `<`): the last line that decides a log.

**Only model-checked:** every liveness property (`CancelledChildEnds`,
`OnlyWorkBlocks`, `RefreshReturns`, `BatchEnds`, `EndIsNoticed`, `LeavesLive`), which
rest on fairness and so are out of the prover's reach.  What is proved of four of them is
the part without fairness.  `RefreshReturns` needs that a refresh is never stuck
(`PoolWorks`) and that it cannot go on forever (`PoolComesToEnd`); `OnlyWorkBlocks`
and `BatchEnds` that a promise and a batch do not run in circles (`PromisesEnd`,
`BatchComesToEnd`); `CancelledChildEnds` that the timer which ends the child is still there
(`TermBacked`).  What TLC adds is that a step is possible and that the steps left are
taken.  `EndIsNoticed` and `LeavesLive` have no such part: the poll of `/me` and the fetch
of the history start over for ever, and it is fairness alone that makes one of them end.
The findings are counterexamples and stay with TLC, with the two theorems above
beside them.  Every invariant and action property of a passing run is proved, under the hypotheses
named above.

## Observations

What the models show, or reading for them showed, beyond the findings:

- *Escalation.*  Two overlapping refreshes can each find no active row and
  create one; two overlapping notifications can each pass the cooldown check and
  mail twice.  Both windows are as long as an await, and as long as the SMTP call.
  A client whose DB2 query failed is not pending for that refresh, so its alert
  is resolved and a new episode starts when DB2 answers again.  The acknowledge
  route stores the engine's own actor (`system`) whoever sent the request
  (`routes/escalations.ts` 65: no caller in the frontend sends a `userId`), although
  the comment at `escalation-service.ts` 36 has it for automatic acknowledgements:
  a user's acknowledgement expires after `defaultSuppressMins` like one of the engine,
  and nothing in the row tells the two apart.  Suppressed alerts are still listed as active.  The
  report of a past period counts acknowledged and suppressed alerts by their status
  of today, and with overlapping passes even its open ones may change: `resolvedAt`
  is written again by a pass that had read the row earlier.
- *Job execution.*  The concurrency limit counts RUNNING rows before the new row
  exists: two triggers in a row pass it (`docs/README.md` 43 promises a maximum
  per job), and so does an execution waiting for its retry.  QUEUED executions
  are never started: `processPendingJobs` (`scheduler.ts` 248) is empty.
- *Batch cache.*  The pool's promise is resolved by the last query's `finally`:
  with no available client (or when the query for them rejects, which gives `[]`)
  it never settles, and the request hangs.  Answers are applied in the order they
  arrive: a slow single-client refresh overwrites a newer summary, and a summary
  begun earlier overwrites a newer patch, which the comment at 516-517 wants to
  prevent.  A refresh in which all queries failed replaces a good entry and is
  fresh for the whole TTL.
- *Cron sync.*  `sshExec` ignores the exit status, so a crontab that cannot be
  read is an empty one: all jobs of the client are deleted, their executions with
  them, and the sync is a SUCCESS.  Two lines with one command share one job (the
  row is found by command), whatever the de-duplication of names intends.  If
  three commands of one script are renumbered by a change of schedule, the upsert
  by name can take the row of a job discovered a line earlier, which then has
  none until the next sync (crontab `z@1, a@1` replaced by `a@2, y@1`; TLC finds
  it when two commands have one `BaseName`).  While two syncs of one client
  overlap, each removes what the other created, and the one that was marked
  "superseded" may still report SUCCESS.  `syncAllClients` counts a client whose
  sync failed as succeeded, because `syncClient` swallows the error (1118-1122).
- *Purge.*  `purge-service.ts` 109 deletes resolved alerts, but resolving leaves
  the status OPEN, so they stay; only those a user touched after the resolution go.
  A run stamps `lastPurgeAt` whether or not its deletion failed.
- *Access.*  The check of an access request's status is one await before the
  writes, so an overlapping rejection can leave REJECTED on a request whose account
  was created.  A token signed with a version read before a revocation is dead
  on arrival: the user has logged in and is refused by the first request.
- *Maintenance.*  A listing writes the status it computed from its snapshot, so a
  window cancelled meanwhile becomes ACTIVE or COMPLETED again.  A calendar import
  deletes the year before it creates it, outside a transaction.
- *Punches.*  A client whose suppression has just expired is missing from the
  statuses the notify route asks for, so the cooldown does not see its last mail.
  The comment at `routes/unprocessed-punch.ts` 55 says the concurrency was reduced
  to 2; the constant is 3.
- *Page.*  The catch of an aborted load does not look at the abort and can show an
  error over the newer load.
- *Payroll.*  See the finding: with `QUEUE_STATUS = 'R'` in the query, "stalled" is
  unreachable and a store group whose queue is not running has no row.
- *Alert rules.*  The cooldown is tested against the row as it was matched: two
  failures that overlap both pass it.  SMTP and webhooks have no timeout of their
  own, and a channel that hangs holds up the rules after it.
- *Configuration.*  With overlapping requests for one key the cache may keep the
  other value than the table: each writes the cache after its own await
  (`Overlap` = FALSE in the run; with TRUE `QuietConfigAgrees` fails).
- *Log status.*  A run that fails without a line that matches a failure pattern, and
  whose exit code cron's logs do not have, is reported SUCCESS while its log is fresh
  ("assume OK", `sync-service.ts` 966-968).  So is one whose log is replaced by an empty
  file, before the check or between stat and tail, and one whose failure is followed by
  a success marker of the next run.  UNKNOWN at 968 is unreachable, since a log that is
  not fresh is STALE before (942); only a path that is not allowed gives it.
  `isRunning` is always false, since nothing calls `checkProcessRunning`: a job
  that runs over the check is judged by the lines it has written so far.
- *Outage impact.*  The loop over the clients has no `await`, so a cancel is only
  seen before the first of them: the "partial results" that both pages announce
  (`OutageImpact.tsx` 490, `MaintenanceCalendarTab.tsx` 1014) are always empty.
  When a calculation is given up for stale and a second one ends, the flag of the
  first is read from `null` (`routes/outage.ts` 90): its stream breaks off.  The
  search for fire times stops after 500, so a job that runs every minute is
  undercounted in a window of more than eight hours.
- *Sealed passwords.*  A re-encryption writes from what it has read at its start
  (`reencrypt-secrets-service.ts` 163, 186): a password set meanwhile is lost.
  The same holds for the fallback, whose cache keeps the new value until a
  restart brings the old one back.  A value that no key opens is used as the
  password itself (`client-db2-password.ts` 31).  A plain password of 38 or more
  base64 characters counts as unreadable and is never sealed.  The comment at
  `config-service.ts` 51 promises that secrets are re-encrypted on the next write;
  only `secrets.db2Password` is (719, 733).

- *Browser session.*  The answer 401 of an old request signs out a login made
  meanwhile in the same tab.  The first visit asks `/me`, gets 401 and says
  "Session expired".  A logout in a tab whose cookie another tab has replaced is
  refused with 403; the tab shows the login page and the session lives on.  A late
  logout answer clears the cookie of a login in another tab.  Reads are not
  guarded: such a tab is served GETs of the other user's session.
- *Live monitor.*  Events sent while the socket is down, or while the first history
  load is under way (which an invalidation joins), leave the history stale until the
  next event; a failed fetch says nothing.  After a reconnection the room
  `execution:<id>` is not joined again, so followed logs stop; nothing unfollows.
  The session is checked at the handshake only: a revoked one keeps its socket.
  `execution:cancelled` has no listener on the server, `alert:triggered` and
  `dashboard:update` none in the frontend.

## Plan

Modelled first, because it is the core of what operators rely on: escalation,
execution, the summary cache, cron sync; then, one module each, the components
around them.  What is left, in this order:

1. Abstract specifications of the shared fetch and of the scan's lock, with the
   invariants proved here as their refinements.
2. Liveness of the file scan and of the shared fetch under their timeouts.
3. The other tables of the purge, the master account, followed logs.

## Not modelled

E-mail layout, the figures of reports, exports and monitoring queries are formatting
and SQL over tables without protocol.  Keeper, LDAP, SSH, JDBC and the cipher are
external I/O: they appear as an answer or a failure where a component waits for
them.  HTTP middleware has no state apart from the session and CSRF checks.  Apart from the
session of a tab, the two hooks of the punch page, the readers of the outage stream
and the lists of the monitor, the frontend (half of the repository's code)
renders answers of the API and keeps form state: its dialogs, tables and calendars
have no protocol that the routes modelled here do not have.  The routes for
clients, jobs and recipients are single statements on one row; the ones that
interact with a modelled component (activation, soft deletion) are actions of it.
`PROJECT.json` "components" lists every part with its reason.
