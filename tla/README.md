# A verification project for the ETD report scheduler

This directory holds TLA+ models of the ETD report scheduler (`src/`), the TLC
configurations that check them on small instances, and proofs checked by TLAPS.
Every definition is translated from the Python source; `PROJECT.json` maps each
one to the lines it stands for.

## 1. The system

The program is one Python process (`app/main.py`, a FastAPI application) with a
database (SQLite by default, PostgreSQL optionally), a thread pool of four
workers run by APScheduler, and the threads of the web server. It collects
statistics, convicted messages and logs of many tenants from the ETD API,
builds reports from them, and mails, posts and archives the reports on
schedules. There is no other process and no queue: what is not in the database
or in a file is lost when the process stops.

| component | files | state | operations | hard behaviour |
|---|---|---|---|---|
| report runs | `services.py` | `report_runs` rows; the local variables of the running threads | `run_schedule`, `run_report` (4 phases), `_finalize_run`, `recover_interrupted_runs` | crash between phases, mail sent and answer lost, retried finalization, rows deleted under a running report, id reuse |
| scheduler | `scheduler.py`, `main.py` | cron jobs and catch-up jobs in memory, `heartbeat` file | `start`, `shutdown`, `reload_report_jobs`, `set_timezone`, `missed_runs`, `catch_up`, `run_now` | outage and catch-up, second crash, overlap with cron fires, concurrent reloads |
| run archive | `delivery/archive.py`, `runner.purge_old_data` | report files | `archive_paths`, `write_bytes`, `remove_files`, `sweep_orphans` | sweep, purge and tenant deletion beside running reports |
| alerts | `alerts.py` | `alert_states` rows, marks of API keys | `alert_run_problem`, `alert_schedule_problems`, `check_collection`, `check_api_keys` | alert once, alert at all, re-reading rows |
| collectors | `collectors/*` | watermark, backfill cursor, logs cursor and gaps, API usage, errors per tenant | `collect_*`, `backfill_convictions`, `collect_logs` | overlapping collectors, cut short by budget, error or crash: nothing skipped, nothing counted twice |
| ETD client | `etd/client.py` | token, shared rate limiter | `get_token`, `_post`, `iter_pages`, `windows`, `RateLimiter.wait` | spacing across threads, 401/429/5xx retries, pages in order |
| data quality | `quality.py` | none | `tenant_health`, coverage of a period | what counts as stalled or complete |
| delivery | `delivery/email.py`, `chat.py`, `pdf.py`, `summary.py` | none | send, post, render | partial refusal, lost answers |
| backup | `backup.py` | backup files | `create_backup`, `nightly_backup`, `prune` | beside a writing service, two at a time |
| accounts, sessions, API keys | `web/auth.py`, `security.py`, `authz.py`, `api_keys.py` | users, grants, sessions, keys, failed attempts | log-in, roles, grants, revocation | last administrator, check-then-act, what is ended stays ended |
| single sign-on | `sso.py` | cookies, endpoints and keys of the provider in memory | `start`, `read_state`, `exchange`, `verify_id_token`, `userinfo`, `account_for` | stale caches, replayed and crossed answers |
| web UI and API | `web/routes_ui.py`, `routes_api.py` | none of its own | every administrative change; "Run now" | concurrent requests with running jobs |
| activity log | `activity.py` | `activity_events` | `prepare`, `note`, `record`, the page and the API | names read before the handler, lost events, paging a log that grows |
| settings, secrets | `settings_store.py`, `config.py`, `crypto.py` | key-value rows | load, save | rows that other rows and settings name |
| database | `models.py`, `db.py` | the tables, foreign keys, cascades | `session_scope` | busy database, cascades, id reuse |
| reports | `reports/*` | cached DNS answers | periods, registry, domains, campaigns, trends, ... | period arithmetic, figures from incomplete data |
| demo, i18n, branding, manage | `demo/*`, `i18n.py`, `branding.py`, `tenant_profile.py`, `manage.py` | brands, profiles | choose, delete; console commands | rows deleted while chosen |

How they interact: the scheduler starts `run_schedule` and the collectors on its
threads; the web server starts single reports and collections on others; all of
them meet only in the database, in short transactions, and in the files of the
archive. `recover_interrupted_runs` and `missed_runs` read at start-up what the
last process left in the database and in the heartbeat file.

What makes the components correct:

- report runs: a row that says `running` has a thread; a row that names
  recipients is right about them; a report that left is recorded for its period;
  an outcome is final; a problem is alerted.
- scheduler: the cron jobs are the enabled schedules; what an outage swallowed is
  run for its own period, and run once.
- archive: a file in use is never removed, a file of no row does not stay.
- alerts: a problem that lasts is told in time, and once.
- collectors: every instant up to a cursor was fetched or is a recorded gap;
  nothing is counted twice; the budget is kept; one tenant's failure is its own.
- client: the limit of requests per second holds across all threads; pages arrive in
  order and a search ends.
- accounts: an enabled administrator is left after every request, nobody hands on
  rights they lack, what was ended stays ended, guesses are limited.
- single sign-on and activity log: whoever is signed in was confirmed in that browser;
  every change is told, about the object it changed.
- configuration: what was chosen is what is used, and what was deleted is not.
- figures: what a report says of a period follows from what was collected of it.

The hazards, each at the line where it bites, are in `PROJECT.json`
(`hazards`).

## 2. The modules

| module | models |
|---|---|
| `ReportRuns` | `services.py`: the threads inside `run_schedule` and `run_report`, the rows they write, the process that stops and starts, the administration that deletes tenants and schedules |
| `RunLifecycle` | the abstract promise of every call of `run_report`: recorded, ended once, never changed |
| `ReportRunsProps` | the properties of `ReportRuns`, and the mapping to `RunLifecycle` |
| `ReportScheduler` | `scheduler.py` around `ReportRuns`: clock, cron jobs, heartbeat, start-up, catch-up, shutdown |
| `ReportSchedulerProps` | its properties |
| `ReportRunsProofs` | TLAPS proofs about `ReportRuns`: types, running rows, what rows and mails say, alerts, that it implements `RunLifecycle`; and about `ReportScheduler`: that it implements `ReportRuns`, what catch-up repeats |
| `MCReportRuns`, `MCReportScheduler` | the instances for TLC |
| `Accounts` | `web/routes_ui.py` (users, access to a tenant), `web/authz.py`, `sso.account_for`, `manage.py`: the tables `users` and `tenant_grants` and the requests that change them |
| `AccountsProofs` | its proofs |
| `EtdClient` | `etd/client.py`: the rate limiter a tenant's threads share, the token, `_post` with its retries, `iter_pages` |
| `EtdClientProofs`, `MCEtdClient` | its proofs, the instance for TLC |
| `Collection` | `collectors/convictions.py`, `backfill.py`, `stats.py`, the wrappers of `runner.py`: the columns of `tenants` they keep, `convicted_messages`, `daily_stats`, the month lists |
| `CollectionProps`, `CollectionProofs`, `MCCollection` | its properties, their proofs, the instance for TLC |
| `Configuration` | `web/routes_ui.py` (brands, chat channels, profiles, the channel of schedules and alerts), `branding.py`, `delivery/chat.load_target`: rows that other rows and settings name, and the reports that read them |
| `MCWeb` | the instance for TLC of `Accounts`, `Sessions`, `Configuration`, `SingleSignOn` and `ActivityLog` |
| `LogExport` | `collectors/logs.py`, `runner.collect_logs_for_tenant`: one tenant's log files, cursor, gaps and counts, and the runs that collect them |
| `LogExportProps`, `LogExportProofs`, `MCLogExport` | its properties, their proofs, the instance for TLC |
| `Archive` | `delivery/archive.py`, `runner.purge_old_data`, `tenant_delete`: report files and their rows |
| `Calendar` | `reports/periods.py`, `scheduler.cron_days`, the default schedules of `reports/registry.py`, over a range of dates |
| `StallAlerts`, `KeyReminders` | `alerts.check_collection` with `quality.tenant_health`, `alerts.check_api_keys` |
| `JobReload` | `scheduler.reload_report_jobs`, `set_timezone`: several requests renew the cron jobs at once |
| `Backups` | `backup.py` beside reports and their purge |
| `DomainChecks`, `DomainPosture` | `reports/domains.py`: what SPF and DMARC records amount to; the cache of lookups that several reports share |
| `Lookalikes`, `Vendors` | `domains.find_lookalike` against imitations made step by step; `reports/vendor_risk.py` over periods of mail |
| `Effectiveness` | `reports/posture_effectiveness.py`: the score and its evidence, over what the collectors left |
| `Campaigns`, `ThreatReports` | `analysis.cluster_campaigns`, the index of attacked people, exposure, severities, compromise indicators |
| `Trends`, `MCTrends` | `reports/trends.py`: six months of a tenant and of the fleet, with gaps |
| `PartsProofs` | TLAPS proofs about `JobReload`, `DomainPosture`, `Archive`, `StallAlerts`, `KeyReminders`, `Backups`, `Vendors` and `Effectiveness` |
| `MCParts` | the instance for TLC of all of these |
| `Sessions` | `web/auth.py`, `web/security.LoginLimiter`, `web/api_keys.py` and their handlers: `user_sessions`, `api_keys`, failed sign-ins, and what ends them |
| `SessionsProps`, `SessionsProofs` | its properties and their proofs |
| `SingleSignOn` | `sso.py` and its handlers: the cookie of a sign-in, the provider's endpoints and keys kept in memory, the steps of a callback |
| `WebProofs` | TLAPS proofs about `Configuration` and `SingleSignOn` |
| `ActivityLog` | `activity.py`, `activity_events` and how its page and API are read |

### Report runs

`threads[w]` holds the local variables of one activation of `run_schedule`
(`schedule`, `trigger`, `reference`, the tenants still `todo`, the runs `done`)
and of the `run_report` it is in (`run`, `tenant`, the period `asked`, whether it
was `built`, `delivered`, the `status`, the `tries` of `_finalize_run`). `pc` says
which transaction or which stretch without a session comes next: one action per
transaction (`Begin`, `OpenRun`, `BuildOk`/`BuildFails`, `Finalize`,
`FinalizeFault`, `AlertRun`, `EndSchedule`) and one for the stretch of files, PDF,
mail and chat (`Deliver`), so that everything another thread, an administrator or
a stop can do between two transactions happens between two actions.

`rows` is the table by run id. `FreshId` gives ids as the database does: SQLite
without AUTOINCREMENT reuses the highest id once its row is gone, PostgreSQL does
not. `outbox`, `alerted`, `calls`, `givenUp`, `cut` and the fields `asked` and `owner` of a
row are history: they record what the code does not keep, and no guard of the
code's actions reads them (`calls` only bounds the instance).

Reports and their contents, recipients and texts are left out; of a delivery only
the outcomes matter: whether the relay took the mail (`sent`), whether its answer
arrived (`noted`), whether a problem was recorded, and the status.

### Scheduler

`clock` counts the instants at which anything can fall due. `heartbeat` is the
file, written by `Beat` at any time the scheduler runs, at start and at shutdown.
`Start` and `CatchUp` are the two halves of `ReportScheduler.start` around its
`write_heartbeat`, so that a crash fits between them. A cron fire is dropped
while the last one of its schedule still runs (`max_instances`), a catch-up job
waits in memory until it fires. `PeriodAt` gives each instant the period
`period_for` computes; `RunAt` passes `OpenRun` the catch-up's reference or now.
### Accounts

`users[u]` is the row of a user name, `grants[u]` its role on the one tenant. A
request is three steps, since FastAPI answers requests in a thread pool and each
session reads the latest commits: `Admit` (`get_principal` and the dependency
that refuses), the handler's reads and decision (`UserRole`, `SsoCallback`, ...),
and `CommitUser`/`CommitGrant`, which writes the changed columns only, as the ORM
does, and fails on a unique constraint or a row that is gone. `ManageCreate` and
`ManageReset` are the console commands, `Restart` loses what is under way and runs
`bootstrap_admin`. `overtaken` and `raced` are history: which requests decided before
another one took an administrator away, and whether one of those took one away too.
### ETD's client

`client[t]` is the client of a thread and where its call is: at the head of the loop
of `_post`, with a slot of the limiter (`TakeSlot`, sleeping `delay` ticks), sent, or
in the sleep of a retry. What ETD answers is free: a page, a 401, a 429/502/503, or
anything that ends the call. Time is relative to now, so the state space is finite
without a bound on the clock. The search goes through two windows with three pages.
### Collection

`run[r]` is a collector at work with the copy of the tenant it loaded; `tenant` is
the row, into which `End` writes the columns the run changed. `Begin` is a job or
"Collect now" (which chains the three collectors, `Continue`). A page of messages is
one step (`ConvictionsPage`, `BackfillPage`), since every page is committed;
statistics are one transaction (`Report`, `StatsEnd`). `ApiError` is any error ETD
answers with: the runner records it and commits what the session holds. `Raise` is a
refused statement: on the broken session `record_api_usage` raises too. A message is
its day and the day of its verdict. `first`, `origin`, `spent`, `failing`, `doubtful`
and `older` are history for the properties; `first` is where the last collection that had no
watermark to go by began. The look-back `RescanDays` is as long as the first window
`InitialDays`, as in the code (7 and 7).
### Brands and chat channels

`brands` and `channels` are the tables by id; `profiles[t]`, `posting[s]` and
`alerting` hold the ids that name them, each with `meant`, the number of the row
that was chosen (history). A handler looks (`BrandingUpdate`, `ScheduleCreate`,
`ChatChannelDelete`, ...) and commits (`BrandingUpdated`, ...) in two steps, other
requests in between; the coroutines of brands only where they await the form.
`NewId` gives ids as the database does. `RunSchedule`, `LoadTarget` and `Posted`
are the three moments at which a running report reads what it is posted to.
### Log Export

One tenant; the clock counts hours. `cursor`, `firstHour` and `gaps` are the
tenant's columns, `recorded` the table `log_files`, `counts[d]` the rows of
`sender_domain_daily` of a day, one per file of that day. `col[c]` holds the local variables of an
active run, with the session's copy of the tenant: the sessions are made with
`expire_on_commit=False` and nothing refreshes the tenant, so a run works on the
row it read when it began and its commits write only the attributes it has set
(`dirty`). A window is three steps: `Fetch` (list and download), `Load`
(`store_batch` reads the day rows), `Commit` (or `Clash`, when a unique constraint
is violated and the window is rolled back). `Refuse` is the answer "400 past".
`Finish` and `Pause` end the session with a commit, `Fail` with a rollback, `Stop`
ends the process.

`gaps` is the set of the hours in the list: `log_coverage` subtracts an hour as
often as the list has it, and the list may have it several times (an hour at the
limit is added again at every look-back, a paused run adds the hours behind the
horizon again), so that the code may count too few hours as covered; the
properties are about counting too many. `listed`, `hidden`, `refused`, `began` and
`overlapped` are history; `hidden` has each hour listed at the limit with the `now` of the
run that listed it, because a slow run may commit a listing that is older than one a
later run has committed. The two log types are one; a partly readable file is
stored like any other; `log_files` older than `RETENTION_DAYS + 3` are not in `seen`
and cannot be listed any more, so `seen` starts as `recorded`. Switching Log
Export or the tenant off has the effect of `Stop` on this tenant.
### The archive

A call of `run_report` stands for its files, `files[c]` is their age in days or -1;
`rows[i]` is the row of a run id, which SQLite may give out again (`ReuseIds`). A
report makes its folder, writes its files and records them in its row at the end
(`Start`, `MakeFolder`, `Write`, `Finish`). The purge is four steps (`PurgeRows`,
`PurgeFiles`, `PurgeRead`, `PurgeSweep`): the rows are deleted and committed before
their files are touched, and the ids known to the sweep are read in a transaction of
their own before it walks the folders. The deletion of a tenant is three. A file may
refuse to go, and `Restart` may fall between any two steps. Nightly purge and days go
on under fairness, so that `FilesGo` can say that no file stays for good. One case is
left in the code: a file that outlived its row shares the life of a run that got its
id (SQLite).

### Jobs, calendar and alerts

`JobReload` splits `reload_report_jobs` into its steps: the jobs are listed, removed
one by one (a job another request removed ends the reload in `JobLookupError`), the
enabled schedules read, and triggers made and added. `ReportScheduler` reloads in one
step. `Calendar` walks through the days of a leap year and the month after it:
`CronDay` and `TriggerDays` translate the weekdays of cron into APScheduler's, and on
each day on which a default schedule fires its period must begin where the one of its
last fire ended. `StallAlerts` has the age of what each stream of a tenant collected,
the stored `AlertState`s and a check in three steps; `KeyReminders` the days (in
parts) a key has left and the stages already announced.

### Domains

`Lookalikes` makes an imitation by one slip after the other (insert, omit, replace,
swap, a confusable pair, words glued on, another suffix) and asks `FindLookalike`,
which is computed as the code computes it: skeleton, edit distance, tokens. `Vendors`
has the mail of a few hosts over days and periods, with the convictions among it.
`DomainChecks` grades records; `DomainPosture` is `cached_check` in its steps, with
two readers, a zone that changes and a DNS that fails.

### Figures

`Effectiveness` gives `posture_effectiveness.build` the days the collectors left of a
quarter, with its gaps; `GradeNeedsEvidence` relates score, weights and what was
collected. In `Campaigns` messages with links and recipients come in one by one, and
`Clustered` is the union-find of the code, folded over the keys in turn;
`ThreatReports` derives exposure, severity and compromise indicators from the same
messages. `Trends` sums months of steady traffic of which days are missing.

### Backups

`create_backup` copies the database, packs the reports, replaces the file and prunes
(`CopyDatabase`, `PackReport`, `ReplaceBackup`, `PruneBackups`), made by the nightly
job and by the console at the same time, while reports are finished and purged.
### Sessions and API keys

`sessions[s]` and `keys[k]` are rows, `members[u]` whether the account is enabled,
`failures[key]` the deque of the limiter: the times of the failed sign-ins it remembers
for an account or the client. `Login` ends at the limiter's word, `Authenticate` is the
password check and what the limiter is told of it, `CommitSession` the new row. What ends all
sessions of a user reads (`StartEnding`, the selection of `end_sessions`) and
commits (`CommitEnding`); every other handler is one transaction. `lastUse` and
`ended` are history. Roles are left to `Accounts`: whoever sends a request may do
what it asks for.
### Single sign-on

A sign-in that was begun is an element of `begun`: its number stands for the state, the
nonce, the PKCE verifier and the code, all drawn at random for it. `cookie[b]` is the one
cookie `etd_sso` a browser has, so a second tab replaces the first one's; `known` and
`certificates` are the dictionaries `_providers` and `_keys`, each entry with the time it
was read. `SsoReturns`, `Exchange`, `VerifyIdToken` and `SsoSignedIn` are the steps of one
callback, between which the provider rotates its keys, moves or stops answering
(`ProviderChange`), an administrator saves or checks the settings, and the process
restarts. An answer may be opened again, late, and in another browser. Every failure takes
the cookie away (`_sso_failed`), so an answer that comes back to the wrong tab ends the
other tab's sign-in too. What `userinfo` adds counts only when it is about the subject of
the token. Which account the person gets is in `Accounts`.

### The activity log

`serving[r]` is a request with its context variable: `Prepare` names the object in a
transaction of its own, `HandleRequest` is the handler, `Record` writes the event before
the answer leaves. Objects are renamed and deleted by the other requests meanwhile; users
are deleted, which the foreign key of `actor_id` turns into a lost event; the process
stops; the database refuses. The two ways of reading, `before_id` and page numbers, go on
while events are added and purged. Two failures leave the request going. A naming that fails
is caught (`activity.py:150`): the event has no name, and the property asks for
one only where the object could be looked up (`named`). A handler that raises is answered
with 500 and its event says failed (`activity.py:218`), also when it had committed:
`schedule_toggle`, `schedule_delete` and `tenant_delete` commit and then reload the jobs,
which may raise. A commit the database refuses leaves no event, because the rollback
expires the user whom `record` would name, and nothing was changed. What a request creates
is not among the objects: `prepare` cannot name it, the handler does so after its commit, and
an error in between (`schedule_create` reloads the jobs first) leaves an event without a name.

## 3. The runs

| run | question | result |
|---|---|---|
| `runs_postgresql` | can anything that stops or is deleted make a row unsupervised, untruthful, not final, or forget a sent mail? | holds on PostgreSQL, with crashes and a database that stays locked through every attempt |
| `runs_alerts` | does every problem reach an alert? | holds without crashes and database errors, for fan-outs and single schedules side by side |
| `catchup_repeats` | does catch-up ever repeat a mail? | only if its first run was lost before it finalized |
| `catchup_live` | are missed reports run, and does every call implement `RunLifecycle` and end? | holds with one crash or shutdown and any administration |
| `runs_id_reuse` | the same truth on SQLite | violated: a run whose tenant was deleted finalizes the row that got its id |
| `etd_client` | does the shared rate hold, are pages complete and in order, does every search end? | yes |
| `collection` | is anything convicted missed, is every day whole, does the API count add up, are errors current? | yes, within the exceptions the properties state |
| `web` | in the browser: is an administrator always left, who hands on rights, does what was ended stay ended and what is used stay open, are guesses limited, do lists and choices hold, is whoever signs in the one the provider confirmed, does the activity log tell every change? | yes, but for the races the properties name |
| `brand_reuse` | "Tenants that used it get the default brand" | violated on SQLite: a new brand takes the deleted one's id and its tenants |
| `logs_collect` | with late files, errors, pauses, capped listings, refusals, long outages and overlapping runs: is nothing counted twice or passed over, is what counts as covered complete, is every file settled? | holds; coverage only for runs that do not overlap |
| `parts` | each of the smaller parts: do rows have their files and files go, do schedules fire on their days for periods that adjoin, are jobs those of the schedules, is every alert told once, are imitations found, do figures claim no more than the data, can the newest backup be restored? | yes, but for the cases the properties name |
| `trend_gaps` | "a gap in collection must not look like an improvement", for all tenants together | violated: the month of the tenant with most days stands for all |

### Disagreements without a run

Met while modelling; the code does one thing, its words or its own other half say another.
They are left as the code has them: the properties leave exactly these cases out, or are
stated for what holds.

Report runs and scheduler:

- Phase 1 of `run_report` is outside its `try`, so a database error there raises ("Never
  raises", says the docstring) and ends a fan-out with tenants left to do (`Raises`).
- A run that failed before it was built keeps `period_start` NULL and is caught up
  although `missed_runs` says failed runs are not; two catch-up jobs of one period may
  overlap in the pool (that is why `catchup_repeats` has one thread).
- A crash between the mail and the row mails the report again at catch-up ("without
  running a tenant twice", CHANGELOG 0.7.0), and a second crash before the catch-up jobs
  ran loses what they were for, since the heartbeat is newer (`scheduler.py:190`).
- A scheduled run interrupted by a crash is marked failed at start-up and never alerted;
  `runs_alerts` therefore has no crashes.
- A job removed by another reload ends a reload in `JobLookupError` half way: an enabled
  schedule may be left without a job until the next change or start (`JobReload`); a job
  that falls due while it is removed is not fired and not caught up. A fan-out that
  crosses midnight takes the period of each tenant's own start (`services.py:376`).
- `cron_trigger` promises "a standard 5-field cron expression", but APScheduler requires
  day of month and day of week both, where cron takes either.

Collection:

- Overlapping runs of Log Export overwrite the list of gaps (`logs.py:369`); a paused
  first run fixes the first hour although nothing was collected of it (`logs.py:312`).
- When the second list of a month fails the first is stored, and the month looks done
  (`stats.py:134`, `:149`); overlapping runs store a month twice, no unique key forbids
  it.
- A flush error leaves the session broken, so `record_api_usage` raises too and the loop
  over tenants ends there (`runner.py:15` says it does not). `_set_stream_error` works on
  a stale copy and may lose or bring back the error of another stream (`runner.py:87`).
- A first complete run of convictions that starts later than the backfill began can
  contradict `models.py:99`. An older overlapping run of statistics that fails puts older
  figures of a day back. A cursor overtaken by a later horizon raises `ValueError` once
  and heals.
- A window that needs more pages than a day's budget never completes; `iter_pages` stops
  at an empty page even with a next token; requests that time out are not counted.

Accounts, sessions, single sign-on:

- Two requests at the same time can each take an administrator away after counting the
  other (`_admin_count`); `AdminRemains` is about requests that do not cross. Two sign-ins
  with one e-mail address that link at the same time leave the later's `sso_id`.
- `end_sessions` skips sessions that are expired by inactivity: they come back if the
  limit is raised or switched off. `manage.py` prints that sessions were ended after
  `reset-password` (`manage.py:100`), which does not end them.
- Every failed sign-in deletes the one cookie, also that of another tab. A provider that
  moves its endpoints is noticed after the hour of the cache, or at "Check".
- The activity log promises "every change" (`activity.py:17`): the event is lost when the
  user is deleted before it is written, and when a request ends in an exception whose
  rollback expired the user.

Brands, channels, archive, backups, alerts:

- `branding_update` writes only what differs from a brand read before the form: a
  concurrent change can leave no default brand although the form chose one. A channel
  deleted while alerts are given to it stays named, and on SQLite a later channel gets its
  id and the alerts.
- An orphaned file whose run id was given out again stays while the new run lives. The
  pruning of empty folders may remove the folder a report has just made (`archive.py:87`).
- A backup holds the database of its beginning and the reports of its end; with
  overlapping backups and one kept, a slow earlier one prunes its own result. Backups made
  by hand count among the "newest seven".
- `check_collection` does nothing without mail set up, also when alerts go to a chat
  channel (`alerts.py:119`); one delivery marks all keys as reminded; a failing backfill
  is never critical.

Figures:

- `_conviction_gap` takes absent statistics and a pending backfill for agreement, although
  its docstring speaks of confirmed figures (`posture_effectiveness.py:50`). `own_checks`
  drops domains whose lookup failed, so part of an answer can raise a score; an older
  concurrent lookup may overwrite a newer one in the cache.
- `vap_index` ranks the earlier period by score only, ties in any order
  (`vap_index.py:88`). Techniques on the rise are counted over incomplete months as well
  (`trends.py:181`). In a translated report the family "Other" of the techniques is lost;
  a retrospective verdict issued after a period's report was made appears in no daily
  compromise report.


### Bounds

- `MaxRuns` (calls of `run_report`) is 2 where two runs interfere (one finalizes
  while the other inserts or is deleted), 4 where catch-up repeats a fan-out of
  two tenants after a crash.
- Two threads: what three could do to one row, two can, since a row is written by
  the thread that owns it, by one that owns an equal id, by start-up or by an
  administrator.
- `FinalizeAttempts` is 2 instead of 5: a failed attempt that is retried and a last
  one that gives up.
- `MaxClock` 1 or 2: due before, during and after the outage; `MaxCrashes` 1, or 2
  for the second crash; `MaxManual` bounds "Run now".
- Tenants and threads are symmetric wherever nothing tells them apart; a run with
  a liveness property uses no symmetry.
- Log Export: windows of 2 hours, a look-back of 1, retention of 2 and a clock of 5
  hours, so that a window straddles the look-back, a late file comes in its last hour,
  and a cursor falls behind the horizon; two files of one day, since a lost or
  doubled update takes two, and the later one never falls behind the horizon, so that
  only being recorded or noted settles it; one run by hand beside the hourly job; one
  fault. A window is as long as the retention, so no run of `logs_collect` has two windows:
  what a stop between two windows of a run leaves is covered by the proofs of `LogExportProofs`
  (`NeverDoubleCounted`, `NothingPassedOver`), for windows of any length. The last hour stands for all time after it, so that liveness is about runs that
  go on.
- `collection`: two runs at a time, the days before, at and after the horizon, one page
  before the last, one fault. `etd_client`: two threads, two windows with three pages;
  time is relative, so no clock is bounded.
- `web`: two requests at a time between what they read and what they commit, two of
  everything a request can confuse (users, sessions, brands, channels, schedules,
  browsers, people, providers). Single sign-on has two sign-ins and one change of the
  world, or one sign-in and two changes, and a cache of two ticks; the activity log two
  requests while it is written and three while it is read with pages of one line.
- `parts`: two reports and one fault for the archive (a row, and one that gets its id);
  395 days with the 29th of February and two ends of a quarter; two streams of
  different patience; two keys with the warning in the middle of their life; imitations
  of two slips; two readers of the DNS cache, with a life of two ticks and a clock of four,
  so that an answer can be too old while another is being made; three messages, which chain through the
  links of a middle one; one report and two backups of which one is kept; three edits by
  two requests for the reload of jobs; six months with three gaps.
- Deadlock is not checked where the bounds stop the instance: when all runs, the
  clock and the crashes are used up. It is checked in `runs_postgresql`, where the
  process may always stop and start again, for Log Export, where time always goes on, and
  for the client.

### Fairness

Threads are run by the operating system (`Work`, `Opens`, `ThreadStep` weakly
fair), the container is restarted (`docker-compose.yml`: `restart:
unless-stopped`; `Boot`, `Recover`, `Start`, `CatchUp`), a process told to stop
exits, and the scheduler's thread fires what is due (`Fire`, `FireCatchUp`).
Nothing is assumed of administrators, of crashes, of the heartbeat or of "Run
now". A database error is not assumed to go away; with `Faults = "transient"` the
last attempt of `_finalize_run` is not refused. In `LogExport` the hourly
job and its run, time and the restart are weakly fair; faults are not, and are bounded, and
a run by hand may even hang for good. In `etd_client` the threads and time go on. In `parts` reports and
deletions that have begun go on, the purge runs every night and days pass; a day may
be kept waiting by a purge at work, so days are strongly fair.

## 4. The proofs

Most theorems are properties that the runs check too, here for every value of the
constants; `theorems` in `PROJECT.json` lists them. Constants have the
assumptions their module states, which every run evaluates. Some theorems need more, each
where a run shows the counterexample or the code promises no more: `NoReuse` and `~ReuseIds`
(no id is given out twice: PostgreSQL, or no deletion), `Undisturbed` (no stop, no database
error, no deletion) for alerts, `PeriodToItself` for what catch-up repeats, and, for the
composed system, that `Jobs` names the two jobs the scheduler starts.

`ReportRunsProofs` holds for every set of schedules, tenants, periods and
threads, for both databases, every number of attempts and every bound, from
`RunsConstants` alone:

- `TypeCorrect`: `RunsSpec => []TypeOK`. The inductive invariant `Typed` adds to
  the types that a thread inside `run_report` has a row, a call and a period, and
  one inside `run_schedule` a schedule: without it `OpenRun`, `Finalize` and
  `AlertRun` could index outside their tables.
- `RunningIsWorkedOn`: `RunsSpec => []RunningHasWorker`. The property is inductive
  together with `Typed`: a row becomes `running` only in `OpenRun`, which gives it
  to its thread in the same step; a thread leaves only by finalizing that row, by
  giving up (`givenUp`), or with the process, whose start ends every running row. A
  thread that finalizes a row it does not own writes a final status, so id reuse
  cannot leave a running row behind. One lemma per group of actions.

What the rows record is proved for `NoReuse == Database = "postgresql" \/
"tenant_delete" \notin Edits`:

- `RecordsKept`: `RunsSpec => [](Blank /\ Dense /\ Ledger)`. Ids are given out once, so
  the id of a run is the number of its call (`IdIsCall`), and the thread of that call
  finds its row as it inserted it, or its tenant is gone (`RowKept`). `Noted` and
  `MailOfCall` tie what a thread holds and every mail in the outbox to that call. Without
  them `ArchiveTellsTheTruth` and `SentIsRecorded` are not inductive: `Finalize` writes
  recipients the invariants know nothing of. `Dense` is what makes SQLite's highest id
  plus one a new id as long as no tenant is deleted.
- `ArchiveIsTrue`, `SentIsKept`, `OutcomesAreFinal`: the two invariants and the action
  property `FinishedIsFinal`. On SQLite with deleted tenants `runs_id_reuse` is the
  counterexample.
- `RunsImplementLifecycle`: `RunsSpec => Life!LifeSpec`, the safety half of the
  refinement, one lemma per abstract action; the fair half stays with `catchup_live`.
- `TroubleIsAlerted`: `RunsSpec => []ProblemsAreAlerted` for `Undisturbed`, as in the run
  `runs_alerts`. `Alerting` says what a thread still owes the administrators of each run
  it made.
- `SchedulerImplementsRuns`: the scheduler's `Spec => RunsSpec`, one case per action. It
  carries the theorems above over to the composed system.
- `CatchUpLooksFirst`, `MissedRunsLookFirst`: `ServedAreLeftOut`, of runs in any order and of
  the scheduler, with any number of workers and any overlap. A catch-up that begins takes
  on a tenant who was mailed the report of its schedule and period only if the call that
  did was lost, or is still inside `run_report`. That second case is what the code leaves open:
  `run_schedule` sees a run only once its period is written. It rests on `Ledger` and on
  `Filing`, below, which needs no assumption on overlaps. TLC checked it with two threads,
  and finds it violated without the second case.
- `CatchUpMailsOnce`, `MissedRunsMailOnce`: `[]TwiceOnlyAfterLoss`, of runs
  in any order and of the scheduler, where that case does not arise. The invariant
  `Once`: the row of a mail is still that of its schedule (`Filing`), no catch-up of a later
  call has mailed the period of a call that has yet to send (`Sending`), and whatever was
  mailed for the period to a tenant a catch-up has still to serve was lost
  (`CatchingUp`), which holds when `run_schedule` leaves out the tenants with a recorded run
  and until the catch-up is done. It needs `PeriodToItself`: while a catch-up works
  on a period no other thread is inside `run_report` for its schedule and period. The
  code does not ensure this: jobs do not wait for one another, and two catch-up jobs of
  a schedule may have one period. The run `catchup_repeats` has one thread, so there it holds
  and the run shows no overlap. TLC checked `Once` with two threads before the proof.

The other modules:

- `AccountsProofs`, from `AccountConstants` and `StartConstants`: `RequestsAreChecked`
  (`Spec => []Sound`) is the typing and what a request was checked for, which the
  other two need. `RightsOnlyFromHolders` (`Spec => RightsAreHandedOn`) follows from it
  step by step. `AnAdminRemains` (`Spec => []AdminRemains`) needs `Guarded`: as long as
  nothing raced there is an enabled administrator, and for every request that has
  decided to take one away and was not overtaken, one who is neither its target nor
  gone (`Spared`), which is what `_admin_count` saw. `AdminRemains` alone is not inductive:
  it says nothing of what a waiting request will commit. The proof needed the history to
  say which requests were overtaken (`overtaken`), where a first version only noted
  that two had decided at the same time.
- `EtdClientProofs`, from `ClientConstants` (any finite set of threads). `PagesArriveInOrder`
  needs `Reached`: a thread has got exactly the pages before the one it asks for, in
  order, and `PlaceOK`: that page is in the search or behind its end. `TenantsKeepTheirRate`
  is a counting argument. `Counted`: the requests of any last stretch of time and those that
  wait fit into the slots given out, up to `ahead`, and one per thread. `Spaced`: for each
  slot still to come a thread waits, so those slots are at most the waiting threads
  (`SlotsHaveThreads`). Together they bound the requests up to now (`RateUpToNow`); a tick
  carries the bound into the past (`TickKeeps`, `RateWasKept`). The order of
  `PagesInOrder` is stated by comparing pages: `FlattenSeq` is recursive.
- `CollectionProofs`, from `CollectionConstants`: `RequestsAreCounted` is inductive with the
  types. `ErrorsAreTrue` needs `Copies`: the copies of running collectors agree with
  the row about every stream no overlapping run made doubtful. `DaysAreCounted` needs
  `DaysCounted`: a collection at work asks for every day from the first one that is not
  counted (`Asked`), so that its commit closes the gap an outage left; it uses that the
  usual days are fewer than the horizon (`DaysBack <= Horizon`: 3 and 89; no form sets
  the 3). `CollectionIsComplete` needs `Covered`: what each collector at work has stored
  so far and what a look-back from its watermark will still find (`Gathering`, `Filling`,
  `Seen`, `Earlier`). The attempt found the property false as first stated: with
  a look-back as long as the initial window (the defaults, 7 and 7) two collections
  that begin before the first complete one leave the oldest verdicts out, which
  the run did not see because its look-back was shorter. The property now counts from
  the later of them, and the run has the code's proportion.
- `ChoicesAreKept` (`WebProofs`): `ConfigurationSpec => []ChoicesHold` for `~ReuseIds`,
  the database of the run `web`; with ids given out again `brand_reuse` is a
  counterexample. `Configured` adds that the ids of channels are their numbers, and what
  every form that was read and every report that is running has in its hands
  (`Chosen`, `Alerts`): a delete must clear what they will commit or find it gone.
- `LogTypeCorrect` and `CountedOnce` (`LogExportProofs`), from `LogConstants` alone,
  for any set of runs and files: `Spec => []LogTypeOK` and `Spec =>
  []NeverDoubleCounted`. `LogTypeOK` is inductive once the clock is known not to be
  before the first retention period (`LogInv`). `NeverDoubleCounted` needs `CountInv`:
  what a run has loaded is at most what `log_files` holds for the day
  (`LoadedIsOld`: the table only grows), a run that overlaps with none is the only
  one active (`Alone`) and what it loaded is what is stored (`LoadedIsFresh`). A
  commit whose files are new to the table then adds their number to a count that
  was no more than the number of the others (`BatchAdds`).
- `NoFileIsPassedOver` and `CoverageIsTrue` (`LogExportProofs`) need one invariant each. `PassInv`
  says, of every file that is not stored, that it is within the look-back of the cursor, too old,
  or excused, and the same for what each run has got through (`BehindRun`) and for the window
  it has listed and not yet committed (`InWindow`): a run that overlaps may set the cursor
  at any time to what it had reached. It uses that a file comes at most the look-back
  after its hour. The attempt found the property false as first stated: a slow run that listed an
  hour before a late file came could, by committing after a run that had seen that hour at the
  limit, withdraw the excuse, so `hidden` now remembers which run it was; and the
  exceptions for gaps and for hours before the first window turned out not to be
  needed. `CoverInv` says that the copy of the one run at work agrees with the row
  (`CopyAgrees`) and that every hour from the first window to the cursor was listed, was
  refused or is a gap (`AskedSinceFirst`).
- `PartsProofs`, for the smaller parts, from the assumptions on their constants. `JobsAreRenewed`
  needs `Renewing`: for every enabled schedule without a job there is a request that
  will still read it or has it in hand to add, unless a reload was ended (`Looked`), and
  what a request no other one crossed has done so far (`Alone`).
  `PosturesAreRecent` needs `Checking`: how old what a reader holds at each step of
  `cached_check` may be. `ReportsCanBeOpened` needs `Archived`: how ids
  and calls belong together when SQLite gives an id out again (`Numbered`), that files of
  reports at work are too young to be swept (`Young`), and that the purge and the deletion
  of a tenant hold only files of rows they have deleted (`Removing`), the sweep only
  folders whose ids were unknown before it began (`Sweeping`).
- `AlertsGoOut` (`PartsProofs`) joins two theorems. `StallsAreTold` needs `StallInv`: the stored
  `AlertState` is as old as the last alert delivered, but for one that is delivered and
  not yet saved and one a stop may have lost (`Noted`), and a stream found stalled is in
  the check that runs, or was told within the day (`InTime`). `KeysAreTold` needs `KeyInv`: the stage
  noted is the last of the stages delivered, which are an initial part of week and last
  day (`StageTold`), and the day before it expires a key has been through the job of its last
  day (`LastDayTold`).
- `BackupsCanRestore` (`PartsProofs`): the property speaks of finished backups, `BackupInv` also of those
  being made (`UnderwayOK`: what was copied and packed so far, judged as if it were
  finished now) and of when each report was there (`Dated`); that pruning keeps the
  newest of a kind (`NewestStays`) is the minimum of a finite set of numbers.
- `ImitatorsAreReported` (`PartsProofs`) reduces the property to one step of the report: a domain that
  resembles an own one or a listed vendor is left out of the established ones, hence not
  protected, hence compared. What counts as resembling is a constant of `Vendors`, so the
  theorem holds for `find_lookalike` whatever it finds.
- `GradesHaveEvidence` (`PartsProofs`) is arithmetic on the weights. Without the convicted
  messages 50 points of weight are unknown and at most 55 known, without DNS 20 and at most
  75, so that the evidence stays under 80 percent. Threats left and open domains cost 30 of
  the points, of which there are at most 105, however few of the other checks apply, and 75
  percent cannot be reached. `RoundedUp` says what Python's `round` adds at most.
- `SessionsProofs`, from `SessionConstants`: the invariant `Orderly` (types; a row that was
  ended is revoked or gone, `EndedRows`; what a request selected before it ends sessions,
  `RequestsKnown`; how far what is written may lag behind the last use, `UsesWritten`) gives
  `EndsAreFinal`, `UseKeepsOpen` and `ListsAreTrue`. `SignInsAreLimited` needs `Attempts`:
  failures still within the window plus requests past the limiter are at most the limit
  plus the other visits; the property speaks of the failures alone, which a request
  between the question and the answer will raise. It counts indexes of the deque, with
  the library's facts about cardinality. The proof made `failures` the sequence of times
  the code keeps: a count per time could not say what falls out of it first.
- `SignInsAreTheirs` (`WebProofs`): `SsoSpec => []SignInsAreConfirmed`, from
  `SingleSignOnConstants` alone. The invariant `Confirmed` says of every kept key that
  it was the provider's when it was read (`KeysKept`, `WasCurrent`), and of every callback,
  at each of its steps, that its sign-in was begun in its browser, is unused, and who
  confirmed it (`CallbackOK`): the property itself only speaks of the last step.
- `TheLogTells` (`WebProofs`): `LogSpec => []ActivityIsTold`. `LogInv` binds a change to its event by the
  number of the request: a number is with one request or one event (`Numbered`), and a request
  that has committed carries what its event will say (`Told`). For the readers it says that events
  are ordered by id and by day, so that a purge takes the oldest (`InOrder`), and that
  what a reader has not seen lies ahead of it (`Ahead`).

Model-checked only: liveness (`FairLifecycleHolds`, `MissedIsRun`,
`EveryFileIsSettled`, `EverySearchEnds`, `FilesGo`), which TLAPS cannot reach with
fairness; what folds over data compute, since induction over data is out of its
reach: `ImitationsAreFound` (edit distance), `ThreatsAddUp` (union-find, and sums over
the sets it finds), `CalendarHolds` (its months are added up by a recursive function); and
`GapIsNoTrend`, which is about the rates and gaps of its instance: with more
different days a gap can shift the rate by more than the 20 percent. The three runs that
expect a violation have their counterexamples from TLC.

## 5. Not modelled

Rendering, texts, translation, the pages of the user interface, demo data, most
commands of the console, migrations, encryption, the reports that are queries and
layout (executive summary, techniques, audit and log reports, health check). They keep
no state that the properties are about, or are libraries. The purge of collected rows
older than `retention_days` is left out: it is months behind the cursors.

## 6. The plan

1. Done: the modules above; proofs about `ReportRuns`, `LogExport`, `Collection`, `Accounts`,
   `Sessions`, `Configuration`, `SingleSignOn`, `ActivityLog`, `EtdClient`, `ReportScheduler` and
   the parts `JobReload`, `DomainPosture`, `Archive`, `StallAlerts`, `KeyReminders`, `Backups`,
   `Vendors`, `Effectiveness`.
2. Left, as lemmas about operators: the weekdays of cron (`CronDays`, `TriggerDays`), the
   figures of `ThreatReports` for campaigns taken as given, and the range of rates for which
   `GapIsNoTrend` holds.
3. Left to model: the purge of collected rows, the health check, and a reload of jobs that
   lets an instant pass (see the hazards without a property).
