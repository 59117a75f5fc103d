# Verification of the SEO Content Control Center

TLA+ modules that model the parts of the repository whose correctness depends on
the order of things: several requests on one row, jobs that run twice, answers
that get lost, webhooks that arrive late, links that are clicked twice. TLC
checks the modules on small instances; TLAPS proves the most important results
for every value of the constants.

Contents

1. The system
2. Modules and how they correspond to the code
3. The runs: what each checks and what it shows
4. Bounds
5. Fairness and termination
6. Proofs
7. Where the code and its documents part
8. What is not modelled
9. Plan

To check: `tlc -config so_races.cfg MCSafeOperation.tla` (each run of section 3
names its module and configuration), `tlapm SafeOperationProofs.tla`.

## 1. The system

Content Signal (the repository's `README.md`) is a Next.js application
(`apps/saas`) over PostgreSQL, a BullMQ worker (`apps/worker`) over Redis, and a
WordPress plugin (`wordpress-plugin`). Nearly every operation of the application
is a method of `prismaRepository` (`apps/saas/src/lib/app-repository.ts`),
and nearly every method has one shape:

    read rows  ->  check them, return or throw  ->  $transaction(write by id)  ->  enqueue

PostgreSQL runs at its default isolation, READ COMMITTED; there are no row locks
and the updates carry no condition on what was read (one does: the counter of
two-factor codes). So between the check and the write any other handler may
write the same row. The modules keep these two (or more) steps apart: an action
`XRead` is the part up to the guard, `XWrite` the transaction.

A second repository, in memory (`apps/saas/src/lib/dev-store.ts`), serves tests
and development behind the same interface. Node.js runs one at a time and the
methods have no awaits, so each of its operations is one step. It says what the
database repository promises while requests do not meet, and is used here as that:
as the abstract specification.

### Components, their state and operations

| Component | State | Operations | Talks to |
|---|---|---|---|
| Safe operations | `BulkOperation`, `BulkOperationItem`, `BacklogTask` rows; two BullMQ jobs | preview, dry run, confirm, start, manual result, rollback, retry; execute and rollback jobs; the plugin's apply endpoint | queue, worker, plugin (signed HTTP), billing (entitlement), approvals (confirmation) |
| Client approval | `OperationApproval` rows | request a link, answer it, expire it | safe operations: an approval is a confirmation |
| URL monitoring | `UrlSnapshot`, `Event`, `Regression` rows; scan jobs | scan (crawl, save, diff, detect), schedule, rescan, pause | queue, worker, Search Console (traffic signal), plugin events |
| Monitored URLs | `MonitoredUrl` rows | add, pause, resume, under a cap per site | monitoring |
| Members and invitations | `OrganizationMember` rows | invite, resend, cancel, accept, change role | billing (seat limit) |
| Billing | `Subscription`, `BillingWebhookEvent`, `PlanGrantCode` rows | apply a webhook, issue, revoke and redeem a code; resolve access | everything that asks for access or a limit |
| Sites | `Site` rows | create under a limit | billing |
| Plugin connection and content sync | `WordPressConnection`, `WordPressConnectionChallenge`, `SyncedContentItem` rows; WordPress options and cron events | challenge, exchange, disconnect on both sides; sync runs in batches | safe operations (the connection), billing (pages limit), local audits (findings travel with a page) |
| Plugin local audits | options of WordPress | queue, run, fail, ignore a finding | content sync |
| Plugin system events | options of WordPress | remember versions, report updates | monitoring (events of the timeline) |
| Accounts | `User` rows, sessions, links, counters | register, log in, log out, enroll, confirm, disable, reset, verify | members (an invited address registers) |
| Search Console sync | connection, daily metrics, page insights | connect, choose a property, sync by job or by request | audits (insights), monitoring (traffic signal) |
| Audits and backlog | audits, issues, tasks | audit, triage, create tasks, change status, outcome, due date | Search Console, safe operations (the task of an item) |
| Weekly deliverables and alerts | run rows, notifications | schedule, gather, mail, settle | queue, worker, backlog (what is overdue), billing |
| In-memory repository | maps | all of the above, in single steps | — |
| Request doors | sessions, the `OrganizationMember` row of who calls | 62 API routes, 51 server actions, 5 pages: credentials, session, quota, permission, operation | all of the above |
| Rate limiter | counters in Redis and in each process | count a call, let it pass or refuse it | the doors |
| Worker process, notifications, scoring, release storage, marketing site | — | — | see section 8 |

### What is hard

* **Check, then write by id.** Two handlers pass one check and both write.
* **Commit, then enqueue.** The operation is RUNNING before its job exists; the
  enqueue can fail, or fail although the job did arrive, or never happen.
* **Deterministic job ids.** `Queue.add` with an id Redis still knows adds nothing,
  finished jobs included, and finished jobs are retained
  (`packages/queue/src/producer.ts`).
* **At-least-once jobs.** A worker that dies or loses its lock has its job handed
  out again, on top of whatever the first run left behind.
* **A remote write with an answer that can be lost.** WordPress may have written
  none, some or all pages of a call whose answer never comes; a token may have been
  replaced although the plugin never heard of the new one.
* **Several saves, one job.** A monitoring scan saves a snapshot, events and
  regressions in separate transactions; a digest is mailed to each member, and the
  row that says so is written after.
* **Events out of order, more than once.** Stripe's webhooks; WordPress hooks.
* **Count, then create.** Seats, sites, monitored URLs, synced pages.
* **A copy that is made while its source changes.** Posts are paged by offset
  while authors publish and delete; Search Console rows are replaced while a member
  chooses another property.
* **Checked, then done.** An operation reads the caller's membership once, before the
  statements that do its work; a page decides what to read from a role it read before; a
  handler makes two calls, each with a check of its own; an operation commits and then throws.
* **Read in two statements.** `findFirst` with `include` outside a transaction is two SELECTs,
  between which others commit: a disconnection reads the site and then its connection.
* **Read in one form, written in another.** What the plugin captures of a page is not always what
  WordPress stored, and a rollback writes the captured form.
* **Used once.** Connection challenges, two-factor codes, reset and verification
  links, plan codes, approval links.

What makes each component correct:

* *Safe operations*: no page is written before somebody confirmed; nothing is
  reported as applied that was not; items, operation and task settle together; a
  rollback restores the values that were captured before the first write, not later ones; a
  started operation settles.
* *Approval*: "approved" means this link confirmed; one open link; one confirming
  party; answers are final.
* *Monitoring*: the timeline is exactly the differences of consecutive snapshots;
  a page lost to search raises a critical regression; a regression cites evidence.
* *Members*: one owner; only the latest link works; decisions are final; seats
  stay within the plan.
* *Billing*: the row says what the last stored event said; a replay changes
  nothing; a code pays for one subscription; a grant gives access.
* *Limits*: never exceeded one request at a time, and exceeded by at most one for
  each further request in flight.
* *Plugin*: a site that says connected is; both sides hold the same
  token once nothing is under way; a challenge connects once; the copy of the
  content advances, and catches up; nothing arrives long after a disconnection; what is
  ignored stays out; an update is told once.
* *Accounts*: a code opens one session; a reset ends what was opened before; the
  second factor is asked for while it is on, and only turned on by a secret its owner
  showed to work.
* *Doors*: whatever is done for a member, the member was allowed it at some time since the
  call arrived; what must be counted is counted; what was done before an operation that is
  refused or fails has changed nothing, and few operations keep a change although they fail.
* *Reports*: stored reports advance; audits cite what was in force; triage and
  baselines outlive later audits; one task for a finding; an outcome only of what is
  done; the digest reaches everybody, and stays quiet once it is settled.

The hazards of this code, each at its line, are under `hazards` in `PROJECT.json`.

## 2. Modules and how they correspond to the code

    JobQueue ------+--> SafeOperation <--- MCSafeOperation, SafeOperationProofs
                   |         +-- implements until a rollback --> DevOperations
                   |
                   +--> Monitoring <--- MCMonitoring, MonitoringProofs
                   |         ^
                   |    RegressionRules
                   |
                   +--> Deliverables --+
                        Backlog -------+--> Reports <--- MCReports, ReportsProofs
                        SearchConsole -+        +-- implements (proved) --> DevReports

    OperationApproval <--- MCOperationApproval, OperationApprovalProofs
             +-- implements (proved) --> DevOperations

    Subscriptions --+
    Memberships ----+
    Sites ----------+--> Workspace <--- MCWorkspace, WorkspaceProofs
    MonitoredUrls --+        +-- implements, three times --> CapacityGate <--- CapacityGateProofs
                             +-- implements --> DevStore

    PluginConnection --+
    ContentSync -------+--> SitePlugin <--- MCSitePlugin, SitePluginProofs
    LocalAudit --------+
    SystemEvents ------+

    Operations --> ApiRoutes, ServerActions, Pages --+
    RateLimits --------------------------------------+--> Doors
                                                            |
    Accounts ----------------------------------------------+--> Entrance <--- MCAccounts, EntranceProofs

`PROJECT.json` maps every definition to the lines it translates. A definition
commented *mutant* is a wrong version of the definition after it; it is never used
by a specification and records which mistake a property would notice.

**`JobQueue`** — one BullMQ job under a deterministic id, as operators on a record
(state, attempts spent, stalls). `Add`, `Take`, `Finish`, `Throw`, `Stall`. BullMQ
is a library; the module models what `packages/queue` configures and the code
relies on. The delay of the exponential backoff is not distinguished from
waiting.

**`SafeOperation`** — one operation through all four parties.

| Variable | In the code |
|---|---|
| `op` | `BulkOperation.status`; `confirmedAt` and `rollbackLogged` are the activity-log entries the code searches; `manual` is a history of the manual result route |
| `items` | per `BulkOperationItem`: status, `beforeValue`, `afterValue`, status of its `BacklogTask` |
| `reqs` | handlers between their steps (`write`, `enqueue`, `queueFailed`, `markFailed`) |
| `jobs` | the execute and the rollback job in Redis |
| `runs` | each worker slot: the results it holds, and whether it still holds the lock |
| `calls` | the apply request a slot sent, which outlives the slot |
| `page`, `origin` | for each SEO field, what WordPress stores of a page; history of what was there before the first write |
| `site` | connected, entitled, has a queue: inputs that change |

Actions: `CreatePreview`, `DryRunRead/Write`, `ConfirmRead/Write`,
`StartRead/Write`, `FinishRead/Write`, `RollbackRead/Write`, `RetryRead/Write`,
`Enqueue`, `EnqueueFails`, `QueueFailureRead`, `MarkQueueFailure` are the routes
of `app-repository.ts`; `LoadJob`, `RejectJob`, `Respond`, `CallLost`,
`RecordRead`, `RecordResult`, `RecordRefused`, `CompleteJob` the worker
(`apps/worker/src/bulk-operations/handlers.ts`, `live.ts`); `ApplyItem`,
`RefuseItem` the plugin (`SafeOperationEndpoint.php`). The environment evicts
retained jobs, edits pages, disconnects the site, changes the plan, kills the web
process or a worker, and takes a worker's lock.

What the endpoint does to values is not the identity, and is a parameter: `ReadAs` is the JSON value
`readSeoValues` makes of what is stored in a field, `StoredAs` what `writeSeoValues` stores for a JSON value;
any two functions, so what is read may say less than what was stored. A read takes all
fields (`SeoValues`), a write those that are named (`Overwritten`): a plan names some, a
restore all of them, also fields the plan left alone. A value column holds such a set of values,
null, or *evidence*: JSON the apply endpoint refuses, which is what a preview stores as `beforeValue`.
In the code the two functions differ from the identity like this (`SafeOperationEndpoint.php:390-700`):
markup is stripped from texts, white space collapsed, texts cut at 512 or 1024 characters; what is
no URL is dropped; a Yoast robots flag `2` is read as false and
stored as `0`; of a Rank Math robots list only the two flags are read; `update_post_meta` takes
backslashes off. A value a restore is refused for is `RefuseItem`.

**`OperationApproval`** — the links of one operation against the member's own
confirm and start. Requesting a link has two steps inside its transaction, since
`updateMany` picks the rows that are pending when it runs.

**`RegressionRules`** — `diffSnapshots` (`packages/monitoring/src/diff.ts`) and
`detectRegressions` (`regression-engine.ts`) as operators; the order of events is
kept, because rules cite the first event of a kind. Fields no rule looks at are one
field.

**`Monitoring`** — the scan handler of one URL, one action per save
(`apps/worker/src/monitoring/handlers.ts`, `live.ts`), the scheduler's window
jobs, manual rescans, pausing, time.

**`Memberships`, `Subscriptions`, `Sites`, `MonitoredUrls`** — the handlers of
`app-repository.ts` on these rows, each a read step and a write step.
`Subscriptions` keeps its rows in the order of `updatedAt`, because access is read
from the row updated last (`getDbCommercialAccess`,
`resolveCommercialAccess`). Whether a unique index refuses a write is part of the
write step.

**`Workspace`** — their composition: the limits of `Memberships` and `Sites` are
not variables but what `getDbBillingLimitContext` makes of the current
subscription, so a webhook may move them between a handler's count and its insert.

**`CapacityGate`** — the abstract specification of a limit: count, and if that is
below the limit, create in a later step. `Workspace` states that members, sites and
active URLs implement it (`LimitsImplementGate`) under refinement mappings: the
things held are the counted members, the sites, or the active URLs; a pending
creation is a handler between its count and its write. An acceptance and a resumed URL that
is active already map to `Renew`, a cancellation or a pause to `Release`.

**`PluginConnection`** — one site's connection: challenges (`createPluginConnectionChallenge`,
`exchangePluginConnectionChallenge`, in `plugin-connection.ts`), the row with its token, the plugin's stored
token and its recurring event, disconnection from the dashboard and from the
plugin. A disconnection takes three steps: it reads the site (`SiteRead`), then the connection
(`ConnectionRead`), two statements of one `findFirst`, and writes what they call for
(`DisconnectWrite`). The answer to an exchange or a disconnection is a step of its own, and can be
lost. Nobody has a token it was not given; the signature is not modelled beyond that.

**`ContentSync`** — a run of `SyncScheduler::runSync`: collect a batch by offset
(`ContentCollector`), send it, authenticate it, count it against the plan, upsert
it. Runs overlap, requests are lost, authors publish, edit, hide and delete
between the steps. A row keeps the revision of its page and the evidence of a finding.

**`LocalAudit`** — the plugin's own audits: queued and scheduled runs, killed
processes, ignore rules that are saved in two options. **`SystemEvents`** — the
versions the plugin remembers and the events its hooks send.

**`SitePlugin`** — their composition: a batch is accepted by the connection of
`PluginConnection`, carries the findings of `LocalAudit`, is started by the
schedule, and events are sent while a token is stored. `late` counts batches that
arrive after a disconnection, `losses` requests that were lost.

**`Accounts`** — one address: its row, its sessions, its reset and verification
links (`auth.ts`, `two-factor.ts`, `totp.ts`, `password-reset.ts`, `email-verification.ts`). A
code is its secret and its time step; a session remembers, as history, the password and
the code it was opened with.

**`Operations`** — what the roles permit (`rbac.ts`), and every operation a request can
reach with what it asks for: the permission it gives `requireDbOrganizationAccess`, whether it
passes its site, and whether it changes anything. **`ApiRoutes`, `ServerActions`, `Pages`** —
for each route file, each group of actions in `actions.ts` and each page that reads, the
steps it takes in their order. A permission, an order, a forgotten check: what can be wrong
with "who may do this" is here, as data.

**`RateLimits`** — `rate-limit.ts`: buckets by store and policy. `Counting` gives the stores
that count one call: the memory of a process without Redis, Redis, or both when the answer of
Redis is lost. A process that ends takes its memory with it.

**`Doors`** — one user's call at any of these doors, one action for each kind of step:
`Credential` (origin, signature, platform owner), `FindSession`, `Meters`, `Check` and `CarryOut`
or `Fail` or `FailHalfway` for an operation, `Skip` for a read a page does not make. `FailHalfway` is an
operation that throws after a commit of its own; `Operations` marks the five that can (`Halfway`), and
`call.kept` remembers which did. `Check` and `CarryOut` are apart, as the membership is read before the operation's own statements. Owners change
the member in between (`ChangeRole`, `ChangeScope`, `Join`). `call.seen` is history: every
form the membership had since the call arrived. `DoorsAreSound` collects what the properties need
of the tables of steps themselves, apart from anything that happens: an operation has the session,
the origin, the owner's list and the quota it needs before it (`DoorsAreGuarded`), its permission
implies what the documents ask for, after a change nothing follows that could be refused or
fail (`ChangesComeLast`), only the five of `ChangeMayStand` fail halfway (`FewKeepChanges`), and a page reads for a role what that role has.

**`Entrance`** — `Accounts` and `Doors` together: the sessions a call can come with are those
of the account, and end when it logs out or resets its password. Every behaviour of
`EntranceSpec` is, seen through the variables of `Accounts`, one of `Accounts` (`AccountStep`
is its `Next`, `CallStep` leaves them alone; `EntranceKeepsAccounts`), so what is proved of the
one holds of the other. `EntranceAssumption` states `DoorsAreSound`, a formula without constants that
every run of `Entrance` evaluates over all doors, members and sites.

**`SearchConsole`, `Backlog`, `Deliverables`** — copying a property's metrics and
insights by the worker or by a member; audits that compare with the insights stored
last, triage and tasks; the weekly digest, with `JobQueue`. **`Reports`** composes
them: audits read what the sync stored, a digest also alerts about what is overdue in
the backlog, and all of them ask for the plan. Both repositories give a task an id of its own, so
`DevReports` keeps tasks by id; those the database makes of candidates have ids too, which the
in-memory repository does not use.

**`DevStore`, `DevReports`, `DevOperations`** — the operations of the in-memory
repository, each one step: members, sites, URLs and plan codes; Search Console data, audits
and tasks; bulk operations and their approval links. They are specifications of
their own, and `MatchesDevStore`, `MatchesDevReports`, `LifeCycleKept` and
`MatchesDevApprovals` state that the database repository, with its handlers, its
transactions, its queue and its worker, implements them while requests do not meet. What the
in-memory repository does at once (a rollback, for instance) the database hands to
a job; section 7 lists where the two differ.

## 3. The runs: what each checks and what it shows

Runs that pass:

| Run | Module | States | Question |
|---|---|---|---|
| `so_sequential` | `MCSafeOperation` | 761,100 | One request at a time and no job run twice: do item, operation, page and task agree through any sequence of executions, rollbacks and retries? |
| `so_races` | `MCSafeOperation` | 710,574 | What survives two interleaved requests, crashes, lost locks and lost answers? |
| `so_live` | `MCSafeOperation` | 76,240 | Does a first execution and a first rollback always settle? |
| `oa_sequential` | `MCOperationApproval` | 9,538 | Are answers final and true when a handler may die between its database steps? |
| `mon_scans` | `MCMonitoring` | 1,037,450 | Is the timeline complete, honest and alarmed? |
| `ws_workspace` | `MCWorkspace` | 222,121 | Do members, billing, sites and URLs keep their promises alone and together? |
| `sp_plugin` | `MCSitePlugin` | 228,500 | Do dashboard and plugin agree on their connection, and is the copy of the content sound? |
| `sp_live` | `MCSitePlugin` | 25,809 | Does the copy catch up once authors rest? |
| `ac_accounts` | `MCAccounts` | 1,512,495 | Do codes, links and sessions mean what they say, and does every door ask for them? |
| `re_reports` | `MCReports` | 189,383 | Are reports, audits, tasks and digests true to what they were made from? |

*Safe operations.* `so_sequential`: `StatusesAgree` (nothing is left RUNNING once
the operation settled, COMPLETED means all items, ROLLED_BACK means none is
still applied, the backlog tells the same story), `RollbackRestores` (the value kept for a
restore is the one the endpoint read before the operation first wrote the page; a page reported as rolled
back holds in every field what that value is stored as, whatever answers were lost and however
many attempts it took; and planned values are not applied again after it),
`LifeCycleKept` (until a rollback, handlers, queue and worker implement
`DevOperations`; from then on the status follows the life cycle). The faults are
refused items, lost answers, failing enqueues, evicted jobs, a disconnected site
and a lapsed plan. `so_races`: `NoWriteBeforeConfirmation` and
`NoPhantomCompletion`, the two promises that hold under every interleaving.
`so_live`: `StartedSettles`. All but the last are proved too.

*Approval.* `ApprovedConfirmed` under any interleaving; for requests one at a
time `OneDecides` (only the last link is open, the operation is confirmed once,
answers are final, nothing that ran is confirmed again) and
`MatchesDevApprovals`. All three are proved too.

*Monitoring.* One run over four environments, each varying one thing: what the
crawl finds (`Scans`), where the scan dies (`Crashes`), two workers with one job
(`Duplicates`), time (`Schedule`). `HonestRecords` (events compare consecutive
snapshots, regressions cite events of their rule) holds in all;
the parts of `ChangesAreTold`, `TimelineComplete` and `RegressionsMatchChanges` (one baseline, one
regression for a change, a loss raises one), state their hypotheses (`OneAtATime`, `NothingLost`,
`NothingFails`), each met by at least one environment; `RescannedEveryOtherWindow` when
workers keep up.

*Workspace.* One run over ten environments: members, billing, sites and URLs, each
with one request at a time and with two together, and two in which requests do
not meet and time stands still. One at a time: `DecisionsAreFinal` (a token
belongs to a pending invitation, only the latest link accepts, what was accepted or
canceled stays), `WithinLimits`, `RowsFollowLedger` (rows say what the last stored event said,
replays change nothing, a code pays once). Together: `OneOwner`,
`LimitsImplementGate`. Standing still: `MatchesDevStore`.

*Site and plugin.* Eight environments. Of `StatusFollowsConnection`, `NeverOverstated` (a site that
says CONNECTED has a connection in force; only one that never had any is PENDING_CONNECTION) holds in all,
`ConnectionShown` (a connection in force is shown) for requests one at a time; two together do
hide one (section 7).
`SyncWithinBounds` (batches after a disconnection, pages over the plan) and,
of `PluginTells`, `UpdatesToldOnce` hold in all; `BothSidesAgree` for requests one at a time although
answers are lost; `CopyAdvances` for one run beside authors and audits;
its other part, `IgnoredStaysOut`, for audits and rule changes one at a time. `sp_live`:
`CopyCatchesUp`, where two runs do overlap, a post is edited under them and a
request is lost.

*Accounts and doors.* Ten environments, seven of them of the account alone. `CodesOpenOneSession`, with up to three logins that
meet; `ResetsEndTheOld` for requests one at a time, with links that are superseded,
expire and are used; `SecondFactorHolds`, of which the part about secrets holds
however requests meet. Two have one call at each door (`CallingAs`, for each role, who may
be given another meanwhile; `CallingFor`, for a member with one of two sites), by a user who may
log out or join while it is under way. `CallsAllowed`: what is carried out was asked for by
somebody who, at some time since the call arrived, was an active member with the permission and
the site the documents name (API_SPEC.md, SECURITY.md:59-120, QA_CHECKLIST.md), no viewer who
changes anything but own notifications, no editor near billing, from a page of ours or signed;
and the platform's operations by its owners only. `RefusalsComeFirst`: what a call carried out before
an operation that is refused or fails has changed nothing, even where a handler makes two calls and the
role changes between them; the operation that fails has changed nothing either, but for the five of
`ChangeMayStand` (section 7 says what these leave); and a page asks for nothing its reader is refused. The tenth, `Repeating`, is many calls
at one door: `QuotaHolds` says that what the documents list as limited was counted first, the
plugin's and Stripe's calls before their signature is looked at (SECURITY.md:21-23), and that a
store lets at most `2 * Limit - 1` calls pass in any period as long as a window, which is
what a window that does not slide can promise.

*Reports.* Ten environments. `WorkIsKept`, which is `EvidenceKept` (what is stored advances,
audits read the property in force, baselines are kept, triage survives) and `TasksAgree`;
`DigestsDelivered`, and `MatchesDevReports`. Each names the number of syncs,
requests or executions it is about; triage, the bound on duplicate tasks and the
bound on copies of a digest are about those that meet.

Runs that show a difference between the code and what is said of it
(`so_retry_dropped`, `ws_grant`) are explained in section 7.

## 4. Bounds

* *Safe operations.* Two items (`so_sequential`, `so_live`) are the fewest for which
  one succeeds and one fails; one item suffices in `so_races`, whose properties are
  about each item alone. Two requests, two slots and two jobs are the fewest that
  interleave. Attempts: the configured 3 in `so_sequential`; 1 in `so_races`, where
  repetition comes from stalls and from the second request; 2 in `so_live`. One stall per
  job is BullMQ's default. A page has a title and, in `so_sequential`,
  a Yoast robots flag: the plan writes the one, a restore both, and the flag starts as `2`, which
  is read as false and stored as `0`, so the restored page differs from the original. The title is the one before or
  the planned one; an editor (`so_live`) moves between them. Nothing else is bounded: retries and
  rollbacks repeat without a counter.
* *Approval.* Three links: one answered, one superseded, one open. One request that
  may die.
* *Monitoring.* `MaxClock` = 7 with `Interval` = 2 gives four windows, and a scan
  can be late, exactly at the cutoff, or past it. `MaxRescans` = 2 with a page that
  changes at any time gives three snapshots with the scheduled scan, so a change
  and its reversal. Each environment lowers the bounds it does not need.
* *Workspace.* Four people, of whom one founder; limits of 2 members on trial and
  3 on STARTER, so an upgrade matters and a fourth person never fits one at a time.
  Three links cover an invitation that is resent twice. Two customers, three events
  and one redeemed code cover an event before, between and after another
  subscription's. One or two sites; two active URLs of three.
* *Site and plugin.* Three challenges: one used, one superseded by a disconnection, one
  that connects again. Three posts in batches of one, of which `MaxBatches` = 2
  reach only two, so a post can shift into and out of the reach of a run. `MaxEdits` bounds
  the authors, not the runs. Two runs, two auditors and two requests are the
  fewest that meet. Versions go up by one, `versions` bounds them.
* *Accounts.* `MaxClock` = 3 steps of a code, so one that is late, in time and early;
  two secrets, so one enrolled and one pending; three links and four sessions, so a
  link that is superseded, used and expired, and sessions from before and after.
* *Doors.* Two sites, one of them the call's, are the fewest of which one can be out of scope. One
  change (`moves`) while a call is in flight: each operation of a call looks at the member once,
  so one change before, between or after them is every case of two steps; what happens
  between calls is covered by the initial states, which are all roles and scopes. Two calls in a
  window of two units (`Limit`, `Window`), and five units of time: one full bucket that resets
  in the middle of a window, and another after it. Two stores: Redis and one process.
* *Reports.* Two properties and two weeks, three revisions of what a property
  reports; one finding of content and one of traffic; two audits and three tasks, so
  that a duplicate has room; two executions with two attempts and one stall.

The bounds on the environment of the composed modules (`Within`, `setting`) are
conjuncts of the guards, named after what they bound, and only cut the
environment off: no handler that began is prevented from ending.

Symmetry is used for requests, slots and other interchangeable values (never for the
founder, who is named), in runs without liveness properties.

## 5. Fairness and termination

`so_live` assumes, in `FairSpec`, weak fairness of

* `RequestContinues(r)`: a handler past its guard finishes; it is sequential
  code with awaits of PostgreSQL and Redis, and the run has no crashed web process;
* `WorkerStep(w)`: each slot of the worker keeps taking and finishing jobs; BullMQ
  polls without end and the handler's calls have time-outs;
* `PluginStep(w)`: WordPress handles the request it received.

Nothing is assumed of members, editors, the connection or the network: they may act
or not, and the lost answer is an alternative, not a fair action. The run
excludes retries (section 7), crashes of the web process between commit and
enqueue and plan changes: with any of these the operation can stay RUNNING, and no
code looks for it.

`sp_live` assumes, in `LiveSpec`, weak fairness of

* `EnsureSchedule`: every page load of the plugin's admin schedules the recurring
  event if it is missing (`SyncScheduler::ensureRecurringSync`);
* starting a scheduled run: WP-Cron runs what is due;
* `GoOn(r)`: a run that began goes on to its next batch, and the application answers
  what it received.

A lost request is an alternative the fairness of `GoOn` does not exclude; their
number is bounded (`losses`), since a site whose every request is lost is never caught up
with. `CopyCatchesUp` asks for a connection that stays (`<>[]InStep`).

Every cfg says `CHECK_DEADLOCK FALSE`. An operation that is rolled back and
whose jobs are finished has nothing left to do; approvals run out of links, and the
other environments out of their bounds. `StartedSettles` and `CopyCatchesUp` are the statements
that something does not stop too early.

## 6. Proofs

Assumptions are the named `ASSUME`s of the modules: `QueueAssumption` (at least one
attempt), `SafeOperationAssumption` (the value constants are distinct),
`ConversionAssumption` (`ReadAs` and `StoredAs` are functions between what is stored and what is
read), `ApprovalAssumption`, `WorkspaceAssumption` (finite sets, the trial has a users
and a sites limit, no plan's limits exceed `MaxSeats` and `MaxSites`; an event is only known
when its plan is one of the code's, which is what `normalizePlanCode` sees to, and so is the plan a
code grants),
`AccountsAssumption` and their like. `SyncAssumption` asks for finite sets of posts, runs, requests,
audit processes and administrators (each is a PHP process of one site), that no process is both
an audit and an administrator's request, and that WordPress itself is not one of its plugins; how
many there are, the batch size, the number of batches of a run and of edits are any. `CapacityGate` is used through
`INSTANCE`, so its hypothesis `GateParameters` is stated in its theorem and
discharged for all three instances in `WorkspaceProofs`. `ReportsAssumption` asks for finite sets of
properties, syncs, requests, slots and findings, at least one audit, revision and digest, and that a
behaviour that starts with insights of two weeks, or with a task, has a property and a week, or a
finding, for them.

**`SafeOperationProofs`**

* `TypeCorrect`. `TypeOK` is not inductive: a page gets the payload of a call, and
  `TypeOK` allows null there. `PayloadOK` says that what is still to be applied is
  an applicable value; `TypeInv == TypeOK /\ PayloadOK` is inductive. One lemma for
  each group of actions (`BeginsType`, `ContinuesType`, `WorkerType`, `PluginType`,
  `FaultType`).
* `ConfirmedWrites` (`NoWriteBeforeConfirmation`). `ConfirmedInv`: either the operation
  was confirmed at some time, or nothing downstream of a confirmation exists: no status after
  CONFIRMED, no request past a guard that asks for one (`PastConfirm`), no slot at
  work, no call, no page written. The confirmation is never taken back, so the
  invariant does not care how requests interleave, which is why the property survives
  the races that break the life cycle.
* `HonestCompletion` (`NoPhantomCompletion`). `WrittenInv` carries "written" along the
  path of a result: `RepliesWritten` (the plugin's reply says COMPLETED only for a
  page it wrote), `ResultsWritten` (so do the results a slot holds), `ItemsWritten`
  (so do the rows). `ManualKept`: the flag of a manual result is never taken
  back.

* `StatusesAgreeAlone`, `RollbackRestoresAlone`, `LifeCycleAlone` have the hypothesis
  `Sequential`: at most one request, and none of the faults that make a job run twice, let a
  handler die halfway, or let somebody else write (an editor, a member entering results beside a
  working queue). It is the regime of the run `so_sequential`, whose other faults (lost calls,
  refused items, a failing `queue.add`, eviction, disconnection, a lapsed plan) stay. Outside it
  the three properties are false, as section 7 and the mutants show.
  * `ControlInv` is inductive by itself. `OneThread`: a request in hand, a waiting job and a
    slot at work exclude one another, so what a handler read is still so when it writes
    (`StillSo`), and the job is the one a retry would ask for. `StatusesFit`: the statuses an
    item may have beside that of its operation. `Covers`: a slot has, or waits for, a result of every
    running item. That gives `StatusesAgree`, and, action by action (`LifeCycleStep`), the
    refinement of `DevOperations`.
  * `DataInv` follows the values. What a rollback depends on is that `before` is what was captured of
    the original page, although a lost answer overwrites the row with null, and although
    a call whose answer was lost may write much later. Writing the captured values puts a page back
    (`PutBack`) whatever it holds, as they name every field. `Todo` says what a lost call may still
    do: put the page back; write the planned value while a slot still waits for it
    or holds it as lost; or write a page whose row has lost both columns (`Spoiled`), which no
    later job will apply or restore. `Truthful` says what a result in a slot's hands claims about the page.
    While nobody is at work it is shorter (`QuietData`), which is how the requests' steps are done.

**`OperationApprovalProofs`**

* `ApprovalTypes` and `ApprovalsAreConfirmed`, from `IInv == TypeOK /\ Saving /\
  ApprovedConfirmed`; `Saving` says that a handler about to save APPROVED has
  confirmed the operation, which is what a crash between the two transactions could
  have spoiled.
* `OneDecidesAlone`: with one request at a time (`OneRequest`), `AloneInv ==
  StillTrue /\ OneParty` is inductive. `StillTrue`: what the one request read is still
  so, since nobody else writes. `OneParty`: at most one link or the member has
  confirmed.
* `ImplementsInMemory`: with one request at a time that does not die, every step maps to a
  step of `DevOperations` or to none. The mapping reads a link that was
  superseded in the request's first statement as superseded when the request ends
  (`LinkOf`), so the proof has one lemma for each way the links can look after a
  step: `Quiet` (nothing to see), `LinkAnswered`, `LinkOverdue`, `SameLink`, `HeldLink`;
  `StepIsInMemory` puts them together, one action at a time.

**`MonitoringProofs`** — `RecordsAreHonest` (`HonestRecords`) for any number of slots and wherever one
dies, from `RecordInv == RecordTypes /\ HonestTimeline /\ RegressionEvidence /\
RunsHonest`. `RunsHonest` is what the records alone do not carry: what a slot holds
between two saves (the snapshot it compared with, the events still to be saved, the
events it saved) is what was recorded. Two lemmas about the rules:
`DiffCompares` (every event of a diff names the two snapshots) and `DetectFounded` (every
regression cites an event of its rule).

* `ChangesTold` (`ChangesAreTold`), from `TellInv == RecordInv /\ (OneAtATime => Told)`. That the
  timeline is right once no job runs says nothing of a run at work, or of one whose worker died
  between its saves. `Told` therefore says what is owed with the run at work: the timeline followed
  by the events still to be saved is the differences of the consecutive snapshots (`TimelineOwed`);
  a page that went away and is not yet reported is what this run compares or has found
  (`NotFoundsCounted`, `FindsOneNotFound`); a loss not yet reported is among the events
  this run saved (`LossesOwed`); and what it read is still the page's last snapshot
  (`Reads`, `TellsLast`). Its lemmas about the rules: `DiffTells` (a diff says that a page became
  404 exactly when it did, and a loss gives one of two events) and `DetectTells` (a
  loss among the events is reported, a page that went away at most once).
* `TimelineComplete`, a part of it, is defined by recursion over the snapshots. `LeastOne` takes the
  least number at which a set of numbers fails, from the library's well-founded order, so that no
  theorem with an operator parameter is needed; `UpToUnfolds` shows with it that the recursive function
  meets its equation, and `DifferencesGrow` that one more snapshot adds its diff.
* `ScanTypesHold` (`TypeOK`), with the queue's attempts and stalls (`JobMoves`): that a job never takes
  more of either than the queue allows is not a matter of types.
* `ScannedInTime` (`RescannedEveryOtherWindow`), from `InTime`. What the property says at the end of a window is
  the end of a chain inside it: the scheduler ran and found the URL due or captured recently; the job
  it added waits, is scanned, or has saved (`WindowServed`). A window's job can be added only
  while its id is unknown, and a job at work belongs to one slot (`JobsOfTheirOwn`), so when
  no job is queued the scan has saved. It is the `Tick` guard `CaughtUp` that makes "workers keep up" a
  fact; without it the property is false.

**`CapacityGateProofs`** — `OverrunBounded`: at most `Cap + Cardinality(Reqs) - 1`
things are held. The number held is not inductive, since many requests can pass on
one count; `ForeseenBounded` bounds what will be held when all requests in flight
have finished. When a request passes, `Cardinality(held) < Cap`, and the others
can add at most one thing each.

**`WorkspaceProofs`**

* `OwnerStays` (`OneOwner`), from `OwnerInv`: no request in flight is about the
  founder (`SparesFounder`), the founder is the active owner
  (`FounderOwns`), no request assigns OWNER and nobody else has it (`AssignsRoles`).
* `LimitsAreGated` (`LimitsImplementGate`): each step of `Workspace` is a step of each
  gate or leaves it unchanged, under any webhooks, since the limits are at most
  `MaxSeats` and `MaxSites` whatever the subscriptions say.
* `SeatsBounded`, `SitesBounded`, `UrlsBounded`: from these and `OverrunBounded`, members, sites and active
  URLs never exceed their largest limit by more than one for each further request in flight.
* `TypesKept` (`TypeOK`), from `BillingInv` beside `OwnerInv` and `UrlInv`. What
  `Subscriptions` needs is `RowsInv`: the ids are the numbers of the rows in some order, so that
  updating by primary key finds one row, and moving that row to the end keeps it so (`Updated`,
  `MovedToEnd`).
* `DecidedOnce` (`DecisionsAreFinal`) and `PlansAreKept` (`WithinLimits`) are about requests one at a
  time. `Apart` turns the bound on requests in flight into "what is in flight is all there is".
  `TokensInv`: a pending invitation has the last link that went to its person.
  `MembersAsRead`, `SeatsAsRead`, `SitesAsRead`, `UrlsAsRead`: what the one request read is still so, and
  the room it counted is still there. Stripe's events and the end of a trial may come in
  between, but rows cannot change while a request is in flight (`BillingStill`).
* `LedgerIsFollowed` (`RowsFollowLedger`), from `StoredInv`: the index sets `Of` of a customer's or a
  code's rows, and `About` of a customer's events in the ledger, are followed through each insertion and
  update (`OfInserted`, `OfUpdated`, `LedgerAppended`). `CallsAsRead` says that the row a delivery
  looked up is still the customer's. That a replay changes nothing needs none of it, and holds
  however deliveries meet (`ReplayIgnored`).
* `DevStoreMatched` (`MatchesDevStore`) needs all of these invariants, and `CalmInv`: without Stripe
  every row is the trial or a grant, so the two ways of reading a limit agree (`LimitsAgree`); a
  request still has what it was let in on when it writes; time passes only between requests
  (`TimeAlone`). One lemma for each component maps its steps (`BillingAsInDev`, `MembersAsInDev`,
  `SitesAsInDev`, `UrlsAsInDev`): the first half of a request maps to no step, the second to one
  operation, with the founder for the manager who asked.

**`SitePluginProofs`**

* `StatusFollows` (`StatusFollowsConnection`). `NeverOverstated` comes from `ConnectionInv`, in every
  interleaving; its `ReadsRight` says what a request that is past its reads still knows.
  `ConnectionShown` needs `RequestsInv`, too: of one request at a time, what it read of site and connection
  is still so when it writes. With two it is false.
* `SyncBounded` (`SyncWithinBounds`), from `SyncInv == RunsSound /\ FewRuns /\ FewAreLate /\
  FewArePages`. Neither bound is inductive, for the reason the gate's is not: `FewAreLate`
  counts the late batches together with those that were let through and are on their
  way; `FewArePages` counts the rows together with the batches in flight. `PageFits` and
  `UnionBound` do the counting.
* `SidesAgree` (`BothSidesAgree`), from `RequestsInv` beside `ConnectionInv`: when requests are
  handled one at a time there is at most one (`OneByOne`), what it has read or was answered is
  still so (`UpToDate`), the connection has the last token that was made, and every challenge
  that made one, or was there when the site was disconnected, is used. Two requests
  that exchange one challenge together make two tokens (section 7), which is what `OneByOne` excludes.
* `CopyOnlyAdvances` (`CopyAdvances`), from `CopyInv` beside `SyncInv` and `AuditInv`. `Covers` is the
  invariant of a paged query over a table that changes: of the posts a run cannot miss (those there
  when it began that no insertion or deletion moved), those before its offset are
  brought over, the batch has those of its page, and a page that was not full is
  the last. Why a post before the next offset is in this page or an earlier one is a matter
  of counting posts by id: `Positions` (different posts have different positions), `PageFull` and
  `LastPage` (a batch is short only when nothing comes after it), `Reaches` (every position below
  that of a post is taken). `Renews` and `Informs` say that what is in flight is no older
  than the copy, which is what `CopyNeverGoesBack` needs; two runs together break it.
* `TellsTheTruth` (`PluginTells`). `AuditInv`: what an audit under way found leaves the rules out, and
  a finding that the stored audit still calls active although a rule ignores it has an administrator
  who is about to note it (`ToNote`); one at a time, since the audit an administrator
  writes back is the one it read. `EventsInv`: the versions remembered are behind WordPress by at most the update
  whose hooks have yet to run (`Remembering`), and no two events, waiting or sent,
  tell of one version (`TellsOnce`); an event joins the queue only with a version that was not
  remembered, which is why the second hook of an update adds none (`Queueing`).
* `TypesHold` (`TypeOK`), from the types in these invariants. Typing the batch of a run needs what it is made
  of (`Carries`), so it comes last.

**`EntranceProofs`** — of the account `TypesHold`, `CodesAreUsedOnce`, `ResetsReplace`,
`SecondFactorIsAskedFor`, all from one invariant, `Standing /\ Alone /\ Recorded`.
`Standing` holds however requests meet: codes were made from secrets that were generated, and
what a request needs of the account it read cannot be taken away. `Alone` is about
requests one at a time: `Single` (at most one is in flight), `Faithful` (what it read is
still so), `Orderly` (sessions were opened with the password in force, only the last link
is open, a pending secret was in no code). `Recorded`, for requests one at a time or
while nobody enrolls or disables, keeps the counter ahead of the code of every session and of
every session about to be opened. `EntranceKeepsAccounts`: `EntranceSpec => Spec`, since no step
of a call changes the account or its environment, so all of this holds in the composition.

Beyond the account it proves all that the runs check of `EntranceSpec`, for any numbers of
requests, sessions, processes and changes of the member, and any limit and window. Of the doors it takes
`DoorsAreSound` from `EntranceAssumption`, and never looks into the tables.

* `CallsAreAllowed` (`CallsAllowed`), `RefusedFirst` (`RefusalsComeFirst`), from `CallInv`, whose core is `Sound`. `Taken`: every step
  before the one the call is at found what it looked for (a session that is not 0, the credential,
  the quota), which is what turns an order of steps into a fact about the call. `ClearedFor`: a call that
  is cleared had, at some time since it arrived, a member who was entitled to its step; `GoneOn` shows that
  no clearance is carried over to the next. `ByAMember`: what has changed something did so
  at an earlier step and, when that asked for a permission, for a member who is still active, since nobody is
  made inactive while a call is under way; so the second check of a handler cannot refuse what
  the first has done (`AfterAChange`). `FailHalfwaySound`: what has failed after a commit of its own is
  in `ChangeMayStand`, and nothing was changed before it. `RoleFound`: the role a page found is the member's unless
  the member has changed, so a page is only refused a read when it met two forms of
  the member (`OnAPage`, `TwoWereSeen`).
* `QuotasHold` (`QuotaHolds`), with `LimitsInv` for the buckets. The bound is not inductive: it is about a
  period that two buckets share. `Tallied` says that the passes of the bucket there is have different numbers up
  to its count, those of the bucket before it different numbers too, and that number 1 was given when
  its bucket began, so that of the bucket before is a window ago and has been dropped: `Limit` and
  `Limit - 1` passes (`TallyBound`). `OneMoreCall` is where a bucket resets: what was recent
  becomes what is earlier. Restarts and lost answers need no case of their own, as a store's
  count is never less than what it let pass.
* `EntranceTypesHold` (`EntranceTypes`).

**`ReportsProofs`** — all that the runs check of `Reports`, from one invariant, `Inv == WorkInv /\
DigestInv`, with the lemmas about a recursive function that copies a list without some of its rows
(`Without`). `LeastOne` and `OneAfterTheOther` stand for induction over numbers (the library's
induction theorem takes an operator); from them come the recursion's equation (`KeptUnfolds`) and
what stays in which order (`WithoutKeeps`).

* `WorkKept` (`WorkIsKept`). Four things go wrong only over several steps, and each has the part of the
  invariant that looks ahead. `StoredBehind`: what is stored is no newer than what a sync has in
  hand, and that no newer than what Google reports, so a single sync can only advance.
  `OneProperty`: while at most one property is connected, so are all syncs' and all insights'.
  `BaselinesRead`: the baselines an audit is about to write are those in the rows. `FewTasks`: the tasks of one source together with the requests about to
  create one (`Creators`) are as few as the requests that may meet; the number of
  tasks alone is not inductive, as it is with the limits of a workspace. `OutcomesRead`: the task an outcome is about to be
  written to is still done. That a decision survives (`TriageSurvives`) needs the types
  alone: an upsert does not touch the status.
* `DigestsArrive` (`DigestsDelivered`). Copies are counted before they are sent: `CopiesTaken` says that
  the mails a member got, together with the executions that will still mail (`MayMail`), are at
  most as many as the times the job was taken, attempts and stalls (`Taken`), which `Regular` bounds.
  `Locked`: at most one execution holds the lock of a job, which is then active, although another that
  lost the lock may still be at work. `Mailed`: who was picked is mailed or
  still to be mailed. `Unsettled`: a single execution that may mail has a row that is not settled, which is
  why a settled one stays quiet.
* `DevReportsMatched` (`MatchesDevReports`). The first half of a request maps to no step, the second to one
  operation; `CreatesAsRead` says that the findings a request is to create tasks for are
  still those the in-memory repository would find, which one request at a time sees to. One lemma for each
  component: `SearchingMatches`, `AuditMatches`, `TriageMatches`, `ChangeMatches`, `CreateMatches`. `TasksAdded` gives
  the new tasks their ids: the positions at the end of the list, in whichever order the rows were
  inserted.
* `TypesHold` (`TypeOK`).

Only model-checked:

* `StartedSettles` and `CopyCatchesUp`: liveness under fairness is out of the prover's reach.
* `DoorsAreSound`: a finite table of the code, which TLC evaluates from end to end; a proof of
  it would repeat the same enumeration.
* `StatusesAgree`, `RollbackRestores` and `LifeCycleKept` outside `Sequential` are false, and
  `BothSidesAgree` and `CopyAdvances` say nothing of requests that meet; the runs show both.

## 7. Where the code and its documents part

With a run that exhibits it:

| Run, property | What is said | What the code does |
|---|---|---|
| `so_retry_dropped`, `RetryIsQueued` | API_SPEC.md:1530: a retry enqueues `bulk-operation.execute` | The retry reuses the id of the job that failed, which Redis still retains, so nothing is added: the operation is RUNNING with no job (`bulk-operation-queue.ts:41`). |
| `ws_grant`, `GrantGivesAccess` | schema.prisma:258: a granted plan gets full access through the existing entitlement path | An event of the organization's earlier subscription makes that row the latest, and it decides. |

Seen while modelling, where the properties state the hypothesis under which they do hold:

* ARCHITECTURE.md:81 "Every job is idempotent": an execute job run again after its page
  was written captures the changed page as the value to restore
  (`SafeOperationEndpoint.php:262`). `RollbackRestores` is checked where no job runs twice.
* `approve/[token]/page.tsx:13` "You declined this change. Nothing was applied.": of two
  answers to one link handled together one can confirm while the other's save comes
  last (`app-repository.ts:5515`).
* ARCHITECTURE.md:26 "every crawl beyond the first baseline is diffed": a scan that fails
  after its snapshot runs again against that snapshot and sees no difference
  (`handlers.ts:122`). `TimelineComplete` assumes `NothingLost`.
* API_SPEC.md:1997 "a page becoming noindex": a noindex that moves between the meta tag
  and the header is reported as new (`diff.ts:89`).
* QA_CHECKLIST.md:247 "a fixed first-observed tracking baseline": an audit that does
  not find the page in the insights loses it, and tracking starts anew
  (`gsc-impact.ts:120`). `BaselinesKept` speaks of audits that do find it.
* API_SPEC.md:668 "prevent duplicate delivery": a digest execution that fails or dies after
  mailing is run again and mails everybody again (`deliverables/live.ts:183`);
  `FewCopies` bounds the copies. DEPLOYMENT.md:217 speaks of runs recorded as failed: none
  is, because a mail that cannot be sent throws out of `deliverEmailMessage` before the
  status is computed, and the row stays GENERATED (`deliverables/live.ts:203`).
* API_SPEC.md:982 "120 requests/hour per site": the bucket is kept for the caller's address
  alone (`plugin/monitoring-summary/route.ts:7`), so sites behind one address share it.
* ARCHITECTURE.md:35 "30 requests per 15 minutes per user+organization+site": the key also has
  the action and the URL (`monitoring-rate-limit.ts`), so each of them has 30.
* Two doors of one operation count in different buckets: an acceptance by the hash of its token
  (`api/invitations/accept/route.ts:32`) or by the token itself (`actions.ts:523`), a challenge by the user
  (`api/plugin/connections/challenges/route.ts:30`) or by user, organization and site (`actions.ts:145`).
  Who uses both has both limits.
* A plugin that starts reporting after WordPress was updated takes the version it first
  sees as the baseline (`SystemEventReporter.php:34-38`), so that update is never told.

Between requests that meet, without a document that says otherwise:

* A failed answer is recorded with a null `afterValue`, so an item a retry brings back
  has nothing to apply and fails again; a lost answer likewise loses the captured
  `beforeValue` of a page that was written.
* A web process that dies between the commit of RUNNING and the enqueue leaves the
  operation RUNNING for ever, and so does a job that spends its attempts before it
  records anything.
* An execute job handed out again while a rollback is under way applies the planned
  values once more: an item that is RUNNING does not say what it is running for.
* Requests interleaved between guard and write move an operation outside the life
  cycle: a confirmation can fall on an operation that already ran.
* Two scans that overlap report a regression twice; the fingerprint is made of ids
  that differ between them.
* A URL captured just after the scheduler ran is not due at the next window and
  waits for the second; `RescannedEveryOtherWindow` states that bound.
* A cancellation, a resend and an acceptance of one invitation can undo each other; two
  redemptions of one code can both succeed; the first two events
  of a Stripe customer can insert two rows; a late ACTIVE event revives a canceled
  subscription.
* One challenge exchanged twice makes two tokens, of which the first no longer works.
* A rollback writes the captured values, which need not be what was stored: a page whose Yoast noindex
  was `2` has `0` afterwards, a title loses its markup, and also a field the plan left alone
  is rewritten (`SafeOperationEndpoint.php:262`, `handlers.ts:432`). The documents promise the captured
  values (QA_CHECKLIST.md:231), so `RollbackRestores` is stated of these. A value the endpoint would not
  accept, such as a canonical URL that is neither http nor https, is captured all the same; restoring it
  fails the item.
* A disconnection that read the site before another disconnection, and the connection after it, writes
  DISCONNECTED when it comes to it (`plugin-connection.ts:639-649`); if a new challenge was exchanged in
  between, the site is shown as disconnected although it is connected, until the next exchange or
  disconnection. `ConnectionShown` is therefore about requests one at a time.
* Five operations answer with an error although they have committed (`ChangeMayStand`). An answer to an
  overdue link leaves it EXPIRED (`app-repository.ts:5479`), and one whose second save fails leaves
  the operation confirmed or the refusal logged and the link unanswered (`app-repository.ts:5515`). A start, a
  rollback or a retry whose enqueue fails settles the operation as FAILED and answers as if it had begun;
  if the operation moved on meanwhile, because the job did arrive, it throws and leaves what the job made of it, and
  if the settling fails, too, it leaves RUNNING (`app-repository.ts:4929-4950`, `5173-5188`, `5319-5334`). A
  rescan whose answer from Redis is lost has queued its job. `OperationApproval`, `SafeOperation` and
  `Monitoring` say what follows.
* A second confirmation of one enrollment sets the counter of used codes back, so a
  code works twice; a login with the old password opens its session after the reset
  ended all others; two resets with one link both succeed.
* A member whose role or sites are taken away while an operation is under way still has it
  done, and a page that meets such a change throws at its next read. `SITE_ACCESS_DENIED`
  (`app-repository.ts:6113`) is answered as whatever each route answers an unknown error with.
* Creating or ending a connection and the client report ask for a permission but not for the site
  (`plugin-connection.ts:58`, `plugin-connection.ts:208`, `app-repository.ts:1945`), so a member
  confined to one site has them for all. Recommendations, which every reader of the backlog may
  list, can spend the organization's credits for a summary.
* A code or an invitation whose mail cannot be sent is answered as not ok, with a text that says it
  exists (`actions.ts:431`); the mail is not part of `RefusedMeansUnchanged`. Nor are the counters of the
  rate limiter, the row of an expired session that a refused call deletes (`auth.ts:165`), and what a
  handler leaves that loses the database between two statements of its own; the modules of
  the components have that (`Abandon`, `AbandonRequest`, `Crash`).
* Two requests for a task of one finding make two tasks. An insight sync that began
  before the property changed stores the old property last, and audits read it.

Between the two repositories, where `DevStore`, `DevReports` and `DevOperations` are not
followed because they differ:

* A manual result sets the backlog tasks in memory (`dev-store.ts:3635`) and leaves
  them alone in the database (`app-repository.ts:4955`).
* A rollback takes back every item in memory, also failed ones, in one step; in the
  database only COMPLETED ones, through a job.
* A dry run of an operation without items is accepted in memory and refused in the
  database.
* The in-memory repository never looks at site scopes (`dev-store.ts:691-700`); the
  database refuses sites outside them (`app-repository.ts:6092-6117`).

## 8. What is not modelled

* *Worker process*: it registers handlers and starts BullMQ workers. What matters of it,
  slots, attempts, lost locks and crashes, is in `JobQueue` and in the modules that
  use it.
* *Notifications, activity log, delivery preferences*: rows written with the change they
  report and then only displayed (preferences are an input of `Deliverables`).
* *Content health, opportunities, assistant*: stateless scoring of one page or query at a
  time, out of numbers and texts.
* *Traffic signal*: windows of dates over daily metrics; `Monitoring` takes its result, a drop
  or none, as an input. Likewise the extraction of fields from HTML.
* *Plugin release storage*: object storage calls with no protocol of their own.
* *Rendering*: what pages show of what they read (`Pages` has the reads and their order).
* *Marketing site*: texts, a form that forwards a demo request to a webhook and a page checker,
  with counters in each process's memory; it shares no state with the dashboard.

*Abstracted in what is modelled*: the metadata fields of a preview; the arithmetic of signatures,
hashes and encryption; the e-mail that carries an approval link (losing it
leaves the link open); site scopes of members (but not in `Doors`); the answers of the API and what an
operation does with a body it cannot read (it fails); the keys of the rate limiter (a caller
has one for each policy); checkout and portal sessions, Stripe's
signatures and the mapping of prices to plans (an event is what
`buildStripeBillingWebhookUpdate` returns); labels of monitored URLs; assignees and comments of tasks;
the score and the link graph of a local audit; activation, deactivation, deletion
and themes among the system events; that WordPress keeps the 500 rules saved last and drops older ones
(`LocalAuditSettings.php:19`: a dropped rule is one that was taken back); the limit `custom` of
ENTERPRISE, which refuses nobody (`plans.ts:37-41`, `billing-feature-gates.ts:60-71`: as a limit no count
reaches); the in-memory repository's monitoring
snapshots. Two replacements of one week's insights that run at the same instant are one
after the other here; under READ COMMITTED both may leave rows.

## 9. Plan

Each step built on what was there; all but those marked open are done.

1. `JobQueue`, `SafeOperation`: the write path into customers' sites, the most
   important behaviour. `OperationApproval`. `RegressionRules`, `Monitoring`.
2. `CapacityGate` with `Memberships`, `Subscriptions`, `MonitoredUrls` and `Sites` composed in
   `Workspace`.
3. `PluginConnection`, `ContentSync`, `LocalAudit`, `SystemEvents` composed in `SitePlugin`.
4. `Accounts`.
5. `SearchConsole`, `Backlog`, `Deliverables` composed in `Reports`.
6. `DevStore`, `DevReports`, `DevOperations` as abstract specifications; proofs for every
   composed module.
7. `Operations`, `ApiRoutes`, `ServerActions`, `Pages`, `RateLimits` and `Doors`, composed with `Accounts` in
   `Entrance`.
8. *Open*: composing `OperationApproval` with `SafeOperation`, now that both implement
   `DevOperations`, so that a link's confirmation meets a job's result.
9. A proof that `Workspace` implements `DevStore`.
10. Proofs of everything the runs check of `SitePlugin` but its liveness, and of `Entrance`.
11. Proofs of everything the runs check of `Monitoring`.
12. Proofs of everything the runs check of `Reports`, the refinement of `DevReports` included.
