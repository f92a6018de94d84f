# TaskMesh: specification, model checking and proofs

TLA+ modules for TaskMesh, the distributed task processor in `src/`: tasks are
submitted over HTTP, kept in PostgreSQL, carried to workers by Celery messages
in Redis, executed under a lease, retried within a budget, and recovered when
the worker is lost.  The modules are translated from the code (`src/app`), are
checked by TLC on small instances, and their safety properties are proved by
TLAPS for every number of tasks, workers, scans and requests.  What only reads
(the monitoring summary, task lists) and what surrounds the core (priority
queues, the dashboard, the lease migration, the load test) have modules of
their own on top of it.

Contents: [the system](#1-the-system) · [modules](#2-modules-and-the-code) ·
[properties](#3-properties) · [runs](#4-runs) · [findings](#5-what-the-violation-runs-show) ·
[proofs](#6-proofs) · [limits](#7-what-is-left-out-and-why) · [plan](#8-plan).

## 1. The system

| Component | Code | State it keeps | Operations | Correct when |
|---|---|---|---|---|
| Task store | `app/models`, `app/services/tasks.py`, the transactions of `task_lifecycle.py` and `recovery.py` | rows of `tasks`, rows of `task_execution_attempts` | insert, claim, complete, fail, reclaim, requeue | the columns of a row agree; attempts are closed once, truthfully, and counted |
| Worker | `app/workers/tasks.py`, `app/services/task_lifecycle.py` | the message it holds, the clock it read, its attempt | receive, claim, execute, write the outcome, `self.retry`, acknowledge | it executes alone and owns what it writes about |
| Lease recovery | `app/services/recovery.py`, Celery Beat, `app/api/recovery.py` | a scan's clock, its candidates, the task at hand | scan, select, reclaim, dispatch | only abandoned attempts are undone, and all of them are |
| API | `app/api/tasks.py` | a request between its commit and its publication | submit, requeue, redispatch (and reads) | duplicates are harmless, nothing that ended is reopened by accident |
| Broker | Celery over Redis, configured in `celery_app.py` | waiting and unacknowledged messages | publish, deliver, acknowledge, redeliver | (external) |
| Priority queues | `queue_for_priority`, `docker-compose.yml` | one waiting line per priority | route, consume | no backlog holds up another queue |
| Monitoring summary | `app/services/monitoring.py`, the database half | clock, counts and lists read so far, the session's identity map | seven statements, or a failure | what its statements mix never contradicts what the system may do |
| Live telemetry | `app/services/monitoring.py`, the Celery and Redis half | answers so far | ping, active, reserved, queue lengths | no message in one place counted twice, none that stays overlooked |
| Task listing | `list_tasks` | the client's offset | offset pages | no task is missed or listed twice |
| Dashboard | `app/web/app.js` | last summary, selected task, open dialog, timer | poll, open a task, requeue, recover | what is shown, and acted on, is what was selected |
| Migrations | `migrations/versions` | schema | add the lease column | what was RUNNING at the upgrade harms nothing else |
| Load test | `scripts/load_test.py` | results, answers outstanding | post under a semaphore, summarize | a reported success has been published; its figures are right |
| Configuration, logging | `app/core` | none | | |

**How they interact.**  API requests, workers and scans share only the
database and the broker.  Every writer of a row is a compare-and-swap: an
`UPDATE` whose `WHERE` names the status it expects; a writer whose `UPDATE`
finds no row gives up.  Under READ COMMITTED that `UPDATE` waits for the row
lock, tests its `WHERE` on the newest committed version and keeps the lock to
the commit, so a transaction *from its `UPDATE` on* is one step; a `SELECT` in
front of it, a clock read in front of it, and a publication behind it are
steps of their own.  The claim reads its clock before it may wait for the
lock; `_finalize_failure` and `_reclaim_one` read `retry_count` before their
`UPDATE`; a scan reads clock and candidates once and works through them later;
requests and scans publish after their commit; a worker acknowledges last.
A summary is several `SELECT`s, each on what is committed when it runs, in one
session that keeps an object as it was first loaded; a list is one `SELECT` per
page.

**What is hard to test.**  All of these windows, with crashes in them and with
copies of a message (redelivery after the visibility timeout, a lost worker's
message put back, an operator's redispatch, a recovery that dispatches while
another copy is alive); numbers that are put together from several moments; and
rows that an earlier release has left behind.  `PROJECT.json` lists each hazard at its line, with the
properties that would show it.

## 2. Modules and the code

| Module | Models | State |
|---|---|---|
| `TaskModel` | status, row, outcomes of attempts, the retry decision (`retry_count < max_retries`) of `_finalize_failure` and `_reclaim_one` | |
| `TaskStore` | the transactions, each from its `UPDATE` on | `row`, `attempts`, and the history variable `base` |
| `Broker` | Celery's message with its own retry count; late acknowledgement, redelivery (`task_acks_late`, `task_reject_on_worker_lost`, `visibility_timeout`) | `queue` (a bag), `unacked` |
| `Environment` | clock and faults | `now`, `faults` |
| `Worker` | `execute_task` and `process_task` | `worker` |
| `Recovery` | `recover_stale_tasks` and `_reclaim_one`, several scans at once | `scanner` |
| `Api` | `submit_task`, `requeue_task`, `redispatch_task` | `pending`, `requests` |
| `TaskMesh` | the composition, fairness, the properties, the inductive invariant | |
| `TaskLifecycle` | the abstract specification: status, recorded outcomes, budget | `status`, `log`, `mark` |
| `MCTaskMesh`, `MCDashboard`, `MCQueries` | symmetry for TLC (and, in `MCQueries`, the four readers side by side); constants come from the `.cfg` files | |
| `Routing` | one queue per priority, its consumers, the fairness of one queue | |
| `Upgrade` | the databases that migration `20260809_0002` leaves, and the new release from there on | |
| `Monitoring` | `build_monitoring_summary` and its SELECTs, over `TaskMesh` | `summary` |
| `Telemetry` | `CeleryWorkerMonitor`, `RedisQueueMonitor` among moving messages | `copy`, `losses`, `report` |
| `Listing` | `list_tasks` and a client that pages through it | `created_at`, `matching`, `client` |
| `LoadTest` | `submit_one` under the semaphore, over `Routing` | `reply`, `result` |
| `LoadReport` | `percentile` and `summarize` | `results`, `summarized` |
| `Dashboard` | `app/web/app.js`: polling, drawer, dialogs, the fetches under way | `fetch`, `shown`, `drawer`, `selected`, `dialog`, `locked`, `armed`, `button`, `alert`; `board` is the server |
| `TaskMesh_steps`, `_safety`, `_refinement`, `_delivery`, `Monitoring_proofs`, `Dashboard_proofs`, `Queries_proofs`, `LoadTest_proofs` | the theorems and their proofs | |

**State.**  `row[t]` is the row of a task; `ABSENT` before its INSERT.
Timestamps other than the lease are kept as "NULL or not"; `last_error` as
nothing, a job's error, or `STALE_LEASE_ERROR`.  `attempts[t]` is the sequence
of attempts by `attempt_number` with how each was closed.  The model's
`NoLease` is NULL, which no comparison matches.  `queue` counts copies of
`<<task, retries>>`, `retries` being Celery's `request.retries`: a dispatch
starts it at 0, `self.retry` publishes it plus one, and it is *not* the row's
`retry_count`.

**Worker** (`idle → claiming → executing → [failing → [retrying →]] acking →
idle`).  `Receive` is the delivery and the clock read of `_claim_task`
(108-109), `Claim` its transaction (111-149, or the rollback of 125-130),
`Complete` the job's return and `_complete_task`, `Fail` the job's exception
and the SELECT of `_finalize_failure` (232-245), `Finalize` its UPDATE
(258-285), `Retry` is `self.retry` in `execute_task`, `Ack` the
acknowledgement.  A `TaskReclaimedError`, a `TaskNotFoundError` or a database
error leaves `process_task` as an exception, which Celery acknowledges
(`task_acks_on_failure_or_timeout` keeps its default); `DbError` is that path.
The one handler shipped (`echo`) never raises the retryable error; the model
lets any job fail either way, which is what `process_task` accepts from the
executor it is given and what the tests give it.

**Recovery** (`idle → scanning ⇄ updating → dispatching → …`).  `Scan` is
166-178, `Select` 88-98, `Reclaim` 100-140, `RecoveryDispatch` 186-194.
**Api**: a request commits (or, for redispatch, reads) in one action and
publishes in `ApiDispatch`; in between other processes run.

**Faults** (`Environment!FaultKinds`): a worker dies at any point
(`worker_crash`); an API or recovery process dies between commit and
publication (`service_crash`); the visibility timeout ends under a live worker
(`redelivery`); a worker's transaction fails (`db_error`); the broker refuses a
message (`publish_error`); a live worker works past its lease
(`lease_overrun`).  A run names the kinds it allows and, with `MaxFaults`, how
many strike.  `lease_overrun` is different: it is not counted, it lifts the
guard of `Tick` that otherwise stops the clock at a live worker's lease.
`LeaseHonoured` is its absence, the condition `docs/architecture.md` asks
operators to ensure ("well above the slowest expected job duration").  It is a
condition on time from the clock read to the last write of the outcome, not a
guard on any write.

**TaskLifecycle** knows no worker, lease, message or counter.  A task is
submitted, runs, its outcome is recorded at the end of the log, and whether it
runs again depends on how many outcomes were recorded since the last requeue.
The mapping takes `status` from the row, the log from the attempts without the
open one, and `mark` from `base`.

**Monitoring** (`idle → counting → staleness → listing → loading → failures →
completing → answered`, or `degraded` from anywhere).  One action per
statement: `CountStatuses` is the `GROUP BY`, `CountStale` is
`count_stale_running` with the summary's own clock, `ListRecent` and
`ListFailures` the two lists, `LoadRecentAttempts` and `LoadFailureAttempts`
the `SELECT` of `selectinload` behind each.  `session` is the identity map: a
task that a later statement returns again keeps the columns, and the collection
of attempts, with which it was first loaded.  `Degrade` is the handler of
`SQLAlchemyError`, which reports nothing of what was read.  The summary writes
nothing, so one of them, begun at any moment, stands for all.

**Telemetry.**  `Ping`, then `ReadHeld` for active and for reserved messages,
then `ReadQueue` per queue, in the order of the code (`Reads`).  What is counted
is *copies* of messages, and in between they move: they are sent to one of the
four queues, taken by a worker (`Prefetch`) and reserved, or kept aside as
scheduled until their countdown ends (`Due`), started and acknowledged.
`RestoreCopy` is the end of the visibility timeout under a live worker: the
message is in its queue again, as a copy of its own, while the worker still
holds the first one, so that both may be counted with nobody lost.  `Lose` is a
lost worker, whose deliveries return to their queues unless they have done so
already.  Workers answer or not, question by question.  `WorkersUnavailable`
and `QueuesUnavailable` are the two handlers; they are independent of one
another.  Queue lengths and counts are kept as the sets they count.  Two fields
of the report are history: `still` has the copies that have not moved since the
ping, `returned` the messages that were in two places at the ping or have been
put back since.

**Listing.**  `ReadPage` is the `SELECT` with `ORDER BY created_at DESC, id
DESC`, `OFFSET` and `LIMIT`; `Insert` makes a row visible, possibly after
younger ones (`created_at` is the start of the inserting transaction), and
`ChangeStatus` lets a row pass the filter or not any more.

**Routing** settles what `TaskMesh` leaves open: which worker takes which
message.  `Routed` restricts each `Receive` to the worker's own queue; a retry
keeps the routing of the delivery it repeats.

**Upgrade** replaces `Init`; the actions are those of `TaskMesh`.  `UpgradeInit`
gives each task a status, a `retry_count` and the attempts that go with them,
each independently of the others; `lease_expires_at` is NULL everywhere, the
message of the latest attempt is still there or not (that of a QUEUED task is,
as late acknowledgement keeps it).  An empty database is the special case in
which all tasks are `ABSENT`.  The earlier release is taken as it claimed,
completed and failed: like this one, but without leases and scans.

**LoadTest.**  `Post` enters the semaphore, `Answer` is the response,
`ClientError` an exception of `httpx` (the request may have arrived or not).
`System` is a step of the API, workers and broker: it inserts a task only after
it was posted, and answers 201 when the dispatch has returned, 503 or nothing
when it has failed.  `LoadReport` is what `run` then makes of the results:
fractions stay pairs and percentiles hundredths, so nothing is rounded.

**Dashboard.**  The page has one event loop: an action is a handler up to its
`await`, or what follows it.  A fetch is a record that remembers what it is for
and, for the refresh a dialog's handler awaits, on whose behalf (`by`): the
handler's `finally`, which enables the confirm button again, runs after that
refresh.  A modal dialog makes the rest of the page inert, so clicks require
`dialog = "none"`; answers and the timer do not.  The server is the status of
each task, changed by requests, by recovery and behind the page's back.

## 3. Properties

Whatever the workers' speed: `RowsAgree` (columns agree with the status),
`SuccessIsFinal` (COMPLETED exactly when a success is recorded),
`OneWorkerPerAttempt`, `EndedStaysEnded` (only a requeue reopens a task).

If no lease is overrun: `ExclusiveExecution`, `OwnsItsTask` (a live worker's
outcome is never rejected), `AttemptsClosed` (exactly the latest attempt of a
RUNNING task is open), `RetryCountIsExact`, `RetryBudget`,
`AttemptHistoryKept`, and `KeepsLifecycle`: the system implements
`TaskLifecycle`.

Delivery: `CountersAgree` (Celery's retry count never runs ahead of the row's,
so no retry that the row grants is refused by Celery), `NeverStranded` (a
QUEUED task has a message, or somebody about to publish one), `EveryTaskEnds`,
`NoTaskStuckRunning` (`docs/architecture.md:192`, of a database this release has
filled itself).

Upgrade: `LeaselessStay` (the tasks without a lease stay exactly those the
migration found RUNNING: none is taken from a worker nobody knows to be dead,
and none joins), and `EveryTaskEnds` for all others beside them.
`NoTaskStuckRunning` is false of them: section 5.

Summary: `StaleIsRunning` (if no lease is overrun, the stale tasks are among
those counted as RUNNING by the statement before), `AttemptsAreShown` (no task
is shown with fewer attempts than its status and `retry_count` stand for),
`FailuresHaveFailed` (false, section 5).  Telemetry: `NothingCountedTwice`
(a message is counted twice only if it was in two places when the inspection
began or has been put back since, by the visibility timeout or a lost worker;
a message that merely moves on never is), `StillIsCounted` (what does not move
is counted where it is, if the place answers).

Listing: `NothingIsMissed` and `ListedOnce`: offset pages lose a task only when
one listed before it has left the filter, and repeat one only when one listed
before it has joined.

Load test: `SuccessIsPublished` (docs/load-testing.md: "A successful POST
proves acceptance and broker publication"), `HighTasksEnd` (a HIGH task that
was accepted ends although only the workers of its queue are known to go on),
`PercentilesAreRight`.

Dashboard: `ConfirmsWhatWasAsked` (a request goes out only from the dialog, and
for the task whose button opened it, although three handlers share
`selectedTaskId`; README.md:218, "every action button is a real API call behind
a confirmation dialog"), `ConfirmLock` (a confirm button is disabled exactly
while its one request, or the refresh after it, is under way),
`PollingGoesOn`, `PageCatchesUp`.

## 4. Runs

| Run | Setting | Checks | States |
|---|---|---|---|
| `any_worker_speed` | 1 task, 2 workers, 1 scan, 1 client; all six faults, one of them counted; requeue and redispatch | `TypeOK`, `RowsAgree`, `SuccessIsFinal`, `OneWorkerPerAttempt`, `EndedStaysEnded` | 1.2 M |
| `lease_honoured` | `FairSpec`: 1 task, 2 workers, 2 overlapping scans; five faults, any two; redispatch | the lease properties, `IndInv`, `KeepsLifecycle`, `NoTaskStuckRunning` | 300 k |
| `delivery` | `UpgradeSpec`: 2 tasks, each as an earlier release may have left it, or new; 2 workers, 1 scan; one worker crash | `NeverStranded`, `CountersAgree`, `UpgradeInv`, `LeaselessStay`, `EveryTaskEnds` | 230 k |
| `queries` | a summary over 1 task with a worker crash; an inspection of 2 nodes and 2 copies with a redelivery or a loss; pages of 2 over 3 tasks; a report on 3 submissions | `StaleIsRunning`, `AttemptsAreShown`, `MonitorInv`, `NothingCountedTwice`, `StillIsCounted`, `TelemetryInv`, `NothingIsMissed`, `ListedOnce`, `ListingInv`, `PercentilesAreRight` | 1.4 M |
| `load_test` | `LoadSpec`: a HIGH and a LOW task, a worker for each queue, 2 clients; two of service crashes and redeliveries | `SuccessIsPublished`, `PublishedInv`, `HighTasksEnd` | 260 k |
| `dashboard` | 2 tasks, 2 fetches at once, 1 failure | `ConfirmLock`, `PollingGoesOn`, `DashboardInv`, `ConfirmsWhatWasAsked` | 1.5 M |
| `dashboard_live` | `FairSpec`; 1 task, 2 fetches, 1 failure, 1 change behind the page's back | `PageCatchesUp` | 880 k |
| `late_outcome` | `lease_overrun` alone | `LateOutcomeRejected`: violated | |
| `budget_exceeded` | `lease_overrun` alone | `RetryBudget`: violated | |
| `requeue_strands` | no fault; two requests | `NeverStranded`: violated | |
| `recent_failures` | a summary, no fault | `FailuresHaveFailed`: violated | |
| `leaseless_stuck` | `UpgradeSpec`: 1 task, 2 workers, 1 scan, no fault; redispatch | `NoTaskStuckRunning`: violated | |

**Bounds.**  Two workers give every race between a worker and its duplicate or
successor; two scans every race between scans; a second task only matters to a
scan with several candidates, to a worker that serves both, and to tasks with
and without a lease side by side, all of which `delivery` has.
`MaxRetries = 1` has both sides of the budget test.  `Lease = 1` has an instant
inside, one at and one after the lease; `MaxTime = 4` lets a task be claimed
and expire twice (2 ticks each), and the liveness runs take more (6 for one
crash, 8 for two), so that the clock's end never keeps a lease of theirs from
expiring.  `load_test` has no scan and no lost worker, so time plays no part in
it.  `Tick` is also disabled while no lease and no clock that was read can be
affected (`TimeMatters`): only the order of instants counts, so waiting with
nothing on a lease changes nothing that can be observed.  `MaxFaults` and
`MaxRequests` bound faults and operators' requests.  Requests, workers and
scans are interchangeable, so some of the runs without liveness properties use
symmetry; none of those with one does.  Deadlock is not checked: when all tasks have ended and no request is
left, the system rightly does nothing.

`lease_honoured` has a redispatch but no requeue: with it the liveness
property, which forbids symmetry, takes TLC too long.  A requeue is in
`any_worker_speed`, and in the theorems, which prove every safety property of
`lease_honoured` for any requests.

`delivery` has no operator's requests: a requeue breaks its properties (section
5), and with a redispatch two tasks are too many for TLC; that a redispatch
does no harm is proved (`NoTaskIsStranded`).  Its initial states include the
empty database, so it is also the run of an ordinary start.

`queries` holds four parts that share nothing.  A behaviour moves in one of
them and the others stay as they began, so the states add up and do not
multiply.  Two copies are the fewest of which one can be the other put back,
and two nodes the fewest that can hold both; three tasks in pages of two give a
full page, one that is not, and a row before and behind; two instants give equal `created_at`;
three submissions have a median and an interpolated p95.

**Fairness** (`Fairness`).  A live worker goes on with its message, and Celery
lets a job end one way or another (`WF` per worker; which way is free, so a job
may fail every time).  A waiting message is given to an idle worker (`WF` of
delivery as a whole: which message is free; every worker consumes the pool).
Celery Beat starts scans without end and scans proceed
(`beat_schedule` in `celery_app.py:82-88`).  A request that has committed
publishes, and the clock moves.  Faults and operators' requests are never
fair.  `LoadSpec` assumes less: `QueueFairness("high")` is fair to the workers
of one queue and their deliveries, and to requests under way; the other workers
may hang for ever, as they may behind a backlog, and the script itself need not
go on.

The dashboard's bounds: two fetches are the fewest that overtake each other,
and two tasks the fewest that can be confused; the catching up of the snapshot
needs one task and one change.  Its fairness: a fetch is answered (or fails)
and its handler goes on, and the timer fires; the latter is strong, because
all `Fetches` of the model may be in use again and again, which is a bound of
the model and not of a browser.  What the user does is never fair.

The violation of a mutant of the code is recorded for every property in
`PROJECT.json` ("mutants"); the mutated operators stand beside the originals
and nothing uses them.

## 5. What the violation runs show

* **`late_outcome`** - README.md:160 says that a recovered task's original
  worker cannot overwrite recovery's decision, because its late completion is
  rejected.  The guard is `WHERE status = 'RUNNING'`, and does not name the
  attempt.  Once the reclaimed task has been *claimed again* it is RUNNING
  again: the first worker's completion matches, turns the attempt that was
  closed as stale into a success and leaves the second attempt open.
  (`architecture.md` states the guarantee for the case that recovery has moved
  the task "off `RUNNING`"; it is the next claim that undoes it.)
* **`budget_exceeded`** - "retry budget is respected" (`architecture.md:137`,
  `recovery.py:29`).  A worker past its lease reads `retry_count`, the task is
  reclaimed and claimed again, and its `UPDATE` writes the old count plus one:
  a retry is not counted and the task gets more than `max_retries + 1`
  attempts.
* **`requeue_strands`** - the comment at `api/tasks.py:124-128` says an extra
  redispatch is only a wasted message, as the message carries only the task
  id.  It also carries Celery's retry count.  A copy left from an earlier
  budget that claims the task after a requeue has reset `retry_count` has its
  `self.retry` refused by Celery (`max_retries` exceeded) although the row went
  back to QUEUED: no message is left and only another redispatch helps.  The
  same happens with a requeue and one worker crash in place of the redispatch.
* **`recent_failures`** - `tests/test_monitoring.py:109-112` expects the tasks
  of `recent_failures` to be FAILED or DEAD_LETTER.  The second list of a
  summary shares the session of the first: a task that ends between the two
  `SELECT`s is found by the second one's `WHERE`, but the identity map hands out
  the object of the first, which still says QUEUED or RUNNING.  `app.js:124`,
  which looks for DEAD_LETTER in that list, then leaves it out of the dead
  letters until the next poll.

* **`leaseless_stuck`** - `docs/architecture.md:110-113` says that a worker crash
  after the RUNNING commit "used to strand the task forever", and that "that gap
  is now closed with a lease"; line 192 that it "is recovered by lease expiry".
  The migration gives no lease to the rows that are RUNNING, and the scan asks
  for a lease that is not NULL (`recovery.py:174`).  A task whose worker crashed
  under the earlier release, or at the upgrade, is found by no scan.  If a copy
  of its message is left, its delivery is a no-op, and no request helps:
  redispatch takes QUEUED tasks and requeue those in DEAD_LETTER.
  `LeaselessStay`, which is true, is the other side of the same condition: nor
  is such a task taken from a worker of the earlier release that still lives.

The first two need an overrun lease; section 6 proves that without one they
cannot happen, and that the third needs a requeue.

One more divergence was met that no property of a run states:
`docs/load-testing.md:22` defines throughput as successful submissions per
second; `summarize` (`scripts/load_test.py:42`) divides the number of all
results.

## 6. Proofs

All theorems are for every set of tasks, workers, scans and clients, every
retry limit and lease, every set of faults and any bounds.  Assumed:
`ModelAssumption` (`NoTask` is no task; `MaxRetries` and `Lease` are
naturals), `EnvironmentAssumption` and `ApiAssumption` (constants name
existing kinds), and for the small machines `DashboardAssumption`,
`TelemetryAssumption`, `ListingAssumption` and `ReportAssumption` (the markers
are no tasks or nodes; ids and instants are naturals, for their order; pages
and reports are not empty).  The load test adds `LoadTestAssumption` (nobody
but the script sends requests) and what it has from `Routing`.

Conditions on the environment are premises of the theorems: `LeaseHonoured` (no
`lease_overrun`), `CountersHonoured` (and no requeue), `DeliveryHonoured` (and
no fault but worker crashes).  The theorems on the load test exclude
`db_error`: a worker whose claim fails in the database acknowledges its message
all the same, and the accepted task stays QUEUED with nobody on the way to it.

| Module | Theorem | Shows |
|---|---|---|
| `TaskMesh_steps` | `TypeCorrect` | `[]TypeOK` |
| `TaskMesh_safety` | `RowsAlwaysAgree`, `SuccessStaysFinal`, `AttemptsHaveOneWorker`, `EndedIsEnded` | the properties that hold at any speed |
| | `Inductive`, `ExecutionIsExclusive`, `WorkersOwnTheirTasks`, `AttemptsGetClosed`, `RetryCountsAreExact`, `RetriesAreCounted`, `HistoryIsKept` | `IndInv`, and the properties under `LeaseHonoured` |
| `TaskMesh_refinement` | `Implements` | `LeaseHonoured => (Spec => KeepsLifecycle)` |
| `TaskMesh_delivery` | `DeliveryInductive`, `CountersStayInStep`, `NoTaskIsStranded` | `CountersAgree` under `CountersHonoured`, `NeverStranded` under `DeliveryHonoured` |
| | `UpgradeInductive`, `LeaselessForEver`, `CountersStayInStepAfterUpgrade`, `NoTaskIsStrandedAfterUpgrade`, `ExecutionIsExclusiveAfterUpgrade` | the same, and `LeaselessStay`, of `UpgradeSpec` |
| `Monitoring_proofs` | `MonitorInductive`, `StaleTasksAreRunning`, `NoAttemptIsHidden` | the summary's properties |
| `Queries_proofs` | `TelemetryInductive`, `NeverCountedTwice`, `StillIsAlwaysCounted` | the inspection's properties, for any number of messages, copies and workers |
| | `ListingInductive`, `NothingIsEverMissed`, `NoneIsListedTwice` | the pages' properties, for any rows, instants and limit |
| | `PercentilesAlwaysRight` | `PercentilesAreRight`, for any number of results |
| `LoadTest_proofs` | `LoadInductive`, `SuccessIsAlwaysPublished` | `SuccessIsPublished` without `db_error` |
| `Dashboard_proofs` | `DashboardInductive`, `NoDoubleRequest`, `PollingNeverStops`, `OnlyWhatWasAsked` | the dashboard's safety properties |

**The argument.**  The invariant of the core comes in layers, so that each
proof uses what it needs: `CoreInv` holds at any speed, `ExecutionInv` adds
`LeaseInv` if leases are honoured, and `IndInv` adds `RowsAgree`.  That the
first two are kept by every step does not depend on where the system starts:
neither needs `RowsAgree`, which a migrated database violates (a RUNNING row
without a lease).

`CoreInv` is the type invariant, what holders of messages refer to
(`HoldersHaveTasks`), `ScansInThePast`, `NoHistoryYet`, `OneWorkerPerAttempt`
and `SuccessIsFinal` with `RunningIsOpen`: a RUNNING task's latest attempt is
open.  `RunningIsOpen` is what makes `SuccessIsFinal` inductive: a late worker
that completes a task may close an older attempt, but the task was RUNNING, and
no attempt of a RUNNING task is a success.

`LeaseInv` adds `WithinLease` (the clock has not passed a live worker's lease)
and `ReadsAreFresh` (the `retry_count` somebody has read is the one its
`UPDATE` will find).  The heart is that everyone else keeps out while a worker
executes: another claim needs QUEUED, another worker's outcome needs a worker
that executes the same task, a requeue needs DEAD_LETTER, and a reclaim needs a
lease that is over at the scan's clock - which lies in the past
(`ScansInThePast`), at or before the end of the worker's lease
(`WithinLease`), and that lease is the one in the row (`OwnsItsTask`).  The
same comparison shows that a scan's read is fresh when its `UPDATE` succeeds:
had the task been claimed again since the `SELECT`, its new lease would end at
or after the moment of that claim (`WithinLease` covers a worker about to
claim), hence not before the scan's clock.

`TaskMesh_steps` splits `Next` into its actions once (`StepCases`) and states
for each what the row, the attempts, and the process are afterwards; the proofs
of preservation and of refinement go through these lemmas, one step per
action.  `Implements` maps each action to an abstract one or to a stutter;
`RetryCountIsExact` turns the row's budget test into the count of recorded
outcomes.

*Delivery.*  `DeliveryInv` says that no message and no held delivery has a
higher count of retries than its row (`RetriesCovered`).  `QueueGrows` and
`WorkerHolds` state where messages come from: a message was in the queue
before, is fresh (count 0), or is what a busy worker holds, or the retry of it.
A retry adds one to the count only after `Finalize` has added one to the row's,
and without a requeue the row's count only grows (`RetryCountGrows`), so a
message that was not ahead when it was published never gets ahead.  This needs
fresh reads, hence `ExecutionInv`: a stale one could write the row's count back.
`NeverStranded` then asks of each action that whoever it takes a QUEUED task's
message from passes it on (`WorkersCarry`, `ScansCarry`, `RequestsCarry`): a
worker acknowledges only when its task is not QUEUED or another carrier is
there, a worker that dies leaves its message to the broker (`NothingRestored`:
without a visibility timeout it has not been put back before), and `self.retry`
is never refused.

*Upgrade.*  Every database of `UpgradeInit` satisfies `ExecutionInv` and
`DeliveryInv` (`UpgradeStarts`, with `Histories` for the attempts and
`MigratedRow` for the rows), which every step keeps; so all that was proved of them holds
there.  `UpgradeInv` adds that no worker executes a task without a lease: a
claim gives one, and nobody else gets to execute.  `LeaselessStay` follows
(`LeaselessKept`): a scan's comparison with NULL is false, a delivered copy
finds the row RUNNING, a requeue needs DEAD_LETTER, and no outcome comes from a
worker of this release.

*Summary.*  `MonitorInv` relates what has been read to what the statements
still to come will find.  A task that is stale at the summary's clock was
counted as RUNNING, and this persists: a claim after the count gives a lease
that ends after that clock, as clocks are read in order (`WithinLease` again
covers the worker whose clock is older than its claim).  A task has at least as
many attempts as its row stands for (`AttemptsCoverRetries`, also of the values
a transaction has read and is about to write, so that it holds at any speed);
attempts are never removed, and a summary reads them after the row.

*Inspection.*  A copy that was counted can only have moved on
(`CountedMoveOn`), unless its message has been put back; the places that are
still to be asked lie upstream of those already asked, and they count nothing
before they are asked (`AskedInOrder`).  So a copy is not counted a second time.
That two copies of one message are not counted either takes a second part: of a
message that was in one place at the ping and has not been put back since, every
copy but one is acknowledged and was never counted (`OneCanBeCounted`), and stays
so.  The proof shows once what each kind of step does to the copies and the
report (`SendKeeps`, `MoveKeeps`, `RestoreKeeps`, `LoseKeeps` for the messages,
`AnswerKeeps` and `FromNowOn` for the inspection) and derives each part of
`TelemetryInv` from those; `CopiesAreSomewhere` ties a copy's place to its worker
and its routing.  `StillCountedSoFar` is `StillIsCounted` up to the current
question; a copy that moves stops being still.

*Pages.*  A page is cut by the number of rows before each row, so the proof
counts.  `Ranking` says that the ranks of a finite set under a total order are
exactly 0 to its size minus one, once each; hence a page that is not full is
the last, and passes every row (`PageIsFull`).  A wanted row that a client
passed over unlisted must have been moved to the front by one that left
(`WantedIsAhead`), a listed row that lies before the client again must have
been moved back by one that joined (`ListedIsPassed`).  Both use that the order
is total - `id` breaks the ties - and never changes (`OrderStays`).

*Percentiles.*  `sorted` takes some order of positions that ascends; that one
exists for every sequence is `Sorting`, from `Ranking` again, with positions as
the tie-break.  `Located` places the index of a percentage among the positions,
`Between` keeps the interpolated value between its two neighbours, and
`HalfWay` is the case of p50, for odd and even numbers of results.  The ranks
of 50, 95 and 99 then ascend with the percentages.

*Load test.*  `Carried` alone is not inductive: a request or a scan may fail to
dispatch, and a worker whose message has been put back once dies without
putting it back again.  `PublishedInv` asks for a `Firm` message, in the queue
or held by a worker about to claim with no copy of it restored.  A task that
was never tried is QUEUED (`UntriedWaits`), so a worker that holds such a message
claims it, which starts an attempt, or dies, which puts it back; and the 201 is
given only in the step that publishes (`CreatedIsPublished`).

*Dashboard.*  `DashboardInv` adds to the properties that a fetch names
what its kind needs (`FetchesFit`) and that nobody changes `selectedTaskId`
while a task's dialog is open (`SelectedIsAsked`).  The proof first shows that
every action does one of five things to the fetches (`FetchStep`), then derives
each part of the invariant from those.

**Only model-checked.**  Liveness (`EveryTaskEnds`, `NoTaskStuckRunning`,
`HighTasksEnd`, `PageCatchesUp`): it rests on fairness and `ENABLED`, which are
beyond the prover.  Every safety invariant and action property of a passing run
is a theorem.

## 7. What is left out, and why

* In `TaskMesh` all queues are one unordered pool that every worker consumes;
  the length of the retry delay (`retry_countdown`, a capped power of two, and
  recovery's countdown) is "any".  Order and delay are thereby arbitrary, which
  covers prefetching and countdowns; a module for the delay would restate its
  expression.  `Routing` narrows the pool to dedicated consumers; the scans on
  the control queue need none of these workers and are always possible.
* A `SELECT` without effect (`GET` of one task, the `task_exists` check before a
  rollback) is no step.
* The visibility timeout restores a message at most once per delivery, and
  redelivery is not tied to the clock: the timeout starts when a message is
  fetched, which may be long before its task starts.
* Jobs are their outcomes; a worker killed in the middle of a job is `Crash` in
  state `executing`.
* Tasks are never deleted (no code does) and `max_retries` is one value for all
  of them: no request sets it.
* A task that is QUEUED with no message after a failed publication waits for an
  operator; the documentation says so, and no property claims otherwise.  The
  same holds when a worker's transaction fails and its message is acknowledged,
  and when a restored copy has been consumed as a no-op and the worker that
  still executes dies after its task went back to QUEUED: nothing puts its
  message back a second time.  `DeliveryHonoured` names what `NeverStranded`
  takes.
* The summary's throughput (COMPLETED within the last 60 seconds) and its cut at
  ten rows: rows keep of `completed_at` whether it is set, and which rows a list
  holds is left open.
* What the inspection cannot see is in `Telemetry`, but not excluded by its
  properties: a message that waits for its countdown is held as scheduled, one
  that waits in the control queue is in a list, and the inspection asks for
  neither; a redelivered message, or a lost worker's, may be counted twice.
* Clocks.  `now` is one clock: every process reads the same one, at moments of
  its own.  The code compares a lease written with one host's clock to the clock
  of another; that hosts' clocks agree is an idealisation.  To a live worker a
  scan on a host that is ahead is what an overrun lease is.
* An upgrade under way.  `Upgrade` starts with the workers of the earlier
  release gone, at most one copy of each task's current message, and no task
  that has ever been requeued.
* The DDL of the migrations and the downgrades: `Upgrade` starts from what the
  second migration leaves.  The first creates empty tables.
* The load test's arguments and its check of the target's URL, which come before
  anything is sent.
* The dashboard's layout, toasts, chart, menu and navigation; that its list
  holds ten tasks only.  `Confirmed` and `DetailArrives` show two things a user
  may trip over, which no text excludes: a request that succeeds late closes
  the dialog that was opened for another task meanwhile, and a task's detail
  that arrives late replaces that of the task selected since.
* Configuration, logging, schemas, containers and CI have no behaviour of their
  own.

## 8. Plan

Done: the core (`TaskModel` to `TaskLifecycle`), the dashboard, the readers
(`Monitoring`, `Telemetry`, `Listing`), `Routing`, `Upgrade` and the load test,
and the proofs of all their safety properties.  What is left:

1. How far the retry budget can be exceeded under overruns: one attempt per late
   failure, with a bound to prove.
2. Delivery with requeue: what of a task's old messages must be gone for
   `NeverStranded` to hold after it.
3. Refinement at any speed: what of `TaskLifecycle` an overrunning worker still
   keeps.
4. The dashboard's health labels and chart over a degraded summary, and the
   throughput window, which needs `completed_at` as an instant.
