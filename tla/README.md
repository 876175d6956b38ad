# A TLA+ model of Loadstar

Loadstar is a daemon that measures web pages. Clients submit jobs over HTTP, a
scheduler submits them on intervals, a pool of workers runs each job several
times through up to four collectors, and everything is kept in one SQLite file.
This directory models what is hard to test in it: the life of a job, of a webhook
delivery and of a schedule while requests, workers, shutdown, crashes and restarts
interleave over memory and database; what a worker does inside a job with tiers,
tabs of a shared browser, deadlines and metrics; processes that open, upgrade and
recover one database; the retention loop and the command line tool that share this
database; the rate limit of the public endpoint; and the arithmetic of a budget's
verdict.

Paths below are relative to `src/`. `manager.go` is `internal/job/manager.go`,
`store.go` and `schedules.go` are in `internal/store`, `server.go` in
`internal/api`.

## 1. The system

| Component | State it keeps | Operations | Talks to |
|---|---|---|---|
| Job manager (`manager.go`) | `jobQueue` (bounded channel), `pendingJobs` under `mu`, `webhookChan`, `ctx`, `wg` | `SubmitJob`, `CancelJob`, `worker`/`processJob`, `sendWebhook`, `Start`, `Stop` | store, collectors, budget, metrics |
| Webhook worker (`manager.go:523`) | rows of `webhook_deliveries`; the batch it is working on | sweep every 5 s, immediate attempt, record the outcome | store, the receiver's endpoint |
| Store (`store.go`, `schedules.go`, `rum.go`) | tables `jobs`, `results`, `schedules`, `webhook_deliveries`, `rum_events` | one SQL statement per call, except `DeleteJob` and `PurgeOldJobs` (two, no transaction) | SQLite |
| Jobs API (`server.go`) | none of its own | POST, GET, DELETE of a job, listings | manager, store |
| Scheduler (`internal/job/scheduler.go`) | `schedules` rows: enabled, `last_run_at`, `next_run_at` | `runDueSchedules` every 15 s; create, enable, delete over HTTP | manager, store |
| Retention (`internal/job/retention.go`) | none | purge at start and every hour | store |
| Daemon (`cmd/loadstar/serve.go`) | the process | open store, recover, start everything, shut down | all of the above |
| Command line run (`cmd/loadstar/run.go`) | none | measures once, may write a finished job to the daemon's database | store, collectors, budget |
| Budgets, statistics (`internal/budget`, `internal/stats`) | none | `Aggregate`, `Evaluate`, `Percentile` | called by manager, API and command line |
| RUM ingest (`internal/api/rum.go`) | a token bucket; `rum_events` | accept or refuse a beacon | store |
| Migrations (`internal/store/migrations`) | `schema_migrations` | bring a database to the current version | SQLite |
| Metrics (`internal/metrics`) | counters, histograms under a lock | increment, observe, expose | manager, API |
| Chrome manager, collectors, profiles | a lazily started browser, whether its start failed, tabs | `NewManager`, `NewContext`, `Close`; one measurement per tier and run | manager, external programs |
| Validator, config, reports, UI | none | checks, formatting | — |

What is hard, and what makes each component correct:

* **Job manager.** A job exists in three places at once: the row, the id in
  `pendingJobs`, the pointer in the channel. Five kinds of goroutine change
  them in small steps: the submitting handler (or the scheduler), the DELETE
  handler, the workers, the goroutine that stops the manager, and the next
  process's recovery. A store call may fail: SQLite refuses it, the client went
  away (the handlers use the request's context), or `Stop` cancelled `m.ctx`
  (the workers and the scheduler use that one). Correct means: a job is run by
  one worker at most, a cancelled job is never run, `pendingJobs` does not leak,
  no row stays open without somebody who will finish it, a finished job has all
  it claims to have, the webhook says what the row says, `Stop` returns.
* **Webhook worker.** The insert, the notification, the sweep, the attempt and
  the record of its outcome are separate steps. Correct means: no row is lost
  or posted again once its outcome is stored, the limit on attempts holds as
  far as outcomes can be stored, and every row settles.
* **Scheduler.** The due rows are read once and used afterwards; the job and
  `next_run_at` are written in two steps. Correct means: at most one active job
  per schedule, no schedule runs hot, none stops for good.
* **Retention** races the worker that finishes and the client that deletes;
  correct means it takes finished rows older than the cutoff, and all of them.
* **Budgets, statistics, rate limit** are arithmetic: boundaries, empty samples,
  ties, the bound on a window.
* **Inside a job.** A tier may fail, hang or measure an error; the browser may not
  start, or die; the run's deadline and `Stop` may come at any time. Correct means:
  the status says what the tiers did, no tab outlives its tier, the worker comes
  back whatever a page does, and the metrics agree with one another.
* **Migrations and start.** Several processes, old and new, open one database, read
  its version outside of any transaction, and may be killed anywhere. Correct means:
  who has the store open has every table it names, no kill or lost race blocks an
  upgrade for good, and a start fails only jobs that are nobody's.

## 2. Modules

| Module | What it is |
|---|---|
| `JobRows` | abstract: the life of a job row as every reader of the table may rely on it |
| `JobLifecycle` | submission, cancellation, worker pool, shutdown, crash, recovery; properties and mutants |
| `JobLifecycleProofs` | its inductive invariant, its safety properties, and that it implements `JobRows` |
| `Notifications` | abstract: what a webhook receiver and an operator may rely on |
| `WebhookDelivery` | the webhook worker over its rows; refines `Notifications` |
| `WebhookProofs` | the account of requests, and that it implements `Notifications` |
| `Scheduler` | the scheduler over its rows, a clock, and its schedules' jobs in short |
| `SchedulerProofs` | no pile-up, off means off, and the interval between submissions |
| `Stats`, `BudgetGate` | `Percentile` and `Median`; a budget from `Validate` to the verdict |
| `BudgetProofs` | the median of most runs; the loop leaves no assertion out, in any order |
| `RumIngest` | the public endpoint: token bucket, concurrent handlers, an observer who counts |
| `RumIngestProofs` | its inductive invariant and theorems |
| `CliRun` | the command line tool: rows, verdict, exit code |
| `Retention` | the purge beside the daemon's jobs and events, with `CliRun` in the same database |
| `RetentionProofs` | what a purge takes and leaves; what the tool's verdict and exit code mean |
| `Metrics` | the registry and its exposition, under one lock |
| `TierRuns` | `processJob` from the request's tiers to the metrics, with the browser; extends `Metrics` |
| `TierRunsProofs` | status, tabs and expositions, for any pool |
| `Migrations` | `migrations.Run` in several processes |
| `Startup` | daemons and tools on one database: open, recover, listen, shut down; extends `Migrations` |
| `StartupProofs` | an open store has its tables; recovery leaves the living alone |
| `MCJobLifecycle`, `MCWebhookDelivery`, `MCScheduler`, `MCBudgetGate`, `MCRumIngest`, `MCRetention`, `MCTierRuns`, `MCStartup` | constants for TLC |

### JobLifecycle

State against code:

| Variable | In the code |
|---|---|
| `mgr` | whether the process exists and whether `m.ctx` is cancelled |
| `status`, `saved`, `verdict` | `jobs.status`, the run indexes in `results`, whether `jobs.budget_result` is set |
| `delivery` | the payload of the job's row in `webhook_deliveries` |
| `pendingJobs`, `jobQueue` | the fields of `Manager` |
| `submit`, `delete` | the program point of the job's `SubmitJob` call and of a DELETE request for it |
| `wpc`, `wjob`, `tally`, `payload` | each worker's program point, job, counters and the payload it has built |
| `cancelled` | history: the ids `CancelJob` took out of `pendingJobs` |

One action is one store call or one critical section of `Manager.mu`, because
between two of those every other goroutine may run. `SubmitJob` is `CreateJob`
(or `CreateJobFails`), `RegisterPending`, `CheckManager`, `Enqueue` and, on a
rejection, `EnqueueFailed` (the id, under `mu`) and `DeleteRejected` (the row). A
submission or a DELETE may begin after `Stop`: a handler can outlive the 20 s that
`Shutdown` gives it. A DELETE is `DeleteLookup`, `CancelJob`,
`DeleteDeliveries`, `DeleteRow`. `CancelJob` is one action although it calls the
store, because it keeps `mu` until the store answers and every other step that
looks at `pendingJobs` takes `mu`. A worker's iteration is `Pop`, `Claim`,
`MarkRunning`, `RunOnce` for each run, `WriteFinalStatus`, `JudgeBudget`,
`ReadJob`, `ReadResults`, `EnqueueWebhook`; `Panic` and `FailPanicked` are its deferred
`recover`. `sendWebhook` reads the job and its results in two calls, and a DELETE of
the finished job may come in between. `Stop`, `ProcessExits`, `Crash` and `Restart` are the process.

A store call fails when its context is cancelled, and for the jobs in `Flaky`
also at any other time. The tiers of a run are abstracted to three outcomes:
none failed, all failed, some failed; `deriveStatus` distinguishes no more. What
a result contains is left out; which runs have one is kept.

The abstractions that could matter: a job id is used by one submission (the code
draws uuids); at most one DELETE of a job is in flight; a collector panics only
while a run is collected; rows of other schedules and processes are not there.

`JobLifecycle` refines `JobRows` for the jobs whose store calls fail only by
cancellation. The mapping is the identity on the three row variables. It says
that, from the outside, a row moves `PENDING`, `RUNNING`, final; that results
appear only while it runs and each run once; that the verdict comes once and
after the status; that a start fails all open rows in one step and touches no
others; and that nothing else ever happens, whatever interleaves.

### WebhookDelivery

| Variable | In the code |
|---|---|
| `mgr` | as in `JobLifecycle` |
| `row`, `attempts`, `waiting`, `created` | the row's `status` and `attempts`, whether `next_attempt` lies ahead, the order of `created_at` |
| `sender` | the program point of the job worker's `sendWebhook` |
| `webhookChan` | the field of `Manager` |
| `pc`, `todo`, `seen`, `verdict` | the webhook worker's program point, the deliveries it has read and not sent, the attempts it read with them, the status it is about to store |
| `posts`, `accepted`, `unrecorded` | history: requests sent, whether the receiver took one, outcomes that were not stored |

`sendWebhook` is `Insert` and `Notify`. The worker's select is `Sweep`, `Receive`
and `WorkerExit`; both ways of reading deliveries go on with `sendOneWebhook`,
which is `Post` (the request) and `Record` or `RecordFails` (the update). Two
details matter and are kept: `attemptWebhook` reads with a context of its own, so
it still works after `Stop`, and the loop over a batch does not look at `m.ctx`,
so after `Stop` the rest of a batch is sent and not recorded.

The endpoint takes a notification and says so, takes it and the answer is lost, or
refuses it. The exact backoff is abstracted to "not yet" and "due".

`Notifications` knows no worker: an announced notification may be sent any number
of times, is called delivered only if the receiver took it, abandoned only after
`MaxRetries` requests, and is not sent again once either is stored. The mapping
derives its `outcome` from the row and `sender`, so that a row deleted is
"removed" and one never inserted is "none".

### Scheduler

| Variable | In the code |
|---|---|
| `row`, `wait` | `enabled` of the row, or whether it is there; `next_run_at` minus now |
| `pending`, `running` | how many of the schedule's jobs have that status |
| `stuck` | the schedules one of whose open jobs belongs to nobody: left by a failed cleanup, by a start, an end or a delete that could not be stored, by a submission that raced with `Stop`, or by a recovery that failed |
| `pc`, `due`, `cur`, `age` | `runDueSchedules`: the program point, what is left of the rows it read, the one it is at, the time since its `now` |
| `since`, `late` | history: time since the last submission whose advance was stored, submissions after the schedule was switched off |

A pass is `Tick` (the due query, ordered and limited), and for each schedule
`Count` or `CountFails`, `Submit` or `SubmitFails`, `Mark` or `MarkFails`.
Between them clients create, switch and delete schedules and delete jobs, workers
start and finish jobs (or fail to store that they did, which leaves a row open), the
clock ticks, the process stops, crashes and starts.
Time is relative, so that the state space is finite: `Clock` takes one from every
`wait`. `JobStarts`, `JobEnds`, `JobDeleted` are `JobLifecycle`'s steps seen from
the count that the overlap check reads; for a flaky schedule each of the three store
calls may fail, and `LeftOpen` is what the count sees then: a row nobody will finish.

### Stats and BudgetGate

Samples are integers, and results are exact in hundredths, where the code has
`float64`: rounding is not modelled. Sorting is stated by what it gives (`Sorted`: one
of the rearrangements in which no value is below the one before), so `Collected` may
have the values of a key in any order. `BudgetGate` starts from every assignment of
bounds and levels to metrics, legal or not (`Validate` sorts them out), collects
runs in which a metric may be missing, aggregates, and then evaluates the
assertions in an order the model does not fix, as Go's map iteration does not.

### RumIngest

| Variable | In the code |
|---|---|
| `tokens`, `idle` | `tokenBucket.tokens`; now minus `tokenBucket.lastRefill` |
| `pc` | whether a handler has passed `allow()` and not ended |
| `observer`, `since`, `starts`, `spent`, `stored`, `carried` | history: what an observer counts from the moment he begins |

`allow()` holds its lock throughout and is one action, `Allow` or `Refuse`; both
refill first, both reset `lastRefill`. `Store` and `Discard` end a request, any
time later. A request that is refused before `allow()` (endpoint disabled, foreign
origin) changes nothing. `float64` tokens become integer parts of a token, so that
a refill may be less than one; rounding is not modelled.

### CliRun and Retention

| Variable | In the code |
|---|---|
| `cpc`, `run`, `attempted`, `failed`, `eval`, `told`, `exit` | `runCmd`: the program point, `i`, `tiersAttempted`, `tiersFailed`, `eval`, the position in `cliJobIDs`, the exit code |
| `crow`, `cverdict` | status and `budget_result` of the tool's rows |
| `worked` | history: whether some tier delivered |
| `row`, `age`, `delivery` | a daemon's job: its status in short, `completed_at` as an age, whether it has a delivery row |
| `sending` | the jobs a worker has finished and whose webhook it has not inserted yet |
| `event`, `eage` | a row of `rum_events` and the age of its `created_at` |
| `rpc`, `lapse` | `runRetention`: the program point, the time since its cutoff |

The tool's steps are `Measure`, `CreateRow` and `SaveRow` for each run, `Judge`,
`Tell` for each row, `Report`. A killed tool takes no further step. What it
measures and what the budget says of it are choices (`BudgetGate` has the verdict).

A daemon's job is `Open`, `Finish` (the final status) and, some steps later and perhaps
in the middle of a pass, `Send` (the delivery). A pass of retention is `Tick`,
`PurgeDeliveries`, `PurgeJobs`, `PurgeEvents`, or `PurgeFails` at any of the three.
`DaemonStarts` recovers, or fails to, and begins a pass at once. Time counts in days and rows carry ages. The tool's rows meet the
daemon in three places: recovery, which looks for open rows; a client's DELETE;
and the purge, whose condition they never meet, because they have no `completed_at`.

### Metrics and TierRuns

| Variable | In the code |
|---|---|
| `mu`, `jobsTotal`, `duration` | `Registry.mu`, and two of its families: a counter with a label, a histogram |
| `scraper`, `page` | where the `/metrics` handler is in `Registry.Write`, and the counters it has written |
| `mgr`, `row`, `results` | as in `JobLifecycle`; here `results` has what each tier of each run left in its record |
| `request` | what the client sent: tiers, runs, and whether the rest of it is valid |
| `chrome` | `Manager.chrome` and `chromeOnce`: not started, starting, up, failed (`startErr`), dead, closed |
| `wpc`, `wjob`, `run`, `tally`, `final` | each worker's program point and the variables of `processJob` |
| `tab` | the worker's tab: none, open, or its context has ended with the browser |

`validate` and `hasTier` work on lists of names as a client sends them, in any order,
with "all", with duplicates, with a misspelt name, or empty. A run goes through its
tiers in the code's order: `CollectNetwork`, `NewContext`, `CollectBrowser` and
`CloseTab`, the same for vitals, `CollectLighthouse`, `EndRun`. A tier leaves data,
nothing, or (network only) data with an error. `StartBrowser` and `Launched` are
`chromeOnce`; the other workers wait for it. `Expire` is the deadline of a run.
The job's end is `WriteFinalStatus`, `CountJob`, `ObserveDuration`, the last two under
the registry's lock, which `WriteTotal` takes and `WriteDuration` frees: a scrape is
two steps, between which its client may be slow.

`JobLifecycle` has the rest of a job, so what it knows is short here: the queue is the
set of PENDING rows, store calls fail only after `Stop`, nothing panics, nothing is
deleted. Two facts about chromedp are taken from the code's words and are external:
the cancel of a tab of a browser that never started blocks (`chrome/manager.go:52`),
and the death of the browser ends the contexts of its tabs. The cancel of a tab whose
browser died is assumed to return.

### Migrations and Startup

| Variable | In the code |
|---|---|
| `applied`, `schema` | the rows of `schema_migrations`; the versions whose tables and columns are there |
| `writer` | the connection that holds SQLite's write lock |
| `pc`, `at` | each process's program point, and the version it has reached in `Run`'s loop |
| `port` | who listens on the configured address |
| `row`, `holder`, `begun` | a job's status, the process whose queue or worker has it, whether the worker has started |

`Run` is `ReadVersion`, then for each version left `Begin`, `Apply` and `Commit`. `Busy`
is the lock that is not free in time, for a transaction or, on a fresh database, for the
CREATE TABLE in front of the read (`Writes`); an error or a kill rolls back and ends the
process. The SQL is abstracted to whether it can be applied twice: 1 and 3 create what
is not there, the others add columns. `Startup` puts the daemon around it: `Start`,
`Recover` (which may fail, and the daemon goes on), `Listen` (which may find the port
taken, and the process exits), `Shutdown`, `Ends`, and `Crash` anywhere. `Accept` and
`Work` are a submission and a worker's two writes, which select by id and do not look
at the status.

## 3. Runs

| Run | Instance | Asks |
|---|---|---|
| `jobs_safety` | two jobs, two workers, a queue of one slot; one job submitted by a client with a budget, two runs and a webhook, the other by the scheduler with one run, a webhook and failing store calls | all safety properties and the refinement of `JobRows` |
| `jobs_liveness` | two jobs (one client's, one scheduled), one worker, a queue of one slot, store calls fail by cancellation only | accepted jobs settle, `Stop` returns; also the inductive invariant of the proofs |
| `delete_running` | violation | the DELETE handler can delete a running job's row |
| `stop_drain` | violation | a graceful shutdown can leave a job RUNNING |
| `webhooks` | two deliveries, two attempts, a channel of one, a batch of two, at most two outcomes lost; store calls for one of them fail at times | the accounting of attempts, the refinement of `Notifications`, every delivery settles |
| `schedules` | two schedules with intervals of one and two ticks, a batch of one; store calls for one of them fail at times | no pile-up, spacing, off means off, enabled schedules go on |
| `budgets` | three metrics, one of them unknown, up to two assertions and three runs, values below, at and above the limit | the verdict |
| `rum` | two handlers; three parts to a token, two parts a tick, a bucket of two tokens | the bound on what is stored, and that a flood is served |
| `retention` | a job, an event, two runs of the tool with one tier, a retention of one day, passes of up to one day, webhooks inserted up to one day after the final status | what is purged and when; verdict, rows and exit code of the tool |
| `tiers` | two jobs that may ask for several lists of tiers and up to two runs, two workers, one browser, one scraping client | status, tabs, expositions, workers that come back |
| `startup` | two daemons, one after the other, the newer at version 7, the older at 6, a tool at 4, two jobs, two kills | tables, upgrades, recovery |
| `second_daemon` | violation | a second daemon fails the jobs of the first |

The safety properties of `jobs_safety`:

* `OneHolder`: a job is once in the channel or in one worker's hands.
* `PendingIsTracked`: an id in `pendingJobs` belongs to a submission under way,
  a queued job, or one just received.
* `CancelledNeverRuns`: what `CancelJob` took out of `pendingJobs` is never
  processed, even when a worker had already received it.
* `OpenRowHasOwner`: while the daemon is up, an open row belongs to the
  submission, channel entry or worker that will finish it.
* `FinishedHasAllRuns`: COMPLETED and PARTIAL imply a result of every run.
* `PayloadIsFinal`: a stored payload has the row's final status, the verdict
  when there is a budget, and every result; or none, and then the job has been
  deleted (between `sendWebhook`'s two reads). Never some of them.
* `RefusedLeavesNothing`: a refused submission leaves no id, no queue entry, no
  worker, and no row when the context it cleans up with is alive; where the cleanup
  fails, the row that stays never ran and never will.
* `RowsFollowTheirLife`: the refinement.

Of `webhooks`: `AttemptsAreCounted` relates three counts, the requests sent, the
attempts in the row and the outcomes that could not be stored. Together with
`TypeOK`, which bounds the attempts, it says that a receiver sees a notification
at most `maxWebhookRetries` times plus once for each lost outcome.
`StoreTellsTheTruth` is the refinement. `EveryDeliverySettles` is about the sweep:
it must find what a full channel, a failed update or a restart left behind.

Of `schedules`: `NoPileUp` and `OffMeansOff` survive a batch that is stale when it
is used; `SubmissionsAreSpaced` says what the interval means when passes are late
and advances get lost (it counts from the last one stored); `EnabledSchedulesGoOn` says that no skip, refusal, deletion
or interruption silences a schedule for good.

Of `budgets`: `MostRunsDecide` compares the verdict of each assertion with a count
of the runs that meet it, without a median; `VerdictIsTheWorst` states the result
of the loop without its order.

Of `rum`: `WritePressureIsBounded` is the limiter's purpose as the code's comment
states it, for every window and not only from the start, with handlers that end
late and restarts that refill the bucket. `FloodIsServed` says that refused
requests do not starve the bucket by resetting `lastRefill` before a whole token
has come in.

Of `retention`: `NothingLeftBehind` rests on the two statements using one cutoff;
`NothingYoungIsTaken` includes the deliveries of jobs that stay because a pass was
cut short; `OldOnesGo` needs recovery to set `completed_at`. `StoredVerdictIsTheGate`
and `ExitTellsTheTruth` say what a pipeline may conclude from the database and from
the exit code.

Of `tiers`: `StatusIsWhatTheTiersDid` reads the request and the stored results only and
must come to the status that validation, `hasTier`, the tiers' outcomes, the two counters
and `deriveStatus` came to. `NoTabIsLeaked` covers every way a collection ends.
`ScrapesAgree` says that a half-written exposition never mixes two states of the
registry, up to the jobs in workers' hands between their two updates.
`WorkersComeBack` says that pages, deadlines, a browser that cannot start or dies, and
slow scrapes all leave the worker free at last, and let `Stop` return.

Of `startup`: `OpenStoreHasItsTables` holds although nobody who reads the version holds a
lock. `UpgradesFinish` says that each process which is started again and again gets its
store open; it needs the SQL and its version in one transaction, or a kill between them
would leave a column that every later start trips over. `RecoveryTakesOnlyInterrupted`
holds as long as a daemon is started only when no other is there; `second_daemon` lifts
that and finds the opposite.

**Bounds.** Two jobs are enough for one to fill the queue while another is
refused, for both workers to be busy, and for a worker to hold one job while a
DELETE removes another; the properties relate a job to itself or to one other.
A queue of one slot reaches full and empty. Two runs distinguish the last run
from the one before; a job with one run has a first run that is the last. Stops,
crashes and restarts are not bounded. Workers are symmetric in `jobs_safety`; no
symmetry is used where liveness is checked.

In `webhooks` two attempts distinguish the last from the one before, and two
deliveries with a channel of one lose a notification to a full channel and put a
second delivery into a batch that is cut by `Stop`; the batch limit itself is not
reached there. `MaxLost` bounds how many outcomes are lost in a behaviour, since
each may cause one more request. In `schedules` a batch of one leaves due
schedules for the next pass. `MaxLag` bounds how long an enabled schedule may be
overdue and `MaxPass` how long a pass takes, both by holding back the clock; with
intervals of one and two ticks a pass can last as long as the shorter one. In
`budgets` three runs have an even and an odd sample and a majority, and the values 0,
1 and 2 lie below, at and above the limit 1; a median may lie halfway between two.
In `rum` neither requests nor restarts nor time are bounded: `MaxWindow` and
`MaxStarts` only end the observer's count, who may begin again, and `FullAfter` is
long enough for any bucket to be full (an assumption), so that more idle time makes
no difference. Two parts a tick and three to a token give refills that do not fill
a token and ones that overfill the bucket. In `retention` ages are counted up to
one past any cutoff, `MaxPass` bounds how long a pass takes, and `MaxSend` how long after
the final status a webhook is inserted (an assumption: no longer than the retention; the
code goes from one to the other in a few store calls). With a retention of one day a job
can become old between two statements of one pass, and a webhook come in there. Two runs of the
tool are enough for one row to be there, or be told the verdict, and the other not.
In `tiers` two workers compete for the browser's start and for the registry; `MaxRuns` of
two distinguishes the last run from the one before and three runs are refused; two buckets
and a value above both show whether they are cumulative. A process stops once and the
counters are bounded by the jobs. In `startup` the versions are the code's; a third
process meets the race of the other two. `MaxCrashes` bounds the kills, for liveness: a
process that is killed in every attempt opens nothing. Stops, crashes and restarts are
bounded in no other run.

**Deadlock** is checked in `webhooks`, `schedules`, `rum`, `startup`, `second_daemon` and
`retention`, where time goes on or the
daemon can always be stopped, crash or be started. It is not checked in `budgets`,
where the evaluation ends, in `tiers`, where the process may have stopped, nor in the
runs of `JobLifecycle`: once every job is submitted and
answered and the daemon idles, or in a behaviour where nobody sends a request,
the model may have nothing left to do, as the daemon has.

**Fairness.** Each handler's steps (a job's submission and its DELETE are two
goroutines, and each is fair by itself), each worker's steps, the return of `Stop` and
the restart are weakly fair: the Go scheduler runs every goroutine that can run,
`mu` is held for a map operation or one store call, a collector ends by its
timeout, and a supervisor starts the daemon again. No request, stop or crash is
assumed to happen. Crashes may recur without bound, which is harmless: a crash
loses the queue, and recovery settles the rows.

For the webhook worker: its loop (the ticker ticks, the client gives up after ten
seconds), `Notify`, the passing of the backoff, `Stop`'s return, the restart.
Nothing is assumed of the endpoint: attempts end by the limit. Nor is a failing
update assumed to succeed: `MaxLost` bounds the failures. `EveryDeliverySettles`
is conditional on the daemon staying up from some time on, because a daemon that
crashes before every sweep delivers nothing.

For the scheduler: its loop, the workers on jobs they can reach, `Stop`'s return,
the restart. The clock is strongly fair because `MaxLag` and `MaxPass` hold it
back at times. The count and the advance of a schedule are strongly fair: a store
call that is made again and again is not refused for ever.

For `rum`: the clock, and the end of a request, which the server's read timeout
forces. `FloodIsServed` is conditional on requests coming. For `retention`: days,
the insertion of a webhook, the ticker and the end of a statement are weakly fair
(`MaxPass` and `MaxSend` hold a day back only while a statement runs or a webhook is
being sent, which then ends), the success of each statement is
strongly fair, so that one made again and again is not refused for ever.
`OldOnesGo` is conditional on the daemon staying up from some time on; nothing is
assumed of the tool.

For `tiers`: workers run, an HTTP client gives up by its timeout, the launch of the browser
ends, deadlines pass, and a scrape is over when the server's `writeTimeout` is
(`serve.go:30`). Nothing is assumed of a collector in an open tab: only the end of the tab's
context makes it return. A worker's updates of the registry are strongly fair although
scrapes may follow one another without end, because Go's mutex hands itself to a waiter that
starves. For `startup`: a process that is not there is started again and again (strongly
fair, since the presence of another daemon forbids it at times), and one that is opening the
store goes on; no shutdown is assumed.

**Mutants.** Each property has a mutant, defined beside the definition it
changes, for instance no cleanup on a full queue, an id left in `pendingJobs`, a peek in place
of a receive, no check after the receive, the last run missing, the webhook before the budget, an exit that waits for the channel to
drain, a recovery that forgets queued jobs or has no WHERE clause, a sweep that overlooks
rows never tried, an immediate attempt that does not look at the status, an
overlap check that counts RUNNING only, a `next_run_at` counted from its old value,
a missing metric that passes, a bucket that adds whole tokens only, a
`lastRefill` kept by refused requests, a purge that looks at the clock for each statement, a
recovery without `completed_at`, an exit code that looks at the budget first, tier names
that are not checked, a tab closed after a good collection only, a registry unlocked between
two families, a `startErr` that is not looked at, a locked database that is logged and
skipped, migrations on `db` instead of `tx`, a command line tool that recovers.

## 4. Where the code and its words differ

* `server.go:409` refuses to delete a running job, but on a status read before
  `CancelJob` and `DeleteJob`; a worker can start in between (`delete_running`).
* `README.md:64` says shutdown drains in-flight jobs; `Stop` cancels the context
  their writes use, and the next start marks them FAILED (`stop_drain`).
* `store.go:537` says recovery fails jobs left by a previous process; it takes every open
  row, and `serve.go:93` calls it before the daemon knows that it is the only one
  (`second_daemon`).

Met while modelling and not checked by a run. `manager.go:176` promises that a rejection
leaves no row; the scheduler submits with `m.ctx`, and when that is cancelled the cleanup's
delete fails too: in `JobLifecycle`, `DeleteRejected` of a scheduled job after `Stop`.
Likewise `CancelJob` takes the id first, and if its delete then fails (`manager.go:214`) a
PENDING row stays that no worker will run; the next start fails it, and until then its
schedule skips.
`docs/architecture.md:169` says a restart does not lose a notification; one between the
final status and the insert does: `Crash` after `WriteFinalStatus`. The same line speaks of
exponential backoff; an immediate attempt looks at the status and not at `next_attempt`
(`manager.go:572`), so a notification still in `webhookChan` when the sweep has tried the
delivery sends it again at once: in `WebhookDelivery`, `Receive` after `Record`. A browser
that failed to start or died is never started again (`manager.go:89`), so every later
browser and vitals tier fails until the daemon restarts. A job whose start could not be
stored, or that panicked, is in none of the series of `loadstar_jobs_total`.
`docs/architecture.md:165` says
`next_run_at` always advances; when the overlap check's query fails, the schedule
stays due (`scheduler.go:61`), as the comment at `scheduler.go:70` has it for a
failed update. `SubmissionsAreSpaced` holds counted from the last advance that was
stored; while none can be stored, only `NoPileUp` limits the submissions.
`store.go:554` deletes a job's deliveries to leave no orphans; the two statements
and the worker's insert (`manager.go:510`), which read the job before, interleave
into one: in `JobLifecycle`, `DeleteRow` after `EnqueueWebhook` after
`DeleteDeliveries`. `sendWebhook` itself reads twice, and a DELETE of the finished job
between the two (`manager.go:483` and `488`) makes it announce a final status without any
result: `DeleteRow` between `ReadJob` and `ReadResults`. It also drops the error of the
second read, so that a read that fails is sent as an empty list. `docs/architecture.md:127` gives COMPLETED a meaning; the
command line stores it whatever its tiers did (`cmd/loadstar/run.go:168`). It also
stores these rows without `completed_at`, so retention never takes them, where
`README.md:238` says completed jobs are purged: in `Retention` they are not in
`OldJobs`.

## 5. Proofs

Every safety property that a run checks is also a theorem, for every value of the
constants that the named assumptions admit.
Each proof has the same course: an inductive invariant `IndInv`, stated in the module it is
about as a conjunction of named parts; a lemma for each action, or for each group of actions
that touch the same things; one temporal step. An action property or a refinement is then
proved step by step from that invariant. TLC has checked every `IndInv` on the instance of
the component's run; `jobs_liveness` and `rum` check theirs in each run of the project, since
there the type invariant is a part of it.

### Jobs

`JobLifecycleProofs`, for any sets of jobs and workers, any queue depth, any number of runs
and any subsets of budgeted, hooked, scheduled and flaky jobs:

| Theorem | Says |
|---|---|
| `TypeOKHolds` | `Spec => []TypeOK` |
| `Inductive` | `Spec => []IndInv` |
| `NoJobRunsTwice` | `Spec => []OneHolder` |
| `PendingDoesNotLeak` | `Spec => []PendingIsTracked` |
| `CancelWins` | `Spec => []CancelledNeverRuns` |
| `OpenRowHasOwnerHolds` | `Spec => []OpenRowHasOwner` |
| `FinishedHasAllRunsHolds` | `Spec => []FinishedHasAllRuns` |
| `PayloadIsFinalHolds` | `Spec => []PayloadIsFinal` |
| `RefusedLeavesNothingHolds` | `Spec => []RefusedLeavesNothing` |
| `RowsImplementJobRows` | `Spec => RowsFollowTheirLife`, the refinement of `JobRows` |

It uses the four assumptions of `JobLifecycle`: `NoJob` is not a job, the pool and
the queue are not empty, every job has a run, the kinds are sets of jobs. It does
not assume that `Jobs` or `Workers` is finite.

The invariant comes in three layers, each proved with the ones before. `TypeInv` has the
types and what a worker holds, a half-built payload too (`PayloadShape`). `Holding` says where a job is: `OneHolder` alone is not
inductive, because that a job is not appended to a channel it is already in needs that queued
jobs were accepted (`QueuedAccepted`) and that a submission sends once; `CancelledNeverRuns`
needs that a job past `Claim` is in neither `pendingJobs` nor `cancelled` (`ClaimedShape`),
that a cancelled id never comes back to `pendingJobs` (`CancelledShape`), and that stored
results belong to a job that is not queued, received or pending (`SavedShape`).

`RowInv` says what the row knows of the hands the job is in. `InHands` has a line for each
program point of a worker: while it executes, the row is RUNNING and has exactly the results
the worker has counted; from the final status on it has all of them; before the payload is
built it has its verdict; between `sendWebhook`'s two reads (`gathering`) the payload has
the row's status and verdict, and the row, if it is still there, has all its results. Each line is guarded by `mgr = "up"` where a store call may
be refused, and allows for the row to be gone, since a DELETE may have come in between
(`delete_running`). `UnrunShape` is the same for jobs no worker has, `TallyShape` ties the
worker's counter to its program point. What relates a row to its results or to a worker is
claimed of the jobs whose store calls fail only by cancellation (`Reliable`): for the others a
row may say PENDING while the job runs, or stay open after it.

For the refinement each action becomes one step of `JobRows` for one row, the recovery of all
rows, or a stutter. An UPDATE in the code selects by id and does not look at the status; that
it moves a row only where `JobRows` lets it, PENDING to RUNNING, RUNNING to final, one more
result while it runs, a verdict once and after the status, is what `InHands` is for.

### Webhooks

`WebhookProofs`, for any finite set of deliveries, any limit on attempts, batch, channel and
bound on lost outcomes:

| Theorem | Says |
|---|---|
| `InvariantHolds` | `Spec => []IndInv` |
| `TypeOKHolds` | `Spec => []TypeOK` |
| `EveryRequestIsCounted` | `Spec => []AttemptsAreCounted` |
| `RequestsAreBounded` | `Spec => []SentAtMost`: at most `MaxRetries` requests, and one for each outcome that was not stored |
| `StoreImplementsNotifications` | `Spec => StoreTellsTheTruth`, the refinement of `Notifications` |

The account needs that a row the worker has read stays as it was read until the worker
writes it, or is deleted (`TodoShape`): nobody else writes an existing delivery, not even the
next process, whose worker starts with nothing. `WorkerShape` says that the status about to
be stored is what the request and the limit make of it, and `PendingIsDue` that a pending row
has an attempt left. Under the refinement mapping `Post` sends, `Record` settles, and a
settled row is not written again because a batch contains pending rows only.

### Schedules

`SchedulerProofs`, for any finite set of schedules, any intervals, any batch and any bounds on
delays (`MaxPass` is at most an interval and `MaxLag`: a pass that takes longer makes the
schedule it is at overdue by more than the clock allows):

| Theorem | Says |
|---|---|
| `InvariantHolds` | `Spec => []IndInv` |
| `TypeOKHolds` | `Spec => []TypeOK` |
| `NoPileUpHolds` | `Spec => []NoPileUp` |
| `OffMeansOffHolds` | `Spec => []OffMeansOff` |
| `SubmissionsKeepTheInterval` | `Spec => SubmissionsAreSpaced` |

Everything turns on the batch that is stale when it is used. `StillDue` says what stays true
of a row in it whatever clients do meanwhile: a whole interval has passed since its last
stored advance, and it has not been submitted since it was switched off. `WaitShape` is the
account of time: what a schedule has still to wait makes up for what has not passed of its
interval. `SubmitShape` is why the overlap check may be a step of its own: only
the pass submits for a schedule, so a count of zero stays zero until the submission.

### Retention and the command line tool

`RetentionProofs`, for any jobs, events, retention and length of a pass, any number of runs
and any finite set of tiers:

| Theorem | Says |
|---|---|
| `InvariantHolds` | `Spec => []IndInv` |
| `NothingLeftBehindHolds` | `Spec => []NothingLeftBehind` |
| `ExitTellsTheTruthHolds` | `Spec => []ExitTellsTheTruth` |
| `StoredVerdictIsTheGateHolds` | `Spec => []StoredVerdictIsTheGate` |
| `NothingYoungIsTakenHolds` | `Spec => NothingYoungIsTaken` |

`DeliveriesGoFirst` is the purge's argument: what the second statement will take has no
delivery once the first has run. Between the two no job becomes old by their cutoff,
because ages and the time since the cutoff grow together (`DayKeepsOld`) and a job that
finishes is younger than the cutoff (`YoungIsNotOld`, from a retention of at least a day);
and no delivery of an old job comes in, because a job whose webhook is still to be inserted
has finished within `MaxSend` (`SendersAreYoung`). For the tool `CountShape` relates its counters to whether anything was measured, and
`RunShape` says that no row has a verdict before the last run is behind.

### Inside a job

`TierRunsProofs`, for any jobs and requests, any finite pool, any limit on runs, any number
of buckets:

| Theorem | Says |
|---|---|
| `InvariantHolds` | `Spec => []IndInv` |
| `StatusIsWhatTheTiersDidHolds` | `Spec => []StatusIsWhatTheTiersDid` |
| `NoTabIsLeakedHolds` | `Spec => []NoTabIsLeaked` |
| `ScrapesAgreeHolds` | `Spec => []ScrapesAgree` |

`deriveStatus` sees two counters; the property sees the stored results. `RunShape` ties the
record of the run to the tiers that are behind the worker, and `TallyShape` says that a
counter is at its limit exactly when every stored result is of its kind: then the status
follows from the lists of tiers alone. That the results are the worker's own needs `OneHand`.
`TallyShape` holds while `m.ctx` is alive; a worker that is cut off stores neither results nor
a status. `NoTabIsLeaked` needs that one worker at a time starts the browser
(`BrowserShape`), so that a launch that ends after `Stop` is still seen by it. For `ScrapesAgree` the
sum of the counter family exceeds the histogram's count by the workers that are between their
two updates (`RegistryShape`); it uses that the labels are the three final statuses, as in
the code, which `TierRunsAssumption` says, and that the pool is finite.

### Budgets

`BudgetProofs`, for any budget over any finite set of metrics, any number of runs, any
values and any threshold:

| Theorem | Says |
|---|---|
| `InvariantHolds` | `Spec => []IndInv` |
| `VerdictIsTheWorstHolds` | `Spec => []VerdictIsTheWorst` |
| `MostRunsDecideHolds` | `Spec => []MostRunsDecide` |

The loop's invariant is that exactly the bounds of the keys behind it have results
(`EveryBoundIsJudged`), each one of those that `Results` gives (`Judged`), and that the
verdict is the worst of them (`WorstSoFar`); `Measured` keeps what `Aggregate` has computed
tied to the runs. `VerdictIsTheWorst` assumes nothing of the metrics, so it holds whatever
`Median` returns.

`MostRunsDecide` needs facts about the median of every sample, which are proved without
induction over samples. A sorted copy exists (`SortingExists`): the place of each value is
how many come before it, and places are distinct. It has as many values in any set as the
sample has (`CountedThrough`). In it, what holds of more than m values and of all below one
of them holds at place m + 1, by counting, and likewise from above (`LowMany`, `HighMany`);
so what holds of more than half of the values on one side of a threshold holds of the middle
value, or of both middle values (`MedianIsOfMost`), and therefore of the median.

### Rate limit

`RumIngestProofs` proves, for any rate, burst, cost and finite set of handlers:

| Theorem | Says |
|---|---|
| `TypeOKHolds` | `Spec => []TypeOK`, the bucket is never fuller than full |
| `Inductive` | `Spec => []IndInv` |
| `WritePressure` | `Spec => []WritePressureIsBounded` |

The bound on what is stored is not inductive, because a step of `Store` does not
look at the bucket. Two accounts are: `TokensAreSpent`, that the tokens taken and
those now available never exceed the burst of each process and the refill, where
the brim can only lose some; and `StoredWithToken`, that events stored and requests
under way are covered by tokens taken and requests carried over. Their sum gives
the bound. It uses that the handlers are finitely many, that a token costs
something and fits into the bucket, and that `FullAfter` ticks fill any bucket: the
clock stops counting idle time there, and without this the last step would lose
tokens the account expects.

### Start and migrations

`StartupProofs` proves, for any processes, any jobs, any bound on kills and any of the
code's versions that each process knows:

| Theorem | Says |
|---|---|
| `StoreHasItsTables` | `Spec => []OpenStoreHasItsTables` |
| `RecoveryIsSafe` | `~Overlap => (Spec => RecoveryTakesOnlyInterrupted)` |

The first needs that what has been applied is always the first n migrations, with nobody
counting further than n (`Contiguous`): a process that read an old version and loses the
race to commit the next one meets the primary key, so that a commit is always of version
n + 1. SQLite's write lock is not needed for it, only that a transaction is all or nothing.
The second needs that a job in memory is in a daemon's that is past its own recovery, and
that no two daemons are there (`HolderInv`); the hypothesis is what `second_daemon` drops.

### Only model-checked

* `AcceptedJobsSettle`, `StopReturns`, `EveryDeliverySettles`, `EnabledSchedulesGoOn`,
  `FloodIsServed`, `OldOnesGo`, `WorkersComeBack` and `UpgradesFinish`: liveness under
  fairness, which needs ENABLED.

## 6. Plan

Done: all modules of section 2, and the safety part of each as theorems. Left:

1. `Daemon`: `Scheduler` composed with `JobLifecycle`, so that the count of open
   rows is JobLifecycle's and `JobStarts`, `JobEnds`, `JobDeleted` are its steps; then that
   the composition implements both.
2. Proofs: that the schema only grows, for any set of processes.

## 7. Not modelled

What a collector measures, the profiles' throttling, the scripts of the vitals tier:
external programs behind one call, seen as the outcome of a tier. Address checks,
authentication, configuration, reports, UI and documentation pages: no state that changes.
The read endpoints: one query each. Of the metrics, gauges (read or overwritten, decided on
by nobody), help texts, the histogram's sum and the rendering of labels.
