---------------------------- MODULE JobLifecycle ----------------------------
(***************************************************************************)
(* The life of a job in the Loadstar daemon: submission (SubmitJob), the   *)
(* in-memory queue and the set of cancellable jobs, the worker pool        *)
(* (worker, processJob, sendWebhook), the DELETE handler, shutdown, crash  *)
(* and the recovery at the next start, over the SQLite tables they share.  *)
(*                                                                         *)
(* A job id is used by one submission, as the uuid in the code is. Every   *)
(* action is one store call or one critical section of Manager.mu.         *)
(***************************************************************************)
EXTENDS Naturals, Sequences, FiniteSets

CONSTANTS
  Jobs,        \* job ids, one submission each
  Workers,     \* the goroutines of the pool (config: workers)
  QueueDepth,  \* capacity of the jobQueue channel (config: queue_depth)
  Runs,        \* Runs[j]: how many runs the submission asks for
  Budgeted,    \* jobs submitted with a budget
  Hooked,      \* jobs submitted with a webhook_url
  Scheduled,   \* jobs the scheduler submits: their context is the manager's
  Flaky,       \* jobs whose store calls may fail: SQLite refuses the call, or
               \* the client left and the request's context is cancelled
  NoJob,       \* no job in a worker's hands
  NoPayload    \* no webhook payload: none built, or no delivery row

ASSUME JobsAssumption    == NoJob \notin Jobs
ASSUME PoolAssumption    == Workers # {} /\ QueueDepth \in Nat \ {0}
ASSUME RunsAssumption    == Runs \in [Jobs -> Nat \ {0}]
ASSUME KindsAssumption   == /\ Budgeted \subseteq Jobs /\ Hooked \subseteq Jobs
                            /\ Scheduled \subseteq Jobs /\ Flaky \subseteq Jobs

VARIABLES
  mgr,         \* "up", "stopping" (m.ctx is cancelled) or "down" (no process)
  status,      \* jobs.status of the row, "none" when there is no row
  saved,       \* the run indexes stored in results for the job
  verdict,     \* whether jobs.budget_result is set
  delivery,    \* the payload of the job's webhook_deliveries row
  pendingJobs, \* Manager.pendingJobs: the ids CancelJob can still cancel
  jobQueue,    \* Manager.jobQueue
  submit,      \* where the job's SubmitJob call is
  delete,      \* where a DELETE request for the job is
  wpc,         \* where each worker is
  wjob,        \* the job each worker holds
  tally,       \* processJob's counters of each worker
  payload,     \* the payload sendWebhook has built in each worker
  cancelled    \* history: the jobs CancelJob took out of pendingJobs

db       == <<status, saved, verdict, delivery>>
mem      == <<pendingJobs, jobQueue>>
handlers == <<submit, delete>>
pool     == <<wpc, wjob, tally, payload>>
vars     == <<mgr, db, mem, handlers, pool, cancelled>>

Final == {"COMPLETED", "PARTIAL", "FAILED"}
Open  == {"PENDING", "RUNNING"}

NoTally == [done |-> 0, clean |-> 0, failed |-> 0]

-----------------------------------------------------------------------------
(* Store calls                                                             *)

\* database/sql returns the context's error, and writes nothing, when the
\* call's context is cancelled; any call about a flaky job may fail as well.
StoreFails(j, ctxDone) == ctxDone \/ j \in Flaky

\* m.ctx, the context of the workers' calls and of the scheduler's submissions.
ManagerCtxDone == mgr = "stopping"

SubmitCtxDone(j) == j \in Scheduled /\ ManagerCtxDone

\* UPDATE jobs SET status = s WHERE id = j. No row: no error either.
UpdateJobStatus(j, s) ==
  status' = [status EXCEPT ![j] = IF @ = "none" THEN @ ELSE s]

\* INSERT INTO results: the foreign key refuses it when the job has no row.
SaveResult(j, i) ==
  /\ status[j] # "none"
  /\ saved' = [saved EXCEPT ![j] = @ \cup {i}]

\* UPDATE jobs SET budget_result.
SetJobBudgetResult(j) ==
  verdict' = [verdict EXCEPT ![j] = status[j] # "none"]

\* DELETE FROM jobs: results cascade, budget_result goes with the row.
DeleteJobRow(j) ==
  /\ status' = [status EXCEPT ![j] = "none"]
  /\ saved' = [saved EXCEPT ![j] = {}]
  /\ verdict' = [verdict EXCEPT ![j] = FALSE]

-----------------------------------------------------------------------------
(* SubmitJob, called by handleCreateJob and by runDueSchedules             *)

SubmitGoto(j, pc) == submit' = [submit EXCEPT ![j] = pc]

\* A handler that outlives Shutdown's 20 s may begin after Stop.
CreateJob(j) ==
  /\ mgr # "down"
  /\ submit[j] = "new"
  /\ ~SubmitCtxDone(j)
  /\ status' = [status EXCEPT ![j] = "PENDING"]
  /\ SubmitGoto(j, "created")
  /\ UNCHANGED <<mgr, saved, verdict, delivery, mem, delete, pool, cancelled>>

CreateJobFails(j) ==
  /\ mgr # "down"
  /\ submit[j] = "new"
  /\ StoreFails(j, SubmitCtxDone(j))
  /\ SubmitGoto(j, "refused")
  /\ UNCHANGED <<mgr, db, mem, delete, pool, cancelled>>

RegisterPending(j) ==
  /\ submit[j] = "created"
  /\ pendingJobs' = pendingJobs \cup {j}
  /\ SubmitGoto(j, "registered")
  /\ UNCHANGED <<mgr, db, jobQueue, delete, pool, cancelled>>

\* if m.ctx.Err() != nil
CheckManager(j) ==
  /\ submit[j] = "registered"
  /\ SubmitGoto(j, IF ManagerCtxDone THEN "rejecting" ELSE "checked")
  /\ UNCHANGED <<mgr, db, mem, delete, pool, cancelled>>

\* (Mutant: a full queue is reported without calling enqueueFailed.)
Enqueue_NoCleanup(j) ==
  /\ submit[j] = "checked"
  /\ IF Len(jobQueue) < QueueDepth
       THEN jobQueue' = Append(jobQueue, j) /\ SubmitGoto(j, "accepted")
       ELSE UNCHANGED jobQueue /\ SubmitGoto(j, "refused")
  /\ UNCHANGED <<mgr, db, pendingJobs, delete, pool, cancelled>>

\* The non-blocking send. It does not look at m.ctx again: a job sent after
\* the manager stopped is accepted and stays in the channel.
Enqueue(j) ==
  /\ submit[j] = "checked"
  /\ IF Len(jobQueue) < QueueDepth
       THEN jobQueue' = Append(jobQueue, j) /\ SubmitGoto(j, "accepted")
       ELSE UNCHANGED jobQueue /\ SubmitGoto(j, "rejecting")
  /\ UNCHANGED <<mgr, db, pendingJobs, delete, pool, cancelled>>

\* (Mutant: the cleanup forgets pendingJobs.)
EnqueueFailed_KeepsPending(j) ==
  /\ submit[j] = "rejecting"
  /\ SubmitGoto(j, "cleaning")
  /\ UNCHANGED <<mgr, db, mem, delete, pool, cancelled>>

\* enqueueFailed, under mu: the id leaves pendingJobs.
EnqueueFailed(j) ==
  /\ submit[j] = "rejecting"
  /\ pendingJobs' = pendingJobs \ {j}
  /\ SubmitGoto(j, "cleaning")
  /\ UNCHANGED <<mgr, db, jobQueue, delete, pool, cancelled>>

\* Then store.DeleteJob, with the submission's own context. Its first statement
\* finds nothing: the job never ran and has no delivery row.
DeleteRejected(j) ==
  /\ submit[j] = "cleaning"
  /\ SubmitGoto(j, "refused")
  /\ \/ ~SubmitCtxDone(j) /\ DeleteJobRow(j)
     \/ StoreFails(j, SubmitCtxDone(j)) /\ UNCHANGED <<status, saved, verdict>>
  /\ UNCHANGED <<mgr, delivery, mem, delete, pool, cancelled>>

SubmitStep(j) ==
  \/ CreateJob(j) \/ CreateJobFails(j) \/ RegisterPending(j)
  \/ CheckManager(j) \/ Enqueue(j) \/ EnqueueFailed(j) \/ DeleteRejected(j)

-----------------------------------------------------------------------------
(* handleDeleteJob; at most one DELETE of a job is in flight               *)

DeleteGoto(j, pc) == delete' = [delete EXCEPT ![j] = pc]

\* 409 when the row is read and is RUNNING. Every other outcome goes on: an
\* unknown id, a finished job, and a read that failed.
DeleteLookup(j) ==
  /\ mgr # "down"
  /\ delete[j] = "idle"
  /\ submit[j] # "new"
  /\ status[j] # "RUNNING" \/ StoreFails(j, FALSE)
  /\ DeleteGoto(j, "cancel")
  /\ UNCHANGED <<mgr, db, mem, submit, pool, cancelled>>

\* CancelJob holds Manager.mu from the lookup to the end of the store's
\* delete, so nothing that looks at pendingJobs runs in between. A job that is
\* still pending has not run and has no delivery row. Its error is ignored,
\* but when the client has left every later store call fails too and the
\* handler ends.
CancelJob(j) ==
  /\ delete[j] = "cancel"
  /\ \/ /\ j \notin pendingJobs
        /\ DeleteGoto(j, "hooks")
        /\ UNCHANGED <<status, saved, verdict, pendingJobs, cancelled>>
     \/ /\ j \in pendingJobs
        /\ pendingJobs' = pendingJobs \ {j}
        /\ cancelled' = cancelled \cup {j}
        /\ \/ DeleteJobRow(j) /\ DeleteGoto(j, "hooks")
           \/ /\ StoreFails(j, FALSE)
              /\ \E pc \in {"hooks", "idle"} : DeleteGoto(j, pc)
              /\ UNCHANGED <<status, saved, verdict>>
  /\ UNCHANGED <<mgr, delivery, jobQueue, submit, pool>>

\* store.DeleteJob, first statement: the job's webhook deliveries.
DeleteDeliveries(j) ==
  /\ delete[j] = "hooks"
  /\ \/ /\ delivery' = [delivery EXCEPT ![j] = NoPayload]
        /\ DeleteGoto(j, "row")
     \/ /\ StoreFails(j, FALSE)
        /\ UNCHANGED delivery
        /\ DeleteGoto(j, "idle")
  /\ UNCHANGED <<mgr, status, saved, verdict, mem, submit, pool, cancelled>>

\* store.DeleteJob, second statement: the row itself, whatever its status.
DeleteRow(j) ==
  /\ delete[j] = "row"
  /\ \/ DeleteJobRow(j)
     \/ StoreFails(j, FALSE) /\ UNCHANGED <<status, saved, verdict>>
  /\ DeleteGoto(j, "idle")
  /\ UNCHANGED <<mgr, delivery, mem, submit, pool, cancelled>>

DeleteStep(j) ==
  \/ DeleteLookup(j) \/ CancelJob(j) \/ DeleteDeliveries(j) \/ DeleteRow(j)

-----------------------------------------------------------------------------
(* worker, processJob and sendWebhook                                      *)

Goto(w, pc) == wpc' = [wpc EXCEPT ![w] = pc]

\* The worker leaves the job: the next iteration of its loop.
Release(w) ==
  /\ Goto(w, "idle")
  /\ wjob' = [wjob EXCEPT ![w] = NoJob]
  /\ tally' = [tally EXCEPT ![w] = NoTally]
  /\ payload' = [payload EXCEPT ![w] = NoPayload]

\* (Mutant: the worker looks at the head of the queue and leaves it there.)
Pop_Peek(w) ==
  /\ wpc[w] = "idle"
  /\ jobQueue # <<>>
  /\ wjob' = [wjob EXCEPT ![w] = Head(jobQueue)]
  /\ Goto(w, "popped")
  /\ UNCHANGED <<mgr, db, mem, handlers, tally, payload, cancelled>>

\* select picks the queue; it may do so while m.ctx.Done() is ready too.
Pop(w) ==
  /\ wpc[w] = "idle"
  /\ jobQueue # <<>>
  /\ jobQueue' = Tail(jobQueue)
  /\ wjob' = [wjob EXCEPT ![w] = Head(jobQueue)]
  /\ Goto(w, "popped")
  /\ UNCHANGED <<mgr, db, pendingJobs, handlers, tally, payload, cancelled>>

\* (Mutant: no check, a cancelled job is processed.)
Claim_Unchecked(w) ==
  /\ wpc[w] = "popped"
  /\ pendingJobs' = pendingJobs \ {wjob[w]}
  /\ Goto(w, "claimed")
  /\ UNCHANGED <<mgr, db, jobQueue, handlers, wjob, tally, payload, cancelled>>

\* The check under mu: a job no longer in pendingJobs was cancelled.
Claim(w) ==
  /\ wpc[w] = "popped"
  /\ pendingJobs' = pendingJobs \ {wjob[w]}
  /\ IF wjob[w] \in pendingJobs
       THEN Goto(w, "claimed") /\ UNCHANGED <<wjob, tally, payload>>
       ELSE Release(w)
  /\ UNCHANGED <<mgr, db, jobQueue, handlers, cancelled>>

\* A failed write ends processJob: the row keeps saying PENDING.
MarkRunning(w) ==
  /\ wpc[w] = "claimed"
  /\ \/ /\ ~ManagerCtxDone
        /\ UpdateJobStatus(wjob[w], "RUNNING")
        /\ Goto(w, "collecting")
        /\ UNCHANGED <<wjob, tally, payload>>
     \/ /\ StoreFails(wjob[w], ManagerCtxDone)
        /\ UNCHANGED status
        /\ Release(w)
  /\ UNCHANGED <<mgr, saved, verdict, delivery, mem, handlers, cancelled>>

\* The counters after one more run with this outcome: "clean" when no tier
\* failed, "failed" when all of them did, "mixed" otherwise.
Count(t, outcome) ==
  [done   |-> t.done + 1,
   clean  |-> IF outcome = "clean" THEN t.clean + 1 ELSE t.clean,
   failed |-> IF outcome = "failed" THEN t.failed + 1 ELSE t.failed]

\* (Mutant: i < job.Runs, the last run is missing.)
LastRun_OffByOne(j, i) == i + 1 >= Runs[j]

\* The loop's condition, i <= job.Runs.
LastRun(j, i) == i = Runs[j]

\* One iteration of processJob's loop. The collectors touch nothing shared; a
\* result that cannot be saved is logged and the loop goes on.
RunOnce(w) ==
  LET j == wjob[w]
      i == tally[w].done + 1
  IN /\ wpc[w] = "collecting"
     /\ \E outcome \in {"clean", "mixed", "failed"} :
          tally' = [tally EXCEPT ![w] = Count(@, outcome)]
     /\ \/ ~ManagerCtxDone /\ SaveResult(j, i)
        \/ /\ StoreFails(j, ManagerCtxDone) \/ status[j] = "none"
           /\ UNCHANGED saved
     /\ Goto(w, IF LastRun(j, i) THEN "deriving" ELSE "collecting")
     /\ UNCHANGED <<mgr, status, verdict, delivery, mem, handlers, wjob, payload, cancelled>>

\* A collector panics; the deferred function of the worker takes over.
Panic(w) ==
  /\ wpc[w] = "collecting"
  /\ Goto(w, "panicked")
  /\ UNCHANGED <<mgr, db, mem, handlers, wjob, tally, payload, cancelled>>

FailPanicked(w) ==
  /\ wpc[w] = "panicked"
  /\ \/ ~ManagerCtxDone /\ UpdateJobStatus(wjob[w], "FAILED")
     \/ StoreFails(wjob[w], ManagerCtxDone) /\ UNCHANGED status
  /\ Release(w)
  /\ UNCHANGED <<mgr, saved, verdict, delivery, mem, handlers, cancelled>>

\* The final status from the number of clean and of totally failed runs.
deriveStatus(totalRuns, t) ==
  IF totalRuns > 0 /\ t.failed = totalRuns THEN "FAILED"
  ELSE IF t.clean < totalRuns THEN "PARTIAL"
  ELSE "COMPLETED"

\* What processJob does for job j once its budget is judged, and (below) once
\* its final status is written.
AfterJudging(w, j) ==
  IF j \in Hooked THEN Goto(w, "reading") /\ UNCHANGED <<wjob, tally, payload>>
                  ELSE Release(w)

\* (Mutant: the webhook is sent before the budget is judged.)
AfterFinishing_HookFirst(w, j) == AfterJudging(w, j)

AfterFinishing(w, j) ==
  IF j \in Budgeted THEN Goto(w, "judging") /\ UNCHANGED <<wjob, tally, payload>>
                    ELSE AfterJudging(w, j)

\* The final status. When the write fails the row stays RUNNING and the rest
\* of processJob runs all the same.
WriteFinalStatus(w) ==
  LET j == wjob[w]
  IN /\ wpc[w] = "deriving"
     /\ \/ ~ManagerCtxDone /\ UpdateJobStatus(j, deriveStatus(Runs[j], tally[w]))
        \/ StoreFails(j, ManagerCtxDone) /\ UNCHANGED status
     /\ AfterFinishing(w, j)
     /\ UNCHANGED <<mgr, saved, verdict, delivery, mem, handlers, cancelled>>

JudgeBudget(w) ==
  LET j == wjob[w]
  IN /\ wpc[w] = "judging"
     /\ \/ ~ManagerCtxDone /\ SetJobBudgetResult(j)
        \/ StoreFails(j, ManagerCtxDone) /\ UNCHANGED verdict
     /\ AfterJudging(w, j)
     /\ UNCHANGED <<mgr, status, saved, delivery, mem, handlers, cancelled>>

\* sendWebhook re-reads the job. Without it, or after an error, it returns.
ReadJob(w) ==
  LET j == wjob[w]
  IN /\ wpc[w] = "reading"
     /\ \/ /\ ~ManagerCtxDone
           /\ status[j] # "none"
           /\ payload' = [payload EXCEPT ![w] =
                [status |-> status[j], judged |-> verdict[j], results |-> {}]]
           /\ Goto(w, "gathering")
           /\ UNCHANGED <<wjob, tally>>
        \/ /\ StoreFails(j, ManagerCtxDone) \/ status[j] = "none"
           /\ Release(w)
     /\ UNCHANGED <<mgr, db, mem, handlers, cancelled>>

\* Then its results, ORDER BY run_index. A DELETE may have come in between: there
\* are none, and that is no error. An error is discarded, and one that ends the
\* iteration is not even noticed (rows.Err): the payload has the first of them.
ReadResults(w) ==
  LET j == wjob[w]
  IN /\ wpc[w] = "gathering"
     /\ \E k \in 0..Runs[j] :
          /\ (k = Runs[j] /\ ~ManagerCtxDone) \/ StoreFails(j, ManagerCtxDone)
          /\ payload' = [payload EXCEPT ![w] = [@ EXCEPT !.results = saved[j] \cap 1..k]]
     /\ Goto(w, "enqueueing")
     /\ UNCHANGED <<mgr, db, mem, handlers, wjob, tally, cancelled>>

\* INSERT INTO webhook_deliveries, which has no foreign key to jobs.
EnqueueWebhook(w) ==
  LET j == wjob[w]
  IN /\ wpc[w] = "enqueueing"
     /\ \/ ~ManagerCtxDone /\ delivery' = [delivery EXCEPT ![j] = payload[w]]
        \/ StoreFails(j, ManagerCtxDone) /\ UNCHANGED delivery
     /\ Release(w)
     /\ UNCHANGED <<mgr, status, saved, verdict, mem, handlers, cancelled>>

\* select picks m.ctx.Done().
WorkerExit(w) ==
  /\ ManagerCtxDone
  /\ wpc[w] = "idle"
  /\ Goto(w, "exited")
  /\ UNCHANGED <<mgr, db, mem, handlers, wjob, tally, payload, cancelled>>

WorkerStep(w) ==
  \/ Pop(w) \/ Claim(w) \/ MarkRunning(w) \/ RunOnce(w) \/ Panic(w)
  \/ FailPanicked(w) \/ WriteFinalStatus(w) \/ JudgeBudget(w)
  \/ ReadJob(w) \/ ReadResults(w) \/ EnqueueWebhook(w) \/ WorkerExit(w)

-----------------------------------------------------------------------------
(* The process                                                             *)

Answered == {"accepted", "refused"}

\* Everything in memory goes: the queue, pendingJobs, every goroutine. A
\* submission that was under way gets no answer.
ProcessEnds ==
  /\ mgr' = "down"
  /\ pendingJobs' = {}
  /\ jobQueue' = <<>>
  /\ submit' = [j \in Jobs |->
                  IF submit[j] \in Answered \cup {"new"} THEN submit[j] ELSE "lost"]
  /\ delete' = [j \in Jobs |-> "idle"]
  /\ wpc' = [w \in Workers |-> "exited"]
  /\ wjob' = [w \in Workers |-> NoJob]
  /\ tally' = [w \in Workers |-> NoTally]
  /\ payload' = [w \in Workers |-> NoPayload]
  /\ UNCHANGED <<db, cancelled>>

\* Stop cancels m.ctx; HTTP handlers that outlived Shutdown's 20 s still run.
Stop ==
  /\ mgr = "up"
  /\ mgr' = "stopping"
  /\ UNCHANGED <<db, mem, handlers, pool, cancelled>>

\* (Mutant: the exit waits for the channel to be empty.)
ProcessExits_Drained ==
  /\ mgr = "stopping"
  /\ jobQueue = <<>>
  /\ \A w \in Workers : wpc[w] = "exited"
  /\ ProcessEnds

\* wg.Wait: the workers have returned, and so has the scheduler's loop, which
\* submits its jobs itself. Then the process exits.
ProcessExits ==
  /\ mgr = "stopping"
  /\ \A w \in Workers : wpc[w] = "exited"
  /\ \A j \in Scheduled : submit[j] \in Answered \cup {"new", "lost"}
  /\ ProcessEnds

Crash ==
  /\ mgr # "down"
  /\ ProcessEnds

\* (Mutants: recovery forgets the queued jobs; recovery has no WHERE clause.)
Interrupted_RunningOnly == {j \in Jobs : status[j] = "RUNNING"}
Interrupted_Everything  == {j \in Jobs : status[j] # "none"}

\* WHERE status IN ('RUNNING', 'PENDING')
Interrupted == {j \in Jobs : status[j] \in Open}

\* serve: one UPDATE fails every row left open, before the workers start. An
\* error of that UPDATE is logged and the daemon starts all the same.
Restart ==
  /\ mgr = "down"
  /\ \/ status' = [j \in Jobs |-> IF j \in Interrupted THEN "FAILED" ELSE status[j]]
     \/ /\ Interrupted # {} /\ Interrupted \subseteq Flaky
        /\ UNCHANGED status
  /\ mgr' = "up"
  /\ wpc' = [w \in Workers |-> "idle"]
  /\ UNCHANGED <<saved, verdict, delivery, mem, handlers, wjob, tally, payload, cancelled>>

-----------------------------------------------------------------------------
Init ==
  /\ mgr = "up"
  /\ status = [j \in Jobs |-> "none"]
  /\ saved = [j \in Jobs |-> {}]
  /\ verdict = [j \in Jobs |-> FALSE]
  /\ delivery = [j \in Jobs |-> NoPayload]
  /\ pendingJobs = {}
  /\ jobQueue = <<>>
  /\ submit = [j \in Jobs |-> "new"]
  /\ delete = [j \in Jobs |-> "idle"]
  /\ wpc = [w \in Workers |-> "idle"]
  /\ wjob = [w \in Workers |-> NoJob]
  /\ tally = [w \in Workers |-> NoTally]
  /\ payload = [w \in Workers |-> NoPayload]
  /\ cancelled = {}

Next ==
  \/ \E j \in Jobs : SubmitStep(j) \/ DeleteStep(j)
  \/ \E w \in Workers : WorkerStep(w)
  \/ Stop \/ ProcessExits \/ Crash \/ Restart

Spec == Init /\ [][Next]_vars

(***************************************************************************)
(* Fairness: the scheduler of the Go runtime runs every goroutine that can *)
(* take a step (a submission and a DELETE of one job are two of them), each*)
(* run is bounded by its timeout, and somebody starts the daemon again     *)
(* after it stopped. Nobody has to send a request, stop the daemon or      *)
(* crash it.                                                               *)
(***************************************************************************)
SubmissionGoesOn(j) ==
  \/ RegisterPending(j) \/ CheckManager(j) \/ Enqueue(j)
  \/ EnqueueFailed(j) \/ DeleteRejected(j)

DeleteGoesOn(j) == CancelJob(j) \/ DeleteDeliveries(j) \/ DeleteRow(j)

Fairness ==
  /\ \A j \in Jobs : WF_vars(SubmissionGoesOn(j)) /\ WF_vars(DeleteGoesOn(j))
  /\ \A w \in Workers : WF_vars(WorkerStep(w))
  /\ WF_vars(ProcessExits)
  /\ WF_vars(Restart)

FairSpec == Spec /\ Fairness

-----------------------------------------------------------------------------
(* Type invariant                                                          *)

WorkerPcs == {"idle", "popped", "claimed", "collecting", "panicked", "deriving",
              "judging", "reading", "gathering", "enqueueing", "exited"}

Payloads == [status : Final \cup Open, judged : BOOLEAN, results : SUBSET Nat]

Tallies == [done : Nat, clean : Nat, failed : Nat]

\* The values every variable may take.
TypeOK ==
  /\ mgr \in {"up", "stopping", "down"}
  /\ status \in [Jobs -> Final \cup Open \cup {"none"}]
  /\ saved \in [Jobs -> SUBSET Nat]
  /\ verdict \in [Jobs -> BOOLEAN]
  /\ delivery \in [Jobs -> Payloads \cup {NoPayload}]
  /\ pendingJobs \subseteq Jobs
  /\ jobQueue \in Seq(Jobs)
  /\ submit \in [Jobs -> {"new", "created", "registered", "checked", "rejecting",
                         "cleaning", "accepted", "refused", "lost"}]
  /\ delete \in [Jobs -> {"idle", "cancel", "hooks", "row"}]
  /\ wpc \in [Workers -> WorkerPcs]
  /\ wjob \in [Workers -> Jobs \cup {NoJob}]
  /\ tally \in [Workers -> Tallies]
  /\ payload \in [Workers -> Payloads \cup {NoPayload}]
  /\ cancelled \subseteq Jobs

-----------------------------------------------------------------------------
(* Safety                                                                  *)

\* The jobs whose store calls fail only when their context is cancelled.
Reliable == Jobs \ Flaky

Queued(j) == \E i \in 1..Len(jobQueue) : jobQueue[i] = j
Popped(j) == \E w \in Workers : wpc[w] = "popped" /\ wjob[w] = j

\* Past the write of RUNNING, before the write of the final status.
Executing == {"collecting", "panicked", "deriving"}

\* A job is in one place: at most once in the channel, or in the hands of one
\* worker, never both. (worker and SubmitJob: a job is received once, so its
\* runs are never executed by two workers at a time.)
OneHolder ==
  /\ Len(jobQueue) <= QueueDepth
  /\ \A i, k \in 1..Len(jobQueue) : i # k => jobQueue[i] # jobQueue[k]
  /\ \A w \in Workers : wjob[w] # NoJob => ~Queued(wjob[w])
  /\ \A v, w \in Workers : v # w /\ wjob[v] # NoJob => wjob[v] # wjob[w]

\* pendingJobs does not leak: an id in it belongs to a submission that has
\* not been answered, to a job in the channel, or to a job a worker has just
\* received and is about to take out. (SubmitJob, enqueueFailed, worker)
PendingIsTracked ==
  \A j \in pendingJobs :
    submit[j] \in {"registered", "checked", "rejecting"} \/ Queued(j) \/ Popped(j)

\* Once CancelJob has taken a job out of pendingJobs no worker processes it
\* and nothing is stored for it, even if the worker had already received it
\* from the channel. (CancelJob against worker's check)
CancelledNeverRuns ==
  \A j \in cancelled :
    /\ saved[j] = {}
    /\ \A w \in Workers : wjob[w] = j => wpc[w] = "popped"

\* Somebody will finish an open row of j: a PENDING one the submission, or the
\* channel or the worker that will run it; a RUNNING one the worker that runs it.
HasOwner(j) ==
  /\ status[j] = "PENDING" =>
       \/ submit[j] \in {"created", "registered", "checked", "rejecting", "cleaning"}
       \/ j \in pendingJobs /\ (Queued(j) \/ Popped(j))
       \/ \E w \in Workers : wjob[w] = j /\ wpc[w] = "claimed"
  /\ status[j] = "RUNNING" =>
       \E w \in Workers : wjob[w] = j /\ wpc[w] \in Executing

\* While the daemon is up every row that is still open belongs to somebody who
\* will finish it. Without a failing store call no row is stuck. (SubmitJob,
\* worker, processJob and the recovery at start together.)
OpenRowHasOwner == mgr = "up" => \A j \in Reliable : HasOwner(j)

\* A job that says COMPLETED or PARTIAL has a result of every run it was
\* asked for, whenever it is read and whatever stopped, crashed or was
\* deleted meanwhile. (processJob saves the last result before the status)
FinishedHasAllRuns ==
  \A j \in Reliable :
    status[j] \in {"COMPLETED", "PARTIAL"} => saved[j] = 1..Runs[j]

\* The head of the payload p about j is the status the row keeps until it is
\* deleted, and the verdict if the job has a budget.
TellsStatus(j, p) ==
  /\ p.status \in Final
  /\ status[j] \in {p.status, "none"}
  /\ p.judged = (j \in Budgeted)

\* So has a payload that has the results too: of every run, or of none if the
\* job was deleted after its row was read.
TellsFinal(j, p) ==
  /\ TellsStatus(j, p)
  /\ p.results = 1..Runs[j] \/ (p.results = {} /\ status[j] = "none")

\* What a webhook receiver is told is final: the status and the verdict are those
\* the row keeps, and the results are complete, unless the job has been deleted.
\* Never are they some of the results, and never none of a job that is there.
\* (processJob persists the verdict before sendWebhook re-reads the job: "the
\* payload picks up the evaluation")
PayloadIsFinal ==
  \A j \in Reliable : delivery[j] # NoPayload => TellsFinal(j, delivery[j])

\* A refused submission leaves nothing behind: no entry in pendingJobs, no
\* place in the channel, and (when the context it cleans up with is alive) no
\* row. Where the cleanup fails, the row is one that never ran and never will:
\* PENDING, or failed by the recovery at a later start. (enqueueFailed)
RefusedLeavesNothing ==
  \A j \in Jobs :
    submit[j] = "refused" =>
      /\ j \notin pendingJobs
      /\ ~Queued(j)
      /\ \A w \in Workers : wjob[w] # j
      /\ status[j] \in {"none", "PENDING", "FAILED"} /\ saved[j] = {}
      /\ j \notin Flaky \cup Scheduled => status[j] = "none"

JobRowsView == INSTANCE JobRows WITH
  Jobs    <- Reliable,
  status  <- [j \in Reliable |-> status[j]],
  saved   <- [j \in Reliable |-> saved[j]],
  verdict <- [j \in Reliable |-> verdict[j]]

\* The rows live as JobRows promises: a final status never changes, results
\* are stored only while the job runs and each run once, the verdict comes
\* once and after the final status, and recovery takes every open row at once
\* and no other - with crashes and deletions at any point.
RowsFollowTheirLife == JobRowsView!Spec

\* The inductive invariant, in named parts. The first are behind OneHolder,
\* PendingIsTracked and CancelledNeverRuns. See JobLifecycleProofs.
HolderShape ==
  \A w \in Workers : wjob[w] = NoJob <=> wpc[w] \in {"idle", "exited"}
PayloadShape == \A w \in Workers : wpc[w] = "gathering" => payload[w] \in Payloads
DownShape ==
  mgr = "down" => /\ jobQueue = <<>>
                  /\ \A w \in Workers : wpc[w] = "exited"
                  /\ \A j \in Jobs : /\ submit[j] \in Answered \cup {"new", "lost"}
                                     /\ delete[j] = "idle"
QueuedAccepted == \A i \in 1..Len(jobQueue) : submit[jobQueue[i]] = "accepted"
HeldAccepted == \A w \in Workers : wjob[w] # NoJob => submit[wjob[w]] = "accepted"
PendingShape ==
  \A j \in pendingJobs :
    submit[j] \in {"registered", "checked", "rejecting", "accepted"}
CancelledShape ==
  \A j \in cancelled : j \notin pendingJobs /\ submit[j] \notin {"new", "created"}
ClaimedShape ==
  \A w \in Workers :
    wpc[w] \notin {"idle", "popped", "exited"} => wjob[w] \notin pendingJobs \cup cancelled
SavedShape ==
  \A j \in Jobs :
    saved[j] # {} => /\ submit[j] = "accepted"
                     /\ j \notin pendingJobs \cup cancelled
                     /\ ~Queued(j) /\ ~Popped(j)

\* The parts behind OpenRowHasOwner, FinishedHasAllRuns, PayloadIsFinal,
\* RefusedLeavesNothing and RowsFollowTheirLife. See JobLifecycleProofs.
RowShape(j) ==
  /\ submit[j] = "new" => status[j] = "none" /\ delivery[j] = NoPayload
  /\ status[j] = "none" => saved[j] = {} /\ ~verdict[j]
  /\ submit[j] \in {"created", "registered", "checked", "rejecting", "cleaning"}
       => status[j] \in {"PENDING", "none"}
  /\ submit[j] = "refused" => status[j] \in {"none", "PENDING", "FAILED"}
  /\ submit[j] = "refused" /\ j \notin Flaky \cup Scheduled => status[j] = "none"
UnrunShape(j) ==
  /\ j \in pendingJobs => status[j] \in {"PENDING", "none"}
  /\ submit[j] \in {"registered", "checked"} /\ status[j] # "none" => j \in pendingJobs
  /\ status[j] = "PENDING" => saved[j] = {}
  /\ verdict[j] => status[j] \in Final
TallyShape ==
  \A w \in Workers :
    /\ wpc[w] \in {"idle", "popped", "claimed", "exited"} => tally[w].done = 0
    /\ wpc[w] = "collecting" => tally[w].done < Runs[wjob[w]]
    /\ wpc[w] = "deriving" => tally[w].done = Runs[wjob[w]]

\* The row of j, in the hands of worker w, agrees with where the worker is. A
\* manager that is stopping writes no more, so a row may stay behind.
InHands(w, j) ==
  /\ wpc[w] = "claimed" => status[j] \in {"PENDING", "none"}
  /\ wpc[w] \in Executing =>
       /\ status[j] \in {"RUNNING", "none"}
       /\ status[j] = "RUNNING" => saved[j] \subseteq 1..tally[w].done
       /\ status[j] = "RUNNING" /\ mgr = "up" => saved[j] = 1..tally[w].done
  /\ wpc[w] = "judging" => j \in Budgeted /\ ~verdict[j]
  /\ wpc[w] \in {"judging", "reading"} /\ mgr = "up" /\ status[j] # "none" =>
       status[j] \in Final /\ saved[j] = 1..Runs[j]
  /\ wpc[w] = "reading" /\ mgr = "up" /\ status[j] # "none" =>
       verdict[j] = (j \in Budgeted)
  /\ wpc[w] = "gathering" => /\ TellsStatus(j, payload[w])
                             /\ status[j] # "none" => saved[j] = 1..Runs[j]
  /\ wpc[w] = "enqueueing" /\ mgr = "up" => TellsFinal(j, payload[w])

RowInv ==
  /\ TallyShape
  /\ \A j \in Jobs : RowShape(j)
  /\ \A j \in Reliable :
       UnrunShape(j) /\ \A w \in Workers : wjob[w] = j => InHands(w, j)
  /\ OpenRowHasOwner /\ FinishedHasAllRuns /\ PayloadIsFinal

\* Everything the proofs need to know of a reachable state.
IndInv ==
  /\ TypeOK
  /\ OneHolder /\ PendingIsTracked
  /\ HolderShape /\ PayloadShape /\ DownShape /\ QueuedAccepted /\ HeldAccepted
  /\ PendingShape /\ CancelledShape /\ ClaimedShape /\ SavedShape
  /\ RowInv

-----------------------------------------------------------------------------
(* Liveness                                                                *)

\* A job whose submission was accepted settles: it gets a final status or its
\* row is deleted, through any number of stops, crashes and restarts.
AcceptedJobsSettle ==
  \A j \in Jobs : submit[j] = "accepted" ~> status[j] \in Final \cup {"none"}

\* Stop returns: once m.ctx is cancelled the workers all come back to their
\* select, whatever they were doing, and wg.Wait is over.
StopReturns == mgr = "stopping" ~> mgr = "down"

-----------------------------------------------------------------------------
(* What comments and documents say, which the code does not do             *)

\* server.go:409: "Refuse to delete a job that is actively running".
RunningRowIsNotDeleted ==
  [][\A j \in Jobs : status[j] = "RUNNING" => status'[j] # "none"]_vars

\* README.md:64: the daemon shuts down gracefully, "draining in-flight jobs".
StopDrainsRunningJobs ==
  [][ProcessExits => \A j \in Jobs : status[j] # "RUNNING"]_vars
=============================================================================
