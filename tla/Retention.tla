------------------------------ MODULE Retention ------------------------------
(***************************************************************************)
(* The retention loop: PurgeOldJobs, which is two statements, and          *)
(* PurgeOldRUMEvents, beside jobs that are opened, finished and deleted,   *)
(* events that come in, a daemon that ends and starts, and the command     *)
(* line tool (CliRun), which writes to the same database.                  *)
(*                                                                         *)
(* Time is counted in days. JobLifecycle has the steps of a DELETE and of  *)
(* a job; here a DELETE is one step, and a job finishes and then sends.    *)
(***************************************************************************)
EXTENDS CliRun

CONSTANTS
  Jobs,     \* the daemon's jobs
  Events,   \* RUM events
  Keep,     \* LOADSTAR_RETENTION_DAYS; 0 would not start the loop
  MaxPass,  \* bound: a pass takes at most MaxPass days
  MaxSend   \* bound: the webhook of a job follows its final status in MaxSend
            \* days, before the job is old (in the code, in milliseconds)

ASSUME RetentionAssumption == Keep \in Nat \ {0} /\ MaxPass \in Nat
ASSUME SendAssumption      == MaxSend \in 0..Keep

VARIABLES
  row,       \* "none", "open", "left" (open, of a process that ended), "done",
             \* "deleted" (by a client) or "purged"
  age,       \* days since completed_at, NoTime while that is NULL or there is no row
  sending,   \* the jobs a worker has finished and not yet sent the webhook of
  delivery,  \* whether the job has a row in webhook_deliveries
  event,     \* "none", "there" or "purged"
  eage,      \* days since the event's created_at, NoTime when there is no event
  rpc,       \* where the loop is; "down" when there is no daemon
  lapse      \* days since the cutoff of this pass was computed

dvars == <<row, age, sending, delivery, event, eage, rpc, lapse>>
vars  == <<cvars, dvars>>

NoTime  == -1
Forever == Keep + MaxPass + 1   \* older than any cutoff: not counted further

-----------------------------------------------------------------------------
(* The writers                                                             *)

\* SubmitJob.
Open(j) ==
  /\ rpc # "down"
  /\ row[j] = "none"
  /\ row' = [row EXCEPT ![j] = "open"]
  /\ UNCHANGED <<age, sending, delivery, event, eage, rpc, lapse>>

\* UpdateJobStatus with a final status; a job with a webhook_url goes on.
Finish(j) ==
  /\ rpc # "down"
  /\ row[j] = "open"
  /\ row' = [row EXCEPT ![j] = "done"]
  /\ age' = [age EXCEPT ![j] = 0]
  /\ sending' \in {sending, sending \cup {j}}
  /\ UNCHANGED <<delivery, event, eage, rpc, lapse>>

\* sendWebhook: EnqueueWebhook, unless a store call fails. The table has no
\* foreign key: a job that was deleted meanwhile gets its delivery too.
Send(j) ==
  /\ j \in sending
  /\ sending' = sending \ {j}
  /\ delivery' \in {delivery, [delivery EXCEPT ![j] = TRUE]}
  /\ UNCHANGED <<row, age, event, eage, rpc, lapse>>

\* DELETE of a job that is not RUNNING: its deliveries and its row.
Delete(j) ==
  /\ rpc # "down"
  /\ row[j] \in {"open", "left", "done"}
  /\ row' = [row EXCEPT ![j] = "deleted"]
  /\ age' = [age EXCEPT ![j] = NoTime]
  /\ delivery' = [delivery EXCEPT ![j] = FALSE]
  /\ UNCHANGED <<sending, event, eage, rpc, lapse>>

\* SaveRUMEvent.
SaveEvent(e) ==
  /\ rpc # "down"
  /\ event[e] = "none"
  /\ event' = [event EXCEPT ![e] = "there"]
  /\ eage' = [eage EXCEPT ![e] = 0]
  /\ UNCHANGED <<row, age, sending, delivery, rpc, lapse>>

-----------------------------------------------------------------------------
(* runRetention                                                            *)

\* (Mutants: each statement looks at the clock again; <= in place of <.)
Before_Now(days)     == days > Keep
Before_OrEqual(days) == days - lapse >= Keep

\* Whether a time that was `days` ago lies before the cutoff of this pass.
Before(days) == days - lapse > Keep

\* completed_at IS NOT NULL AND completed_at < cutoff
OldJobs == {j \in Jobs : row[j] = "done" /\ age[j] # NoTime /\ Before(age[j])}

\* created_at < cutoff
OldEvents == {e \in Events : event[e] = "there" /\ Before(eage[e])}

\* The ticker, and the cutoff.
Tick ==
  /\ rpc = "idle"
  /\ rpc' = "deliveries" /\ lapse' = 0
  /\ UNCHANGED <<row, age, sending, delivery, event, eage>>

PurgeDeliveries ==
  /\ rpc = "deliveries"
  /\ delivery' = [j \in Jobs |-> delivery[j] /\ j \notin OldJobs]
  /\ rpc' = "jobs"
  /\ UNCHANGED <<row, age, sending, event, eage, lapse>>

\* The tool's rows have no completed_at.
PurgeJobs ==
  /\ rpc = "jobs"
  /\ row' = [j \in Jobs |-> IF j \in OldJobs THEN "purged" ELSE row[j]]
  /\ age' = [j \in Jobs |-> IF j \in OldJobs THEN NoTime ELSE age[j]]
  /\ rpc' = "events"
  /\ UNCHANGED <<sending, delivery, event, eage, lapse>>

PurgeEvents ==
  /\ rpc = "events"
  /\ event' = [e \in Events |-> IF e \in OldEvents THEN "purged" ELSE event[e]]
  /\ eage' = [e \in Events |-> IF e \in OldEvents THEN NoTime ELSE eage[e]]
  /\ rpc' = "idle" /\ lapse' = 0
  /\ UNCHANGED <<row, age, sending, delivery>>

\* A statement fails; the rest of the pass is left out.
PurgeFails ==
  /\ rpc \in {"deliveries", "jobs", "events"}
  /\ rpc' = "idle" /\ lapse' = 0
  /\ UNCHANGED <<row, age, sending, delivery, event, eage>>

Purge == PurgeDeliveries \/ PurgeJobs \/ PurgeEvents

-----------------------------------------------------------------------------
(* Days and the daemon                                                     *)

Older(days) == IF days \in 0..Forever - 1 THEN days + 1 ELSE days

Day ==
  /\ rpc \notin {"down", "idle"} => lapse < MaxPass
  /\ \A j \in sending : age[j] < MaxSend
  /\ age' = [j \in Jobs |-> Older(age[j])]
  /\ eage' = [e \in Events |-> Older(eage[e])]
  /\ lapse' = IF rpc \in {"down", "idle"} THEN 0 ELSE lapse + 1
  /\ UNCHANGED <<row, sending, delivery, event, rpc>>

\* A stop, or a crash.
DaemonEnds ==
  /\ rpc # "down"
  /\ rpc' = "down" /\ lapse' = 0
  /\ row' = [j \in Jobs |-> IF row[j] = "open" THEN "left" ELSE row[j]]
  /\ sending' = {}
  /\ UNCHANGED <<age, delivery, event, eage>>

Interrupted == {j \in Jobs : row[j] = "left"}

\* (Mutant: completed_at is not set.)
Recover_NoTime ==
  /\ row' = [j \in Jobs |-> IF j \in Interrupted THEN "done" ELSE row[j]]
  /\ UNCHANGED age
  /\ crow' = [r \in 1..Runs |-> IF crow[r] = "RUNNING" THEN "FAILED" ELSE crow[r]]

\* RecoverInterruptedJobs. It looks at the tool's rows too.
Recover ==
  /\ row' = [j \in Jobs |-> IF j \in Interrupted THEN "done" ELSE row[j]]
  /\ age' = [j \in Jobs |-> IF j \in Interrupted THEN 0 ELSE age[j]]
  /\ crow' = [r \in 1..Runs |-> IF crow[r] = "RUNNING" THEN "FAILED" ELSE crow[r]]

\* The daemon starts, if it can recover or not, and purges at once.
DaemonStarts ==
  /\ rpc = "down"
  /\ Recover \/ UNCHANGED <<row, age, crow>>
  /\ rpc' = "deliveries" /\ lapse' = 0
  /\ UNCHANGED <<sending, delivery, event, eage>>
  /\ UNCHANGED <<cpc, run, attempted, failed, eval, told, exit, cverdict, worked>>

-----------------------------------------------------------------------------
Init ==
  /\ CliInit
  /\ row = [j \in Jobs |-> "none"]
  /\ age = [j \in Jobs |-> NoTime]
  /\ sending = {}
  /\ delivery = [j \in Jobs |-> FALSE]
  /\ event = [e \in Events |-> "none"]
  /\ eage = [e \in Events |-> NoTime]
  /\ rpc = "idle" /\ lapse = 0

DaemonNext ==
  \/ \E j \in Jobs : Open(j) \/ Finish(j) \/ Send(j) \/ Delete(j)
  \/ \E e \in Events : SaveEvent(e)
  \/ Tick \/ Purge \/ PurgeFails \/ Day \/ DaemonEnds

Next == \/ CliNext /\ UNCHANGED dvars
        \/ \E r \in 1..Runs : rpc # "down" /\ DeleteToolRow(r) /\ UNCHANGED dvars
        \/ DaemonNext /\ UNCHANGED cvars
        \/ DaemonStarts

Spec == Init /\ [][Next]_vars

\* Fairness: days pass, workers go on, the ticker ticks, a statement ends, and one
\* that is made again and again succeeds now and then. Nobody has to start the
\* daemon again.
Fairness ==
  /\ WF_vars(Day /\ UNCHANGED cvars)
  /\ \A j \in Jobs : WF_vars(Send(j) /\ UNCHANGED cvars)
  /\ WF_vars((Tick \/ Purge \/ PurgeFails) /\ UNCHANGED cvars)
  /\ SF_vars(PurgeDeliveries /\ UNCHANGED cvars)
  /\ SF_vars(PurgeJobs /\ UNCHANGED cvars)
  /\ SF_vars(PurgeEvents /\ UNCHANGED cvars)

FairSpec == Spec /\ Fairness

-----------------------------------------------------------------------------
\* A purged job leaves no delivery behind, although the two statements run one
\* after the other, jobs grow old in between and a worker may still be sending.
\* (PurgeOldJobs takes one cutoff)
NothingLeftBehind == \A j \in Jobs : row[j] = "purged" => ~delivery[j]

\* Nothing younger than the retention time is taken, neither a job nor an event,
\* nor the delivery of a job that stays because the second statement failed or
\* the daemon ended. (runRetention; README.md: "Running and pending jobs are
\* never purged")
YoungStays ==
  /\ \A j \in Jobs : row[j] # "deleted" /\ age[j] <= Keep =>
       /\ row'[j] # "purged" \/ row[j] = "purged"
       /\ delivery[j] => delivery'[j] \/ row'[j] = "deleted"
  /\ \A e \in Events : event[e] = "there" /\ eage[e] <= Keep => event'[e] = "there"

NothingYoungIsTaken == [][YoungStays]_vars

\* The inductive invariant behind them, in named parts. See RetentionProofs.
AgesOK ==
  /\ row \in [Jobs -> {"none", "open", "left", "done", "deleted", "purged"}]
  /\ age \in [Jobs -> NoTime..Forever] /\ eage \in [Events -> NoTime..Forever]
  /\ sending \subseteq Jobs /\ delivery \in [Jobs -> BOOLEAN]
  /\ event \in [Events -> {"none", "there", "purged"}]
  /\ rpc \in {"down", "idle", "deliveries", "jobs", "events"}
  /\ lapse \in 0..MaxPass
\* What the second statement will take, the first has seen.
DeliveriesGoFirst == rpc = "jobs" => \A j \in OldJobs : ~delivery[j]

\* A job whose webhook is still to come is too young for either statement.
SendersAreYoung == \A j \in sending : row[j] \in {"done", "deleted"} /\ age[j] <= MaxSend

IndInv == CliInv /\ AgesOK /\ SendersAreYoung /\ DeliveriesGoFirst /\ NothingLeftBehind

\* While the daemon stays up every finished job and every event goes at last,
\* also the jobs a restart has failed, and the events although a failing purge of
\* jobs leaves them out. (retentionLoop, RecoverInterruptedJobs)
OldOnesGo ==
  <>[](rpc # "down") => /\ \A j \in Jobs : row[j] = "done" ~> row[j] # "done"
                        /\ \A e \in Events : event[e] = "there" ~> event[e] # "there"
=============================================================================
