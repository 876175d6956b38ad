------------------------------ MODULE Scheduler ------------------------------
(***************************************************************************)
(* The scheduler of the Loadstar daemon: runDueSchedules over the rows of  *)
(* schedules, with schedules created, switched and deleted over HTTP while *)
(* it works, jobs that start, end and are deleted, store calls that fail,  *)
(* and a daemon that is stopped, crashes and starts again.                 *)
(*                                                                         *)
(* Time is counted in ticks and kept relative: wait[s] is next_run_at      *)
(* minus now. Of a schedule's jobs only the number of open rows is kept;   *)
(* JobLifecycle says how one job moves, and where a row can be left over.  *)
(***************************************************************************)
EXTENDS Integers, FiniteSets

CONSTANTS
  Schedules,  \* schedule ids; a deleted one does not come back
  Interval,   \* Interval[s]: interval_seconds, in ticks
  BatchSize,  \* schedulerBatchSize
  Flaky,      \* schedules whose store calls may fail although the daemon is up
  NoSchedule, \* the scheduler is between two passes
  MaxLag,     \* bound: an enabled schedule is overdue by at most MaxLag ticks
  MaxPass     \* bound: a pass takes at most MaxPass ticks

ASSUME SchedulesAssumption == /\ IsFiniteSet(Schedules) /\ Flaky \subseteq Schedules
                              /\ NoSchedule \notin Schedules
ASSUME TimeAssumption      == /\ Interval \in [Schedules -> Nat \ {0}]
                              /\ BatchSize \in Nat \ {0} /\ MaxLag \in Nat
                              /\ MaxPass \in Nat
                              /\ \A s \in Schedules : MaxPass <= Interval[s] + MaxLag

VARIABLES
  mgr,      \* "up", "stopping" (m.ctx is cancelled) or "down"
  row,      \* the schedule's row: "none", "on" (enabled), "off" or "deleted"
  wait,     \* next_run_at of the row, in ticks from now
  pending,  \* the schedule's jobs that say PENDING
  running,  \* the schedule's jobs that say RUNNING
  stuck,    \* schedules with an open job that nobody will run or finish
  pc,       \* where the scheduler is
  due,      \* the schedules it has read and not come to
  cur,      \* the one it is at
  age,      \* ticks since the now of this pass
  since,    \* history: ticks since the now of the pass that last submitted and
            \* advanced it
  late      \* history: submissions of it since it was last enabled

db    == <<row, wait>>
jobs  == <<pending, running, stuck>>
pass  == <<pc, due, cur, age>>
hist  == <<since, late>>
vars  == <<mgr, db, jobs, pass, hist>>

StoreFails(s) == mgr = "stopping" \/ s \in Flaky

-----------------------------------------------------------------------------
(* The schedules API                                                       *)

\* The first run is due at once.
CreateSchedule(s) ==
  /\ mgr # "down"
  /\ row[s] = "none"
  /\ row' = [row EXCEPT ![s] = "on"]
  /\ wait' = [wait EXCEPT ![s] = 0]
  /\ UNCHANGED <<mgr, jobs, pass, hist>>

\* PATCH {"enabled": bool}. next_run_at stays as it is.
SetEnabled(s) ==
  /\ mgr # "down"
  /\ row[s] \in {"on", "off"}
  /\ row' = [row EXCEPT ![s] = IF @ = "on" THEN "off" ELSE "on"]
  /\ late' = [late EXCEPT ![s] = 0]
  /\ UNCHANGED <<mgr, wait, jobs, pass, since>>

\* The schedule's jobs stay.
DeleteSchedule(s) ==
  /\ mgr # "down"
  /\ row[s] \in {"on", "off"}
  /\ row' = [row EXCEPT ![s] = "deleted"]
  /\ UNCHANGED <<mgr, wait, jobs, pass, hist>>

-----------------------------------------------------------------------------
(* runDueSchedules                                                         *)

\* (Mutant: enabled = 1 is forgotten.)
Due_Disabled == {s \in Schedules : row[s] \in {"on", "off"} /\ wait[s] <= 0}

\* WHERE enabled = 1 AND next_run_at <= now
Due == {s \in Schedules : row[s] = "on" /\ wait[s] <= 0}

Earliest(s, set) == \A t \in set : wait[s] <= wait[t]

\* On to one of `rest` that is due longest, or to the end of the pass.
GoOn(rest) ==
  \/ /\ rest = {}
     /\ pc' = "idle" /\ cur' = NoSchedule /\ due' = {} /\ age' = 0
  \/ \E s \in rest :
       /\ Earliest(s, rest)
       /\ pc' = "count" /\ cur' = s /\ due' = rest \ {s}
       /\ UNCHANGED age

\* The ticker, and GetDueSchedules: ORDER BY next_run_at LIMIT BatchSize. A
\* query that fails, or finds nothing, changes nothing.
Tick ==
  /\ mgr = "up"
  /\ pc = "idle"
  /\ Due # {}
  /\ \E batch \in SUBSET Due :
       /\ Cardinality(batch) <= BatchSize
       /\ Cardinality(batch) = BatchSize \/ batch = Due
       /\ \A s \in batch : Earliest(s, Due \ batch)
       /\ GoOn(batch)
  /\ UNCHANGED <<mgr, db, jobs, hist>>

\* (Mutant: only RUNNING jobs are counted.)
Active_RunningOnly(s) == running[s]

\* CountActiveJobsForSchedule.
Active(s) == pending[s] + running[s]

Count ==
  /\ pc = "count"
  /\ mgr = "up"
  /\ pc' = IF Active(cur) > 0 THEN "mark" ELSE "submit"
  /\ UNCHANGED <<mgr, db, jobs, due, cur, age, hist>>

\* continue: this schedule is neither submitted nor advanced.
CountFails ==
  /\ pc = "count"
  /\ StoreFails(cur)
  /\ GoOn(due)
  /\ UNCHANGED <<mgr, db, jobs, hist>>

\* SubmitJob accepts the job. (A submission that passed the check of m.ctx
\* before Stop is accepted too; nobody receives it.)
Submit ==
  /\ pc = "submit"
  /\ pending' = [pending EXCEPT ![cur] = @ + 1]
  /\ stuck' = IF mgr = "up" THEN stuck ELSE stuck \cup {cur}
  /\ late' = [late EXCEPT ![cur] = IF row[cur] = "on" THEN 0 ELSE @ + 1]
  /\ pc' = "submitted"
  /\ UNCHANGED <<mgr, db, running, due, cur, age, since>>

\* SubmitJob returns an error: the queue is full, the daemon is stopping, the
\* store refused. When the store also refuses the cleanup, the row stays.
SubmitFails ==
  /\ pc = "submit"
  /\ \/ UNCHANGED <<pending, stuck>>
     \/ /\ StoreFails(cur)
        /\ pending' = [pending EXCEPT ![cur] = @ + 1]
        /\ stuck' = stuck \cup {cur}
  /\ pc' = "mark"
  /\ UNCHANGED <<mgr, db, running, due, cur, age, hist>>

\* (Mutants: next_run_at counted from its old value; an interval too many.)
NextRun_FromLast(s) == wait[s] + Interval[s]
NextRun_Later(s)    == Interval[s] - age + 1

\* next := now.Add(interval), with the now of the pass.
NextRun(s) == Interval[s] - age

\* MarkScheduleRun, after a submission, an error or a skip. A row that was
\* deleted meanwhile is not an error.
Mark ==
  /\ pc \in {"mark", "submitted"}
  /\ mgr = "up"
  /\ wait' = [wait EXCEPT ![cur] = IF row[cur] = "deleted" THEN @ ELSE NextRun(cur)]
  /\ since' = [since EXCEPT ![cur] = IF pc = "submitted" THEN age ELSE @]
  /\ GoOn(due)
  /\ UNCHANGED <<mgr, row, jobs, late>>

\* The schedule stays due.
MarkFails ==
  /\ pc \in {"mark", "submitted"}
  /\ StoreFails(cur)
  /\ GoOn(due)
  /\ UNCHANGED <<mgr, db, jobs, hist>>

\* select picks m.ctx.Done().
SchedulerExit ==
  /\ mgr = "stopping"
  /\ pc = "idle"
  /\ pc' = "exited"
  /\ UNCHANGED <<mgr, db, jobs, due, cur, age, hist>>

SchedulerStep ==
  \/ Tick \/ Count \/ CountFails \/ Submit \/ SubmitFails \/ Mark \/ MarkFails
  \/ SchedulerExit

-----------------------------------------------------------------------------
(* The jobs, as JobRows has them                                           *)

\* The store refuses a call about a job of s: the row stays open, and nobody
\* works on it any more.
LeftOpen(s) ==
  /\ s \in Flaky
  /\ stuck' = stuck \cup {s}
  /\ UNCHANGED <<pending, running>>

\* A worker claims the schedule's job (UpdateJobStatus RUNNING), and finishes it
\* (UpdateJobStatus with a final status).
JobStarts(s) ==
  /\ mgr = "up"
  /\ pending[s] > 0 /\ s \notin stuck
  /\ \/ /\ pending' = [pending EXCEPT ![s] = @ - 1]
        /\ running' = [running EXCEPT ![s] = @ + 1]
        /\ UNCHANGED stuck
     \/ LeftOpen(s)
  /\ UNCHANGED <<mgr, db, pass, hist>>

JobEnds(s) ==
  /\ mgr = "up"
  /\ running[s] > 0 /\ s \notin stuck
  /\ \/ /\ running' = [running EXCEPT ![s] = @ - 1]
        /\ UNCHANGED <<pending, stuck>>
     \/ LeftOpen(s)
  /\ UNCHANGED <<mgr, db, pass, hist>>

\* A client deletes the schedule's open job (JobLifecycle: also a running one).
\* CancelJob takes a pending one from the workers first.
JobDeleted(s) ==
  /\ mgr # "down"
  /\ Active(s) > 0
  /\ \/ /\ \/ pending[s] > 0 /\ pending' = [pending EXCEPT ![s] = @ - 1] /\ UNCHANGED running
           \/ running[s] > 0 /\ running' = [running EXCEPT ![s] = @ - 1] /\ UNCHANGED pending
        /\ stuck' = IF Active(s) = 1 THEN stuck \ {s} ELSE stuck
     \/ pending[s] > 0 /\ LeftOpen(s)
  /\ UNCHANGED <<mgr, db, pass, hist>>

-----------------------------------------------------------------------------
(* Time and the process                                                    *)

Sooner(s) == IF wait[s] > -MaxLag THEN wait[s] - 1 ELSE wait[s]

\* A tick of the clock. No enabled schedule waits longer than MaxLag, no pass
\* takes longer than MaxPass.
Clock ==
  /\ \A s \in Schedules : row[s] = "on" => wait[s] > -MaxLag
  /\ pc \in {"idle", "exited"} \/ age < MaxPass
  /\ wait' = [s \in Schedules |-> IF row[s] = "none" THEN 0 ELSE Sooner(s)]
  /\ age' = IF pc \in {"idle", "exited"} THEN 0 ELSE age + 1
  /\ since' = [s \in Schedules |->
                 IF since[s] < Interval[s] THEN since[s] + 1 ELSE since[s]]
  /\ UNCHANGED <<mgr, row, jobs, pc, due, cur, late>>

ProcessEnds ==
  /\ mgr' = "down"
  /\ pc' = "exited" /\ due' = {} /\ cur' = NoSchedule /\ age' = 0
  /\ UNCHANGED <<db, jobs, hist>>

Stop ==
  /\ mgr = "up"
  /\ mgr' = "stopping"
  /\ UNCHANGED <<db, jobs, pass, hist>>

ProcessExits ==
  /\ mgr = "stopping"
  /\ pc = "exited"
  /\ ProcessEnds

Crash ==
  /\ mgr # "down"
  /\ ProcessEnds

\* (Mutant: the jobs left open are not failed.)
Restart_NoRecovery ==
  /\ mgr = "down"
  /\ stuck' = {s \in Schedules : Active(s) > 0}
  /\ mgr' = "up"
  /\ pc' = "idle"
  /\ UNCHANGED <<db, pending, running, due, cur, age, hist>>

\* RecoverInterruptedJobs fails every open job; when the store refuses, the
\* daemon starts all the same and nobody finishes them.
Restart ==
  /\ mgr = "down"
  /\ LET open == {s \in Schedules : Active(s) > 0}
     IN \/ /\ pending' = [s \in Schedules |-> 0]
           /\ running' = [s \in Schedules |-> 0]
           /\ stuck' = {}
        \/ /\ open # {} /\ open \subseteq Flaky
           /\ stuck' = open
           /\ UNCHANGED <<pending, running>>
  /\ mgr' = "up"
  /\ pc' = "idle"
  /\ UNCHANGED <<db, due, cur, age, hist>>

-----------------------------------------------------------------------------
Init ==
  /\ mgr = "up"
  /\ row = [s \in Schedules |-> "none"]
  /\ wait = [s \in Schedules |-> 0]
  /\ pending = [s \in Schedules |-> 0]
  /\ running = [s \in Schedules |-> 0]
  /\ stuck = {}
  /\ pc = "idle"
  /\ due = {}
  /\ cur = NoSchedule
  /\ age = 0
  /\ since = Interval
  /\ late = [s \in Schedules |-> 0]

Next ==
  \/ \E s \in Schedules : \/ CreateSchedule(s) \/ SetEnabled(s) \/ DeleteSchedule(s)
                          \/ JobStarts(s) \/ JobEnds(s) \/ JobDeleted(s)
  \/ SchedulerStep
  \/ Clock
  \/ Stop \/ ProcessExits \/ Crash \/ Restart

Spec == Init /\ [][Next]_vars

(***************************************************************************)
(* Fairness: the scheduler and the clock go on, workers finish the jobs    *)
(* they can reach, Stop returns, the daemon is started again. A store call *)
(* that is made again and again succeeds now and then.                     *)
(***************************************************************************)
Fairness ==
  /\ WF_vars(SchedulerStep) /\ SF_vars(Clock)
  /\ \A s \in Schedules :
       /\ WF_vars(JobStarts(s)) /\ WF_vars(JobEnds(s))
       /\ SF_vars(cur = s /\ Count) /\ SF_vars(cur = s /\ Mark)
  /\ WF_vars(ProcessExits)
  /\ WF_vars(Restart)

FairSpec == Spec /\ Fairness

-----------------------------------------------------------------------------
\* The values every variable may take.
TypeOK ==
  /\ mgr \in {"up", "stopping", "down"}
  /\ row \in [Schedules -> {"none", "on", "off", "deleted"}]
  /\ wait \in [Schedules -> Int]
  /\ \A s \in Schedules : -MaxLag <= wait[s] /\ wait[s] <= Interval[s]
  /\ pending \in [Schedules -> Nat]
  /\ running \in [Schedules -> Nat]
  /\ stuck \subseteq Schedules
  /\ pc \in {"idle", "count", "submit", "submitted", "mark", "exited"}
  /\ due \subseteq Schedules
  /\ cur \in Schedules \cup {NoSchedule}
  /\ age \in 0..MaxPass
  /\ since \in [Schedules -> Nat]
  /\ late \in [Schedules -> Nat]

\* No pile-up: a schedule never has two open jobs, whatever is deleted, fails
\* or restarts between the count and the submission. (runDueSchedules: "Don't
\* pile a new job onto a schedule whose previous job is still queued or
\* running")
NoPileUp == \A s \in Schedules : pending[s] + running[s] <= 1

\* Submissions keep the interval: a schedule is not submitted before a whole
\* interval has passed since the now of the pass that last submitted it and
\* stored the advance, whatever is skipped, refused, switched or restarted
\* meanwhile. (MarkScheduleRun; README.md: "after that, every interval")
SubmissionsAreSpaced == [][Submit => since[cur] >= Interval[cur]]_vars

\* A schedule that was disabled or deleted is submitted once more at most: by
\* the pass that had already read it. (runDueSchedules works on a stale batch)
OffMeansOff == \A s \in Schedules : late[s] <= 1

\* The inductive invariant behind them, in named parts. See SchedulerProofs.
InPass(s) == s \in due \/ cur = s
PassShape ==
  /\ pc \in {"idle", "exited"} <=> cur = NoSchedule
  /\ cur = NoSchedule => due = {} /\ age = 0
  /\ cur \notin due
  /\ mgr = "down" => pc = "exited"
\* What the pass has read and not submitted was due for a whole interval.
StillDue(s) ==
  InPass(s) => /\ row[s] # "none"
               /\ s \in due \/ pc # "submitted" => since[s] >= Interval[s]
               /\ s \in due \/ pc \in {"count", "submit"} => late[s] = 0
\* What is left to wait makes up for what has not passed.
WaitShape(s) ==
  /\ row[s] = "none" => since[s] >= Interval[s]
  /\ row[s] # "deleted" /\ since[s] < Interval[s] => since[s] + wait[s] >= Interval[s]
LateShape(s) == row[s] \in {"none", "on"} => late[s] = 0
SubmitShape == pc = "submit" => pending[cur] = 0 /\ running[cur] = 0

IndInv ==
  /\ TypeOK
  /\ PassShape /\ SubmitShape /\ NoPileUp /\ OffMeansOff
  /\ \A s \in Schedules : StillDue(s) /\ WaitShape(s) /\ LateShape(s)

\* An enabled schedule does not stop for good: while the daemon stays up it is
\* submitted again and again, even if its jobs were skipped, refused, deleted
\* or interrupted, and although one schedule's store calls fail at times.
EnabledSchedulesGoOn ==
  \A s \in Schedules \ Flaky :
    <>[](mgr = "up" /\ row[s] = "on") => []<>(pc = "submit" /\ cur = s)
=============================================================================
