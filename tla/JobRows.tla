------------------------------ MODULE JobRows ------------------------------
(***************************************************************************)
(* What the jobs table promises its readers: the life of a job row as the  *)
(* API, the scheduler, retention and the webhook receiver may rely on it.  *)
(* No workers, queue or handlers appear here; JobLifecycle refines this.   *)
(***************************************************************************)
EXTENDS Naturals

CONSTANTS
  Jobs,     \* the job ids
  Runs      \* Runs[j] is the number of runs job j asks for

VARIABLES
  status,   \* status[j]: the row's status, "none" when there is no row
  saved,    \* saved[j]: the run indexes that have a row in results
  verdict   \* verdict[j]: whether the row's budget_result is set

rows == <<status, saved, verdict>>

\* The states of architecture.md's table that no transition leaves.
Final == {"COMPLETED", "PARTIAL", "FAILED"}

Init ==
  /\ status = [j \in Jobs |-> "none"]
  /\ saved = [j \in Jobs |-> {}]
  /\ verdict = [j \in Jobs |-> FALSE]

\* The row changes to one of the statuses `to`.
Move(j, from, to) ==
  /\ status[j] \in from
  /\ \E s \in to : status' = [status EXCEPT ![j] = s]
  /\ UNCHANGED <<saved, verdict>>

\* The submission's INSERT.
Insert(j) == Move(j, {"none"}, {"PENDING"})

\* A worker claims the job. A row is never put back to PENDING.
Start(j) == Move(j, {"PENDING"}, {"RUNNING"})

\* The claiming worker writes the outcome.
Finish(j) == Move(j, {"RUNNING"}, Final)

\* Results accumulate while the job runs, each run index once.
Record(j) ==
  /\ status[j] = "RUNNING"
  /\ \E i \in 1..Runs[j] \ saved[j] : saved' = [saved EXCEPT ![j] = @ \cup {i}]
  /\ UNCHANGED <<status, verdict>>

\* The budget is judged once, on a row that is final.
Judge(j) ==
  /\ status[j] \in Final
  /\ ~verdict[j]
  /\ verdict' = [verdict EXCEPT ![j] = TRUE]
  /\ UNCHANGED <<status, saved>>

\* The row goes, and what is stored with it.
Remove(j) ==
  /\ status[j] # "none"
  /\ status' = [status EXCEPT ![j] = "none"]
  /\ saved' = [saved EXCEPT ![j] = {}]
  /\ verdict' = [verdict EXCEPT ![j] = FALSE]

\* A daemon that starts fails what its predecessor left unfinished, all of it
\* at once; a row that is already final is not touched.
Recover ==
  /\ status' = [j \in Jobs |->
                  IF status[j] \in {"PENDING", "RUNNING"} THEN "FAILED" ELSE status[j]]
  /\ UNCHANGED <<saved, verdict>>

Next ==
  \/ \E j \in Jobs : \/ Insert(j) \/ Start(j) \/ Finish(j) \/ Record(j)
                     \/ Judge(j) \/ Remove(j)
  \/ Recover

Spec == Init /\ [][Next]_rows
=============================================================================
