------------------------------- MODULE Startup -------------------------------
(***************************************************************************)
(* Processes that share one database file: daemons from the opening of the *)
(* store over the recovery of interrupted jobs to the port they listen on, *)
(* and back through a shutdown; and the command line tool, which opens the *)
(* store beside them. Jobs in short: JobLifecycle has their steps.         *)
(***************************************************************************)
EXTENDS Migrations

CONSTANTS
  Jobs,        \* job ids, each submitted once
  Daemons,     \* the processes that are "loadstar serve"; the others are tools
  Overlap,     \* whether a daemon is started while another one is there
  MaxCrashes   \* bound: how many processes are killed

ASSUME StartupAssumption ==
  Daemons \subseteq Procs /\ Overlap \in BOOLEAN /\ MaxCrashes \in Nat

VARIABLES
  port,     \* the process that listens on the configured address
  row,      \* jobs.status, "none" without a row
  holder,   \* the process whose memory holds the job, queued or being run
  begun,    \* the jobs a worker is at
  crashes   \* how many processes were killed

jobs == <<row, holder, begun>>
vars == <<database, pc, at, port, jobs, crashes>>

Open == {"PENDING", "RUNNING"}

\* The program points past NewStore.
Opened == {"opened", "recovered", "serving", "draining"}

\* What the process leaves: its port is free, its memory gone.
Exits(p) ==
  /\ Dies(p)
  /\ port' = IF port = p THEN NoProc ELSE port
  /\ holder' = [j \in Jobs |-> IF holder[j] = p THEN NoProc ELSE holder[j]]
  /\ begun' = {j \in begun : holder[j] # p}
  /\ UNCHANGED <<applied, schema, row>>

MayStart(p) ==
  p \in Daemons /\ ~Overlap => \A d \in Daemons : pc[d] = "off"

\* A supervisor or a user starts the process; configuration is read, and the
\* store is opened.
Start(p) ==
  /\ pc[p] = "off"
  /\ MayStart(p)
  /\ PcGoto(p, "reading")
  /\ UNCHANGED <<database, at, port, jobs, crashes>>

Migrate(p) == Run(p) /\ UNCHANGED <<port, jobs, crashes>>

\* WHERE status IN ('RUNNING', 'PENDING'); an error is logged, and that is all.
RecoverInterruptedJobs ==
  \/ row' = [j \in Jobs |-> IF row[j] \in Open THEN "FAILED" ELSE row[j]]
  \/ UNCHANGED row

\* (Mutant: whoever opens the store recovers, the tool as well.)
Recover_Everybody(p) ==
  /\ pc[p] = "opened"
  /\ RecoverInterruptedJobs
  /\ PcGoto(p, "recovered")
  /\ UNCHANGED <<database, at, port, holder, begun, crashes>>

Recover(p) ==
  /\ pc[p] = "opened"
  /\ p \in Daemons
  /\ RecoverInterruptedJobs
  /\ PcGoto(p, "recovered")
  /\ UNCHANGED <<database, at, port, holder, begun, crashes>>

\* ListenAndServe takes the port, or finds it taken and the process exits
\* with 1. Manager, workers and scheduler have started before.
Listen(p) ==
  /\ pc[p] = "recovered"
  /\ IF port = NoProc
       THEN /\ port' = p
            /\ PcGoto(p, "serving")
            /\ UNCHANGED <<database, at, jobs>>
       ELSE Exits(p)
  /\ UNCHANGED crashes

Working == {"recovered", "serving", "draining"}

\* A job is submitted, by a client or by the scheduler: the row and the place
\* in the queue.
Accept(p, j) ==
  /\ pc[p] \in Working
  /\ p \in Daemons
  /\ row[j] = "none"
  /\ row' = [row EXCEPT ![j] = "PENDING"]
  /\ holder' = [holder EXCEPT ![j] = p]
  /\ UNCHANGED <<database, pc, at, port, begun, crashes>>

\* A worker's writes select by the id and not by the status: what it holds
\* becomes RUNNING and then final, whatever the row says.
Work(p, j) ==
  /\ pc[p] \in Working
  /\ holder[j] = p
  /\ IF j \in begun
       THEN /\ row' = [row EXCEPT ![j] = "COMPLETED"]
            /\ begun' = begun \ {j}
            /\ holder' = [holder EXCEPT ![j] = NoProc]
       ELSE /\ row' = [row EXCEPT ![j] = "RUNNING"]
            /\ begun' = begun \cup {j}
            /\ UNCHANGED holder
  /\ UNCHANGED <<database, pc, at, port, crashes>>

\* httpServer.Shutdown closes the listener first and waits up to 20 s for the
\* handlers; the workers go on.
Shutdown(p) ==
  /\ pc[p] = "serving"
  /\ port' = NoProc
  /\ PcGoto(p, "draining")
  /\ UNCHANGED <<database, at, jobs, crashes>>

\* m.Stop, s.Close, the end of serveCmd; or the end of the tool.
Ends(p) ==
  /\ pc[p] = "draining" \/ (pc[p] = "opened" /\ p \notin Daemons)
  /\ Exits(p)
  /\ UNCHANGED crashes

Crash(p) ==
  /\ pc[p] # "off"
  /\ crashes < MaxCrashes
  /\ crashes' = crashes + 1
  /\ Exits(p)

Init ==
  /\ MigrationsInit
  /\ port = NoProc
  /\ row = [j \in Jobs |-> "none"]
  /\ holder = [j \in Jobs |-> NoProc]
  /\ begun = {}
  /\ crashes = 0

Next ==
  \E p \in Procs :
    \/ Start(p) \/ Migrate(p) \/ Recover(p) \/ Listen(p) \/ Shutdown(p)
    \/ Ends(p) \/ Crash(p)
    \/ \E j \in Jobs : Accept(p, j) \/ Work(p, j)

Spec == Init /\ [][Next]_vars

\* Somebody starts every process that is not there, and a process that is
\* opening the store goes on. Nothing is assumed of requests, shutdowns, kills.
FairSpec ==
  /\ Spec
  /\ \A p \in Procs : /\ SF_vars(Start(p))
                      /\ WF_vars(Migrate(p) \/ Recover(p) \/ Listen(p))

-----------------------------------------------------------------------------
\* A process that has the store open has every table and column its code
\* names, whoever made them, in which order and however often they raced,
\* failed or were killed on the way; a newer schema is kept. (migrations.Run
\* reads the version once, outside of any transaction.)
OpenStoreHasItsTables ==
  \A p \in Procs : pc[p] \in Opened => 1..Knows[p] \subseteq schema \cap applied

\* No kill and no lost race leaves a database that a process can never open:
\* a process that is started again and again gets its store open, unless a
\* daemon is there that has it open. (the SQL and its version in one
\* transaction)
UpgradesFinish ==
  \A p \in Procs :
    []<>(\/ pc[p] \in Opened
         \/ p \in Daemons /\ \E d \in Daemons : pc[d] \in Opened)

\* store.go:537: RecoverInterruptedJobs "fails any jobs left RUNNING or PENDING
\* by a previous process": a job in the memory of a process that still runs is
\* not left by anybody, and no other process's start fails it. (serveCmd
\* recovers before it knows whether the port is free.)
RecoveryTakesOnlyInterrupted ==
  [][\A j \in Jobs :
       holder[j] # NoProc /\ row'[j] = "FAILED" => row[j] = "FAILED"]_vars
=============================================================================
