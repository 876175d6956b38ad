------------------------------- MODULE CliRun -------------------------------
(***************************************************************************)
(* loadstar run: the command line tool measures, may store what it found   *)
(* in the daemon's database, judges its budget over all runs, and says     *)
(* with its exit code what a CI pipeline should think. A store call may    *)
(* fail. A tool that is killed takes no further step, which the            *)
(* specification allows anywhere. Retention has the daemon beside it,      *)
(* whose clients may delete the rows meanwhile.                            *)
(***************************************************************************)
EXTENDS Integers, FiniteSets

CONSTANTS
  Runs,       \* -n
  Tiers,      \* the tiers that -t selects
  HasBudget,  \* whether -budget is given
  HasStore    \* whether -db is given

ASSUME InvocationAssumption == /\ Runs \in Nat /\ IsFiniteSet(Tiers) /\ Tiers # {}
                               /\ HasBudget \in BOOLEAN /\ HasStore \in BOOLEAN

VARIABLES
  cpc,        \* where the tool is
  run,        \* i
  attempted,  \* tiersAttempted
  failed,     \* tiersFailed
  eval,       \* the budget's verdict: "none" before it is known, "fail", or "ok"
              \* (PASS or WARN, between which the tool makes no difference)
  told,       \* how many of cliJobIDs have been given the verdict
  exit,       \* the exit code, or Running
  crow,       \* the row of each run: "none", "COMPLETED", "RUNNING", "FAILED" or
              \* "deleted"
  cverdict,   \* budget_result of each row
  worked      \* history: whether a tier of some run delivered

cvars == <<cpc, run, attempted, failed, eval, told, exit, crow, cverdict, worked>>

Running == -1

AfterRun == IF run < Runs THEN "run" ELSE "judge"

-----------------------------------------------------------------------------
\* One run: the tiers in `bad` fail.
Measure ==
  /\ cpc = "run"
  /\ \E bad \in SUBSET Tiers :
       /\ attempted' = attempted + Cardinality(Tiers)
       /\ failed' = failed + Cardinality(bad)
       /\ worked' = (worked \/ bad # Tiers)
  /\ run' = IF HasStore THEN run ELSE run + 1
  /\ cpc' = IF HasStore THEN "create" ELSE AfterRun
  /\ UNCHANGED <<eval, told, exit, crow, cverdict>>

\* CreateJob, with StatusCompleted at once; a failure is only logged.
CreateRow ==
  /\ cpc = "create"
  /\ crow' \in {crow, [crow EXCEPT ![run] = "COMPLETED"]}
  /\ cpc' = "save"
  /\ UNCHANGED <<run, attempted, failed, eval, told, exit, cverdict, worked>>

\* SaveResult. Whether it stored anything (the foreign key refuses when there is
\* no row) makes no difference to what follows.
SaveRow ==
  /\ cpc = "save"
  /\ run' = run + 1
  /\ cpc' = AfterRun
  /\ UNCHANGED <<attempted, failed, eval, told, exit, crow, cverdict, worked>>

\* evaluateBudget over all runs; BudgetGate has what it does.
Judge ==
  /\ cpc = "judge"
  /\ eval' \in IF HasBudget THEN {"ok", "fail"} ELSE {"none"}
  /\ cpc' = IF HasStore /\ HasBudget /\ Runs > 0 THEN "tell" ELSE "report"
  /\ UNCHANGED <<run, attempted, failed, told, exit, crow, cverdict, worked>>

\* (Mutant: each row gets a verdict of its own run.)
Tell_OwnRun ==
  /\ cpc = "tell"
  /\ \/ UNCHANGED cverdict
     \/ /\ crow[told + 1] \notin {"none", "deleted"}
        /\ \E v \in {"ok", "fail"} : cverdict' = [cverdict EXCEPT ![told + 1] = v]
  /\ told' = told + 1
  /\ cpc' = IF told' < Runs THEN "tell" ELSE "report"
  /\ UNCHANGED <<run, attempted, failed, eval, exit, crow, worked>>

\* SetJobBudgetResult for the next of cliJobIDs; the id of a row that could not
\* be created is among them too.
Tell ==
  /\ cpc = "tell"
  /\ \/ UNCHANGED cverdict
     \/ /\ crow[told + 1] \notin {"none", "deleted"}
        /\ cverdict' = [cverdict EXCEPT ![told + 1] = eval]
  /\ told' = told + 1
  /\ cpc' = IF told' < Runs THEN "tell" ELSE "report"
  /\ UNCHANGED <<run, attempted, failed, eval, exit, crow, worked>>

AllFailed == attempted > 0 /\ failed = attempted

\* (Mutant: the budget is looked at before the tiers.)
ExitCode_BudgetFirst(written) ==
  CASE ~written -> 1
    [] written /\ eval = "fail" -> 3
    [] written /\ eval # "fail" -> IF AllFailed THEN 1 ELSE 0

\* In this order: the report, the tiers, the budget.
ExitCode(written) ==
  CASE ~written \/ AllFailed -> 1
    [] written /\ ~AllFailed /\ eval = "fail" -> 3
    [] OTHER -> 0

Report ==
  /\ cpc = "report"
  /\ \E written \in BOOLEAN : exit' = ExitCode(written)
  /\ cpc' = "exited"
  /\ UNCHANGED <<run, attempted, failed, eval, told, crow, cverdict, worked>>

\* DELETE /v1/jobs/{id}, which refuses RUNNING rows only.
DeleteToolRow(r) ==
  /\ crow[r] \in {"COMPLETED", "FAILED"}
  /\ crow' = [crow EXCEPT ![r] = "deleted"]
  /\ cverdict' = [cverdict EXCEPT ![r] = "none"]
  /\ UNCHANGED <<cpc, run, attempted, failed, eval, told, exit, worked>>

-----------------------------------------------------------------------------
CliInit ==
  /\ cpc = IF Runs > 0 THEN "run" ELSE "judge"
  /\ run = 1
  /\ attempted = 0 /\ failed = 0
  /\ eval = "none" /\ told = 0 /\ exit = Running
  /\ crow = [r \in 1..Runs |-> "none"]
  /\ cverdict = [r \in 1..Runs |-> "none"]
  /\ worked = FALSE

CliNext == Measure \/ CreateRow \/ SaveRow \/ Judge \/ Tell \/ Report

-----------------------------------------------------------------------------
\* A pipeline may trust the exit code: 0 says that something was measured (or
\* nothing was asked for) and the budget did not fail, 3 that it failed on data
\* that at least one tier delivered. (runCmd; README.md, "CLI exit codes")
ExitTellsTheTruth ==
  /\ exit \in {0, 3} => worked \/ Runs = 0
  /\ exit = 0 => eval # "fail"
  /\ exit = 3 => eval = "fail"

\* The database and the exit code agree: a stored verdict is the one over all
\* runs, the same in every row, and a pipeline that saw 0 finds no "fail" there,
\* whoever deletes rows meanwhile; and no daemon that starts while the tool runs
\* takes its rows for interrupted ones. (runCmd stores finished rows, and the
\* verdict after the last run)
StoredVerdictIsTheGate ==
  \A r \in 1..Runs :
    /\ crow[r] # "FAILED"
    /\ cverdict[r] # "none" => /\ run > Runs
                               /\ cverdict[r] = eval
                               /\ exit = 0 => cverdict[r] # "fail"

\* The inductive invariant behind both, in named parts. See RetentionProofs.
CliTypeOK ==
  /\ cpc \in {"run", "create", "save", "judge", "tell", "report", "exited"}
  /\ run \in Nat /\ attempted \in Nat /\ failed \in Nat /\ told \in Nat
  /\ eval \in {"none", "ok", "fail"}
  /\ exit \in {Running, 0, 1, 3}
  /\ crow \in [1..Runs -> {"none", "COMPLETED", "deleted"}]
  /\ cverdict \in [1..Runs -> {"none", "ok", "fail"}]
  /\ worked \in BOOLEAN
\* The counters tell whether anything was measured.
CountShape ==
  /\ attempted = 0 /\ Runs > 0 => cpc = "run"
  /\ ~worked => failed = attempted
\* The verdict is known after the last run, and stored after it is known.
RunShape ==
  /\ run > Runs <=> cpc \notin {"run", "create", "save"}
  /\ run >= 1
  /\ cpc = "tell" => told < Runs
  /\ cpc # "exited" => exit = Running
  /\ cpc \in {"run", "create", "save", "judge"} =>
       told = 0 /\ \A r \in 1..Runs : cverdict[r] = "none"

CliInv == CliTypeOK /\ CountShape /\ RunShape /\ ExitTellsTheTruth /\ StoredVerdictIsTheGate
=============================================================================
