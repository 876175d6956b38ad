--------------------------- MODULE RetentionProofs ---------------------------
(***************************************************************************)
(* What the retention loop takes, what it leaves, and what a pipeline may  *)
(* read in the exit code of the command line tool beside it: for any jobs, *)
(* events, tiers and number of runs, any retention time, and a pass of any *)
(* length.                                                                 *)
(***************************************************************************)
EXTENDS Retention, FiniteSetTheorems, TLAPS

USE InvocationAssumption, RetentionAssumption, SendAssumption

-----------------------------------------------------------------------------
(* The command line tool                                                   *)

LEMMA CliInitInv == CliInit => CliInv
<1> SUFFICES ASSUME CliInit PROVE CliInv
  OBVIOUS
<1>1. CliTypeOK
  BY DEF CliInit, CliTypeOK
<1>2. CountShape /\ RunShape
  BY DEF CliInit, CountShape, RunShape
<1>3. ExitTellsTheTruth /\ StoredVerdictIsTheGate
  BY DEF CliInit, ExitTellsTheTruth, StoredVerdictIsTheGate, Running
<1> QED
  BY <1>1, <1>2, <1>3 DEF CliInv

\* The tiers that fail are some of those that are tried; if none delivered, all.
LEMMA FailuresAreCounted ==
  /\ Cardinality(Tiers) \in Nat \ {0}
  /\ \A bad \in SUBSET Tiers : Cardinality(bad) \in Nat
<1>1. Cardinality(Tiers) \in Nat /\ Cardinality(Tiers) # 0
  BY FS_CardinalityType, FS_EmptySet
<1>2. \A bad \in SUBSET Tiers : Cardinality(bad) \in Nat
  BY FS_Subset, FS_CardinalityType
<1> QED
  BY <1>1, <1>2

LEMMA MeasureInv == ASSUME CliInv, Measure PROVE CliInv'
<1>0. PICK bad \in SUBSET Tiers :
        /\ attempted' = attempted + Cardinality(Tiers)
        /\ failed' = failed + Cardinality(bad)
        /\ worked' = (worked \/ bad # Tiers)
  BY DEF Measure
<1>1. attempted' \in Nat \ {0} /\ failed' \in Nat
  BY <1>0, FailuresAreCounted DEF CliInv, CliTypeOK
<1>2. worked' \in BOOLEAN
  BY <1>0 DEF CliInv, CliTypeOK
<1>3. ~worked' => failed' = attempted'
  BY <1>0 DEF CliInv, CountShape
<1>4. cpc = "run" /\ run \in Nat /\ run >= 1 /\ run <= Runs
  BY DEF CliInv, CliTypeOK, RunShape, Measure
<1>5. run' \in Nat /\ cpc' \in {"create", "run", "judge"} /\ run' >= 1
      /\ (run' > Runs <=> cpc' = "judge")
  BY <1>4 DEF Measure, AfterRun
<1>6. CliTypeOK'
  BY <1>1, <1>2, <1>5 DEF CliInv, CliTypeOK, Measure
<1>7. CountShape'
  BY <1>1, <1>3 DEF CountShape
<1>8. RunShape'
  BY <1>4, <1>5 DEF CliInv, RunShape, Measure, CliTypeOK
<1>9. exit' = Running /\ \A r \in 1..Runs : crow'[r] # "FAILED" /\ cverdict'[r] = "none"
  BY <1>4 DEF CliInv, RunShape, StoredVerdictIsTheGate, Measure
<1> QED
  BY <1>6, <1>7, <1>8, <1>9 DEF CliInv, ExitTellsTheTruth, StoredVerdictIsTheGate, Running

LEMMA RowStepsInv == ASSUME CliInv, CreateRow \/ SaveRow PROVE CliInv'
<1>1. CASE CreateRow
  BY <1>1 DEF CreateRow, CliInv, CliTypeOK, CountShape, RunShape, ExitTellsTheTruth,
     StoredVerdictIsTheGate
<1>2. CASE SaveRow
  BY <1>2 DEF SaveRow, AfterRun, CliInv, CliTypeOK, CountShape, RunShape, ExitTellsTheTruth,
     StoredVerdictIsTheGate
<1> QED
  BY <1>1, <1>2

LEMMA JudgeInv == ASSUME CliInv, Judge PROVE CliInv'
BY DEF Judge, CliInv, CliTypeOK, CountShape, RunShape, ExitTellsTheTruth,
   StoredVerdictIsTheGate, Running

LEMMA TellInv == ASSUME CliInv, Tell PROVE CliInv'
<1>1. cpc = "tell" /\ told \in Nat /\ told < Runs /\ run > Runs /\ exit = Running
  BY DEF Tell, CliInv, CliTypeOK, RunShape
<1>2. \A r \in 1..Runs : cverdict'[r] \in {cverdict[r], eval}
  BY <1>1 DEF Tell, CliInv, CliTypeOK
<1>3. cverdict' \in [1..Runs -> {"none", "ok", "fail"}]
  BY DEF Tell, CliInv, CliTypeOK
<1>4. CliTypeOK' /\ CountShape' /\ RunShape'
  BY <1>1, <1>3 DEF Tell, CliInv, CliTypeOK, CountShape, RunShape
<1>5. ExitTellsTheTruth' /\ StoredVerdictIsTheGate'
  BY <1>1, <1>2 DEF Tell, CliInv, ExitTellsTheTruth, StoredVerdictIsTheGate, Running
<1> QED
  BY <1>4, <1>5 DEF CliInv

\* The code is 0 or 3 only when not every tier failed, so one delivered.
LEMMA ReportInv == ASSUME CliInv, Report PROVE CliInv'
<1>0. PICK written \in BOOLEAN : exit' = ExitCode(written)
  BY DEF Report
<1>1. exit' \in {0, 1, 3} /\ (exit' = 0 => eval # "fail") /\ (exit' = 3 => eval = "fail")
  BY <1>0 DEF ExitCode
<1>2. exit' \in {0, 3} => ~AllFailed
  BY <1>0 DEF ExitCode
<1>3. exit' \in {0, 3} => worked \/ Runs = 0
  BY <1>2 DEF AllFailed, Report, CliInv, CliTypeOK, CountShape
<1>4. CliTypeOK' /\ CountShape' /\ RunShape'
  BY <1>1 DEF Report, CliInv, CliTypeOK, CountShape, RunShape
<1>5. ExitTellsTheTruth' /\ StoredVerdictIsTheGate'
  BY <1>1, <1>3 DEF Report, CliInv, ExitTellsTheTruth, StoredVerdictIsTheGate
<1> QED
  BY <1>4, <1>5 DEF CliInv

LEMMA CliStepInv == ASSUME CliInv, CliNext PROVE CliInv'
BY MeasureInv, RowStepsInv, JudgeInv, TellInv, ReportInv DEF CliNext

LEMMA DeleteToolRowInv ==
  ASSUME CliInv, NEW r \in 1..Runs, DeleteToolRow(r)
  PROVE  CliInv'
<1>1. CliTypeOK' /\ CountShape' /\ RunShape'
  BY DEF DeleteToolRow, CliInv, CliTypeOK, CountShape, RunShape
<1>2. \A q \in 1..Runs : /\ crow'[q] \in {crow[q], "deleted"}
                         /\ cverdict'[q] \in {cverdict[q], "none"}
  BY DEF DeleteToolRow, CliInv, CliTypeOK
<1>3. ExitTellsTheTruth' /\ StoredVerdictIsTheGate'
  BY <1>2 DEF DeleteToolRow, CliInv, ExitTellsTheTruth, StoredVerdictIsTheGate
<1> QED
  BY <1>1, <1>3 DEF CliInv

LEMMA CliStutterInv == ASSUME CliInv, UNCHANGED cvars PROVE CliInv'
BY DEF cvars, CliInv, CliTypeOK, CountShape, RunShape, ExitTellsTheTruth,
   StoredVerdictIsTheGate

-----------------------------------------------------------------------------
(* The loop and the writers beside it                                      *)

DaemonInv == AgesOK /\ SendersAreYoung /\ DeliveriesGoFirst /\ NothingLeftBehind

LEMMA DaemonInitInv == ASSUME Init PROVE DaemonInv
BY DEF Init, DaemonInv, AgesOK, SendersAreYoung, DeliveriesGoFirst, NothingLeftBehind,
   NoTime, Forever

\* A job that has just finished is not old, however long the pass has lasted.
LEMMA YoungIsNotOld == ASSUME AgesOK, NEW n \in Int, n <= Keep PROVE ~Before(n)
BY DEF AgesOK, Before

LEMMA WriterInv ==
  ASSUME DaemonInv, NEW j \in Jobs, Open(j) \/ Finish(j) \/ Delete(j)
  PROVE  DaemonInv'
<1>0. AgesOK /\ SendersAreYoung /\ DeliveriesGoFirst /\ NothingLeftBehind
  BY DEF DaemonInv
<1>1. AgesOK'
  <2>1. CASE Open(j)
    BY <1>0, <2>1 DEF Open, AgesOK
  <2>2. CASE Finish(j)
    <3>1. sending' \subseteq Jobs
      BY <1>0, <2>2 DEF Finish, AgesOK
    <3>2. age' \in [Jobs -> NoTime..Forever]
      BY <1>0, <2>2 DEF Finish, AgesOK, NoTime, Forever
    <3> QED
      BY <1>0, <2>2, <3>1, <3>2 DEF Finish, AgesOK
  <2>3. CASE Delete(j)
    BY <1>0, <2>3 DEF Delete, AgesOK, NoTime, Forever
  <2> QED
    BY <2>1, <2>2, <2>3
<1>2. rpc' = rpc /\ lapse' = lapse
  BY DEF Open, Finish, Delete
<1>3. ASSUME NEW i \in Jobs \ {j}
      PROVE  /\ row'[i] = row[i] /\ age'[i] = age[i] /\ delivery'[i] = delivery[i]
             /\ i \in sending' => i \in sending
  BY <1>0, <1>3 DEF Open, Finish, Delete, AgesOK
<1>4. row'[j] = "done" => age'[j] = 0
  BY <1>0 DEF Open, Finish, Delete, AgesOK
<1>5. row'[j] # "purged"
  BY <1>0 DEF Open, Finish, Delete, AgesOK
<1>6. j \notin OldJobs'
  <2>1. lapse' \in Nat
    BY <1>1 DEF AgesOK
  <2>2. ASSUME row'[j] = "done", age'[j] - lapse' > Keep PROVE FALSE
    BY <1>4, <2>1, <2>2
  <2> QED
    BY <2>2 DEF OldJobs, Before
<1>7. \A i \in Jobs \ {j} : i \in OldJobs' => i \in OldJobs
  BY <1>2, <1>3 DEF OldJobs, Before
<1>8. DeliveriesGoFirst'
  BY <1>0, <1>2, <1>3, <1>6, <1>7 DEF DeliveriesGoFirst, OldJobs
<1>9. NothingLeftBehind'
  BY <1>0, <1>3, <1>5 DEF NothingLeftBehind
<1>10. j \in sending' => row'[j] \in {"done", "deleted"} /\ age'[j] <= MaxSend
  BY <1>0 DEF Open, Finish, Delete, AgesOK, SendersAreYoung, NoTime
<1>11. SendersAreYoung'
  BY <1>0, <1>1, <1>3, <1>10 DEF SendersAreYoung, AgesOK
<1> QED
  BY <1>1, <1>8, <1>9, <1>11 DEF DaemonInv

\* A webhook is enqueued for a young job, or for one that a client has deleted:
\* neither is among the old ones, and neither is purged.
LEMMA SendInv == ASSUME DaemonInv, NEW j \in Jobs, Send(j) PROVE DaemonInv'
<1>0. AgesOK /\ SendersAreYoung /\ DeliveriesGoFirst /\ NothingLeftBehind
  BY DEF DaemonInv
<1>1. row[j] \in {"done", "deleted"} /\ age[j] \in Int /\ age[j] <= Keep
  BY <1>0 DEF Send, SendersAreYoung, AgesOK, NoTime, Forever
<1>2. j \notin OldJobs /\ OldJobs' = OldJobs
  BY <1>0, <1>1, YoungIsNotOld DEF Send, OldJobs, Before
<1>3. \A i \in Jobs \ {j} : delivery'[i] = delivery[i]
  BY <1>0 DEF Send, AgesOK
<1>4. AgesOK' /\ SendersAreYoung'
  BY <1>0 DEF Send, AgesOK, SendersAreYoung
<1>5. DeliveriesGoFirst'
  BY <1>0, <1>2, <1>3 DEF Send, DeliveriesGoFirst, OldJobs
<1>6. NothingLeftBehind'
  BY <1>0, <1>1, <1>3 DEF Send, NothingLeftBehind
<1> QED
  BY <1>4, <1>5, <1>6 DEF DaemonInv

LEMMA EventInv == ASSUME DaemonInv, NEW e \in Events, SaveEvent(e) PROVE DaemonInv'
BY DEF SaveEvent, DaemonInv, AgesOK, SendersAreYoung, DeliveriesGoFirst, NothingLeftBehind,
   OldJobs, Before, NoTime, Forever

\* The first statement takes the deliveries of exactly the jobs that the second
\* would take now, and no job whose webhook is still to come is among them.
LEMMA PassInv ==
  ASSUME DaemonInv, Tick \/ Purge \/ PurgeFails \/ DaemonEnds
  PROVE  DaemonInv'
<1>0. AgesOK /\ SendersAreYoung /\ DeliveriesGoFirst /\ NothingLeftBehind
  BY DEF DaemonInv
<1> USE DEF DaemonInv
<1>1. CASE Tick \/ PurgeFails
  BY <1>0, <1>1 DEF Tick, PurgeFails, AgesOK, SendersAreYoung, DeliveriesGoFirst,
     NothingLeftBehind
<1>2. CASE PurgeDeliveries
  <2>1. OldJobs' = OldJobs
    BY <1>2 DEF PurgeDeliveries, OldJobs, Before
  <2>2. AgesOK' /\ SendersAreYoung' /\ NothingLeftBehind'
    BY <1>0, <1>2 DEF PurgeDeliveries, AgesOK, SendersAreYoung, NothingLeftBehind
  <2>3. \A j \in OldJobs : ~delivery'[j]
    BY <1>2 DEF PurgeDeliveries, OldJobs
  <2> QED
    BY <2>1, <2>2, <2>3 DEF DeliveriesGoFirst
<1>3. CASE PurgeJobs
  <2>1. AgesOK'
    BY <1>0, <1>3 DEF PurgeJobs, AgesOK, NoTime, Forever
  <2>2. NothingLeftBehind'
    BY <1>0, <1>3 DEF PurgeJobs, DeliveriesGoFirst, NothingLeftBehind, AgesOK
  <2>3. SendersAreYoung'
    <3>1. \A j \in sending : age[j] \in Int /\ age[j] <= Keep
      BY <1>0 DEF SendersAreYoung, AgesOK, NoTime, Forever
    <3>2. \A j \in sending : j \notin OldJobs
      BY <1>0, <3>1, YoungIsNotOld DEF OldJobs
    <3> QED
      BY <1>0, <1>3, <3>2 DEF PurgeJobs, SendersAreYoung, AgesOK
  <2> QED
    BY <1>3, <2>1, <2>2, <2>3 DEF PurgeJobs, DeliveriesGoFirst
<1>4. CASE PurgeEvents
  BY <1>0, <1>4 DEF PurgeEvents, AgesOK, SendersAreYoung, DeliveriesGoFirst,
     NothingLeftBehind, NoTime, Forever
<1>5. CASE DaemonEnds
  BY <1>0, <1>5 DEF DaemonEnds, AgesOK, SendersAreYoung, DeliveriesGoFirst, NothingLeftBehind
<1> QED
  BY <1>1, <1>2, <1>3, <1>4, <1>5 DEF Purge

\* A day makes nothing old that was not: the cutoff stays where it is. A time
\* that is not counted further was before the cutoff already.
LEMMA DayKeepsOld == ASSUME AgesOK, Day, rpc = "jobs" PROVE OldJobs' \subseteq OldJobs
<1>1. lapse' = lapse + 1 /\ lapse < MaxPass /\ row' = row /\ lapse \in Nat
  BY DEF Day, AgesOK
<1>2. ASSUME NEW j \in Jobs, j \in OldJobs' PROVE j \in OldJobs
  <2>1. age'[j] = Older(age[j]) /\ age[j] \in NoTime..Forever
    BY DEF Day, AgesOK
  <2>2. row[j] = "done" /\ age'[j] # NoTime /\ age'[j] - lapse' > Keep
    BY <1>1, <1>2 DEF OldJobs, Before
  <2>3. age[j] # NoTime /\ age[j] - lapse > Keep
    BY <1>1, <2>1, <2>2 DEF Older, NoTime, Forever
  <2> QED
    BY <2>2, <2>3 DEF OldJobs, Before
<1> QED
  BY <1>2 DEF OldJobs

LEMMA DayInv == ASSUME DaemonInv, Day PROVE DaemonInv'
<1>0. AgesOK /\ SendersAreYoung /\ DeliveriesGoFirst /\ NothingLeftBehind
  BY DEF DaemonInv
<1>1. \A n \in NoTime..Forever : Older(n) \in NoTime..Forever
  BY DEF Older, NoTime, Forever
<1>2. lapse' \in 0..MaxPass
  BY <1>0 DEF Day, AgesOK
<1>3. AgesOK'
  BY <1>0, <1>1, <1>2 DEF Day, AgesOK
<1>4. DeliveriesGoFirst'
  BY <1>0, DayKeepsOld DEF Day, DeliveriesGoFirst
<1>5. SendersAreYoung'
  <2>1. \A n \in NoTime..Forever : n < MaxSend => Older(n) <= MaxSend
    BY DEF Older, NoTime, Forever
  <2> QED
    BY <1>0, <2>1 DEF Day, SendersAreYoung, AgesOK
<1> QED
  BY <1>0, <1>3, <1>4, <1>5 DEF Day, NothingLeftBehind, DaemonInv

\* The start looks at the tool's rows too, and finds none to recover.
LEMMA StartInv ==
  ASSUME IndInv, DaemonStarts
  PROVE  IndInv'
<1>1. crow' = crow
  BY DEF DaemonStarts, Recover, IndInv, CliInv, CliTypeOK
<1>2. CliInv'
  <2>1. UNCHANGED cvars
    BY <1>1 DEF DaemonStarts, cvars
  <2> QED
    BY <2>1, CliStutterInv DEF IndInv
<1>3. /\ row' \in [Jobs -> {"none", "open", "left", "done", "deleted", "purged"}]
      /\ age' \in [Jobs -> NoTime..Forever]
  BY DEF DaemonStarts, Recover, IndInv, AgesOK, NoTime, Forever, Interrupted
<1>4. \A j \in Jobs : row'[j] = "purged" => row[j] = "purged"
  BY DEF DaemonStarts, Recover, IndInv, AgesOK
<1>5. AgesOK' /\ DeliveriesGoFirst' /\ NothingLeftBehind'
  BY <1>3, <1>4 DEF DaemonStarts, IndInv, AgesOK, DeliveriesGoFirst, NothingLeftBehind
<1>6. SendersAreYoung'
  BY <1>3 DEF DaemonStarts, Recover, IndInv, AgesOK, SendersAreYoung, Interrupted, NoTime, Forever
<1> QED
  BY <1>2, <1>5, <1>6 DEF IndInv

LEMMA DaemonStepInv ==
  ASSUME DaemonInv, DaemonNext
  PROVE  DaemonInv'
<1>1. ASSUME NEW j \in Jobs, Send(j) PROVE DaemonInv'
  BY <1>1, SendInv
<1> QED
  BY <1>1, WriterInv, EventInv, PassInv, DayInv DEF DaemonNext

LEMMA DaemonStutterInv ==
  ASSUME DaemonInv, UNCHANGED dvars
  PROVE  DaemonInv'
BY DEF dvars, DaemonInv, AgesOK, SendersAreYoung, DeliveriesGoFirst, NothingLeftBehind,
   OldJobs, Before

LEMMA StepInv == IndInv /\ [Next]_vars => IndInv'
<1> SUFFICES ASSUME IndInv, [Next]_vars PROVE IndInv'
  OBVIOUS
<1>1. CASE CliNext /\ UNCHANGED dvars
  BY <1>1, CliStepInv, DaemonStutterInv DEF IndInv, DaemonInv
<1>2. CASE \E r \in 1..Runs : rpc # "down" /\ DeleteToolRow(r) /\ UNCHANGED dvars
  BY <1>2, DeleteToolRowInv, DaemonStutterInv DEF IndInv, DaemonInv
<1>3. CASE DaemonNext /\ UNCHANGED cvars
  BY <1>3, DaemonStepInv, CliStutterInv DEF IndInv, DaemonInv
<1>4. CASE DaemonStarts
  BY <1>4, StartInv
<1>5. CASE UNCHANGED vars
  BY <1>5, CliStutterInv, DaemonStutterInv DEF IndInv, DaemonInv, vars
<1> QED
  BY <1>1, <1>2, <1>3, <1>4, <1>5 DEF Next

-----------------------------------------------------------------------------
(* The results                                                             *)

\* Of every reachable state: the tool's counters, its verdict and its rows agree,
\* and the deliveries of the jobs that the second statement will take are gone.
THEOREM InvariantHolds == Spec => []IndInv
<1>1. Init => IndInv
  BY CliInitInv, DaemonInitInv DEF Init, IndInv, DaemonInv
<1> QED
  BY <1>1, StepInv, PTL DEF Spec

\* A purged job leaves no delivery behind, however long the time between the two
\* statements, and whatever finishes, is deleted or grows old in it.
THEOREM NothingLeftBehindHolds == Spec => []NothingLeftBehind
<1>1. IndInv => NothingLeftBehind
  BY DEF IndInv
<1> QED
  BY <1>1, InvariantHolds, PTL

\* A pipeline may trust the exit code, for any number of runs and any tiers.
THEOREM ExitTellsTheTruthHolds == Spec => []ExitTellsTheTruth
<1>1. IndInv => ExitTellsTheTruth
  BY DEF IndInv, CliInv
<1> QED
  BY <1>1, InvariantHolds, PTL

\* A verdict in the database is the one over all runs, with which the exit code
\* agrees, and no daemon takes the tool's rows for interrupted ones.
THEOREM StoredVerdictIsTheGateHolds == Spec => []StoredVerdictIsTheGate
<1>1. IndInv => StoredVerdictIsTheGate
  BY DEF IndInv, CliInv
<1> QED
  BY <1>1, InvariantHolds, PTL

LEMMA StepTakesNothingYoung == IndInv /\ [Next]_vars => [YoungStays]_vars
<1> SUFFICES ASSUME IndInv, Next PROVE YoungStays
  BY DEF vars
<1>0. AgesOK /\ NothingLeftBehind
  BY DEF IndInv
<1>1. \A n \in NoTime..Forever : n <= Keep => ~Before(n)
  BY <1>0, YoungIsNotOld DEF NoTime, Forever
<1>2. \A j \in Jobs : age[j] <= Keep => j \notin OldJobs
  BY <1>0, <1>1 DEF AgesOK, OldJobs
<1>3. \A e \in Events : eage[e] <= Keep => e \notin OldEvents
  BY <1>0, <1>1 DEF AgesOK, OldEvents
<1>4. CASE UNCHANGED dvars
  BY <1>4 DEF dvars, YoungStays
<1>5. ASSUME NEW j \in Jobs, Open(j) \/ Finish(j) \/ Delete(j) PROVE YoungStays
  BY <1>0, <1>5 DEF Open, Finish, Delete, AgesOK, YoungStays
<1>6. ASSUME NEW j \in Jobs, Send(j) PROVE YoungStays
  BY <1>0, <1>6 DEF Send, AgesOK, YoungStays
<1>7. ASSUME NEW e \in Events, SaveEvent(e) PROVE YoungStays
  BY <1>0, <1>7 DEF SaveEvent, AgesOK, YoungStays
<1>8. CASE Tick \/ PurgeFails \/ Day
  BY <1>8 DEF Tick, PurgeFails, Day, YoungStays
<1>9. CASE Purge
  BY <1>0, <1>2, <1>3, <1>9 DEF Purge, PurgeDeliveries, PurgeJobs, PurgeEvents, AgesOK, YoungStays
<1>10. CASE DaemonEnds \/ DaemonStarts
  BY <1>0, <1>10 DEF DaemonEnds, DaemonStarts, Recover, AgesOK, YoungStays
<1> QED
  BY <1>4, <1>5, <1>6, <1>7, <1>8, <1>9, <1>10 DEF Next, DaemonNext

\* No job, no event and no delivery is taken before its time, by any statement
\* of any pass, as long as the pass may take.
THEOREM NothingYoungIsTakenHolds == Spec => NothingYoungIsTaken
BY InvariantHolds, StepTakesNothingYoung, PTL DEF Spec, NothingYoungIsTaken
=============================================================================
