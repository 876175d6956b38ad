--------------------------- MODULE TierRunsProofs ----------------------------
(***************************************************************************)
(* What a job's status says of its tiers, that no tab of the browser is    *)
(* left open, and that an exposition of the metrics agrees with itself:    *)
(* for any requests, any number of workers and any buckets.                *)
(***************************************************************************)
EXTENDS TierRuns, FiniteSetTheorems, TLAPS

USE TierRunsAssumption, BucketsAssumption

-----------------------------------------------------------------------------
(* Requests, statuses and counters                                         *)

Requested == [tiers : Seq(STRING), runs : Int, sound : BOOLEAN]

RunRecord == [n : Nat, todo : SUBSET TierNames, rec : [TierNames -> Outcomes],
              failed : SUBSET TierNames, expired : BOOLEAN]

LEMMA TierFacts ==
  /\ TierNames = {"network", "browser", "vitals", "lighthouse"}
  /\ TabTiers \subseteq TierNames
  /\ "all" \notin TierNames
<1>1. Len(Tiers) = 4 /\ Tiers[1] = "network" /\ Tiers[2] = "browser" /\ Tiers[3] = "vitals"
      /\ Tiers[4] = "lighthouse"
  BY DEF Tiers
<1>2. 1..Len(Tiers) = {1, 2, 3, 4}
  BY <1>1
<1>3. TierNames = {"network", "browser", "vitals", "lighthouse"}
  BY <1>1, <1>2 DEF TierNames
<1> QED
  BY <1>3 DEF TabTiers

\* The tiers are gone through in their order: a tier of a tab is reached after
\* those before it.
LEMMA OrderOfTabs ==
  ASSUME NEW w \in Workers, NEW t \in TabTiers, Reaches(w, t)
  PROVE  TabTier(w) = t
<1>1. Tiers[2] = "browser" /\ Tiers[3] = "vitals" /\ 2 \in 1..Len(Tiers) /\ 3 \in 1..Len(Tiers)
  BY DEF Tiers
<1>2. t = "vitals" => "browser" \notin run[w].todo
  BY <1>1 DEF Reaches
<1> QED
  BY <1>2 DEF Reaches, TabTier, TabTiers

\* A request that is admitted asks for at least one tier, for tiers only, and for
\* those that processJob will find in it; and for at least one run.
LEMMA AskedTiers ==
  ASSUME NEW r \in Requested, validate(r)
  PROVE  /\ Asked(r) # {}
         /\ Asked(r) \subseteq TierNames
         /\ {t \in TierNames : hasTier(r, t)} = Asked(r)
<1> DEFINE S == SeqRange(r.tiers)
<1>1. S \subseteq TierNames \cup {"all"}
  BY DEF validate, validateTiers
<1>2. CASE r.tiers = <<>>
  BY <1>2, TierFacts DEF Asked, hasTier
<1>3. CASE r.tiers # <<>>
  <2>1. Asked(r) = UNION {IF t = "all" THEN TierNames ELSE {t} : t \in S}
    BY <1>3 DEF Asked
  <2>2. \A t \in TierNames : hasTier(r, t) <=> "all" \in S \/ t \in S
    BY <1>3 DEF hasTier
  <2>3. S # {}
    <3>1. r.tiers \in Seq(STRING)
      BY DEF Requested
    <3>2. 1 \in 1..Len(r.tiers)
      BY <1>3, <3>1
    <3>3. r.tiers[1] \in S
      BY <3>2 DEF SeqRange
    <3> QED
      BY <3>3
  <2>4. ASSUME NEW t
        PROVE  t \in Asked(r) <=> ("all" \in S /\ t \in TierNames) \/ (t # "all" /\ t \in S)
    BY <2>1
  <2> HIDE DEF S
  <2> QED
    BY <1>1, <2>2, <2>3, <2>4, TierFacts
<1> QED
  BY <1>2, <1>3

LEMMA RunsOfRequest ==
  ASSUME NEW r \in Requested
  PROVE  Runs(r) \in Nat \ {0} /\ Runs(r) = IF r.runs > 1 THEN r.runs ELSE 1
BY DEF Requested, Runs

LEMMA StatusIsFinal == \A total, c : deriveStatus(total, c) \in Final
BY DEF deriveStatus, Final

LEMMA CountType ==
  ASSUME NEW c \in [clean : Nat, failed : Nat], NEW ran, NEW failed
  PROVE  Count(c, ran, failed) \in [clean : Nat, failed : Nat]
BY DEF Count

\* A fresh record is well formed.
LEMMA FreshRun ==
  ASSUME NEW n \in Nat, NEW T \in SUBSET TierNames
  PROVE  /\ [NoRun EXCEPT !.n = n, !.todo = T] \in RunRecord
         /\ [NoRun EXCEPT !.n = n, !.todo = T].n = n
         /\ [NoRun EXCEPT !.n = n, !.todo = T].todo = T
         /\ [NoRun EXCEPT !.n = n, !.todo = T].failed = {}
         /\ [NoRun EXCEPT !.n = n, !.todo = T].rec = Empty
         /\ NoRun \in RunRecord
BY DEF NoRun, RunRecord, Empty, Outcomes

\* What the end of a tier does to the run and to no other.
LEMMA OutcomeStep ==
  ASSUME TypeOK, NEW w \in Workers, NEW t \in TierNames, NEW o \in Outcomes, Outcome(w, t, o)
  PROVE  /\ run' \in [Workers -> RunRecord]
         /\ \A v \in Workers \ {w} : run'[v] = run[v]
         /\ run'[w].n = run[w].n
         /\ run'[w].todo = run[w].todo \ {t}
         /\ run'[w].failed = IF o = "data" THEN run[w].failed ELSE run[w].failed \cup {t}
         /\ run'[w].rec[t] = o
         /\ \A u \in TierNames \ {t} : run'[w].rec[u] = run[w].rec[u]
<1>1. run \in [Workers -> RunRecord]
  BY DEF TypeOK, RunRecord
<1>2. run[w] \in RunRecord
  BY <1>1
<1> DEFINE r == [run[w] EXCEPT !.todo = @ \ {t}, !.rec[t] = o,
                               !.failed = IF o = "data" THEN @ ELSE @ \cup {t}]
<1>3. r \in RunRecord
  BY <1>2 DEF RunRecord
<1>4. run' = [run EXCEPT ![w] = r]
  BY <1>1, <1>2 DEF Outcome, RunRecord
<1>5. run'[w] = r /\ run' \in [Workers -> RunRecord] /\ \A v \in Workers \ {w} : run'[v] = run[v]
  BY <1>1, <1>3, <1>4
<1>6. /\ r.n = run[w].n
      /\ r.todo = run[w].todo \ {t}
      /\ r.failed = IF o = "data" THEN run[w].failed ELSE run[w].failed \cup {t}
      /\ r.rec[t] = o
      /\ \A u \in TierNames \ {t} : r.rec[u] = run[w].rec[u]
  BY <1>2 DEF RunRecord
<1> QED
  BY <1>5, <1>6

-----------------------------------------------------------------------------
(* Types                                                                   *)

\* TypeOK, with names for the types of the records.
Typed ==
  /\ mgr \in {"up", "stopping", "down"}
  /\ row \in [Jobs -> {"none", "refused", "PENDING", "RUNNING"} \cup Final]
  /\ request \in [Jobs -> Requested]
  /\ results \in [Jobs -> Seq([TierNames -> Outcomes])]
  /\ chrome \in {"none", "starting", "up", "dead", "failed", "closed"}
  /\ wpc \in [Workers -> {"idle", "tier", "launching", "collecting", "closing",
                          "deriving", "counting", "observing", "exited"}]
  /\ wjob \in [Workers -> Jobs \cup {NoJob}]
  /\ run \in [Workers -> RunRecord]
  /\ tally \in [Workers -> [clean : Nat, failed : Nat]]
  /\ final \in [Workers -> Final \cup {"none"}]
  /\ tab \in [Workers -> {"none", "open", "dead"}]

LEMMA Typing == (TypeOK <=> Typed) /\ (TypeOK' <=> Typed')
BY DEF TypeOK, Typed, RunRecord, Requested

LEMMA InitType == Init => TypeOK
<1> SUFFICES ASSUME Init PROVE TypeOK
  OBVIOUS
<1>1. [tiers |-> <<>>, runs |-> 0, sound |-> FALSE] \in Requested
  BY DEF Requested
<1>2. NoRun \in RunRecord
  BY DEF NoRun, RunRecord, Empty, Outcomes
<1>3. run \in [Workers -> RunRecord] /\ request \in [Jobs -> Requested]
  BY <1>1, <1>2 DEF Init
<1>4. results \in [Jobs -> Seq([TierNames -> Outcomes])]
  BY DEF Init
<1>5. tally \in [Workers -> [clean : Nat, failed : Nat]]
  BY DEF Init, NoTally
<1> QED
  BY <1>3, <1>4, <1>5 DEF Init, TypeOK, RunRecord, Requested

LEMMA SubmitType == ASSUME TypeOK, NEW j \in Jobs, Submit(j) PROVE TypeOK'
<1>1. Requests[j] \subseteq Requested
  BY DEF Requested
<1>2. request' \in [Jobs -> Requested]
  BY <1>1 DEF Submit, TypeOK, Requested
<1>3. row' \in [Jobs -> {"none", "refused", "PENDING", "RUNNING"} \cup Final]
  <2>1. PICK s \in {"refused", "PENDING"} : row' = [row EXCEPT ![j] = s]
    BY DEF Submit
  <2>2. row \in [Jobs -> {"none", "refused", "PENDING", "RUNNING"} \cup Final]
    BY Typing DEF Typed
  <2> QED
    BY <2>1, <2>2
<1>4. UNCHANGED <<mgr, results, chrome, wpc, wjob, run, tally, final, tab>>
  BY DEF Submit, pool
<1> QED
  BY <1>2, <1>3, <1>4, Typing DEF Typed

LEMMA ReleaseType ==
  ASSUME TypeOK, NEW w \in Workers, Release(w)
  PROVE  /\ wpc' = [wpc EXCEPT ![w] = "idle"]
         /\ wjob' \in [Workers -> Jobs \cup {NoJob}]
         /\ run' \in [Workers -> RunRecord]
         /\ tally' \in [Workers -> [clean : Nat, failed : Nat]]
         /\ final' \in [Workers -> Final \cup {"none"}]
<1>1. NoRun \in RunRecord /\ NoTally \in [clean : Nat, failed : Nat]
  BY FreshRun DEF NoTally, NoRun, RunRecord, Empty, Outcomes
<1>2. run \in [Workers -> RunRecord]
  BY DEF TypeOK, RunRecord
<1>3. run' \in [Workers -> RunRecord]
  BY <1>1, <1>2 DEF Release
<1>4. tally' \in [Workers -> [clean : Nat, failed : Nat]]
  BY <1>1 DEF Release, TypeOK
<1> QED
  BY <1>3, <1>4 DEF Release, Goto, TypeOK

LEMMA NextRunType ==
  ASSUME TypeOK, NEW w \in Workers, NEW n \in Nat, NextRun(w, n)
  PROVE  /\ run' \in [Workers -> RunRecord]
         /\ \A v \in Workers \ {w} : run'[v] = run[v]
         /\ run'[w].n = n
         /\ run'[w].todo = {t \in TierNames : hasTier(request[wjob'[w]], t)}
         /\ run'[w].failed = {}
         /\ run'[w].rec = Empty
<1> DEFINE T == {t \in TierNames : hasTier(request[wjob'[w]], t)}
           r == [NoRun EXCEPT !.n = n, !.todo = T]
<1>1. T \in SUBSET TierNames
  OBVIOUS
<1> HIDE DEF T
<1>2. r \in RunRecord /\ r.n = n /\ r.todo = T /\ r.failed = {} /\ r.rec = Empty
  BY <1>1, FreshRun
<1>3. run' = [run EXCEPT ![w] = r]
  BY DEF NextRun, T
<1> HIDE DEF r
<1>4. run \in [Workers -> RunRecord]
  BY DEF TypeOK, RunRecord
<1>5. run'[w] = r /\ run' \in [Workers -> RunRecord] /\ \A v \in Workers \ {w} : run'[v] = run[v]
  BY <1>2, <1>3, <1>4
<1> QED
  BY <1>2, <1>5 DEF T

LEMMA CollectType ==
  ASSUME TypeOK, NEW w \in Workers,
         \/ CollectNetwork(w) \/ CollectLighthouse(w) \/ NewContext(w)
         \/ CollectBrowser(w) \/ CollectVitals(w)
  PROVE  TypeOK'
<1>1. run' \in [Workers -> RunRecord]
  <2>1. \/ \E t \in TierNames, o \in Outcomes : Outcome(w, t, o)
        \/ UNCHANGED run
    BY TierFacts DEF CollectNetwork, CollectLighthouse, NewContext, CollectBrowser, CollectVitals,
       CollectInTab, Outcomes, TabTiers
  <2>2. CASE UNCHANGED run
    BY <2>2 DEF TypeOK, RunRecord
  <2> QED
    BY <2>1, <2>2, OutcomeStep
<1>2. /\ wpc' \in [Workers -> {"idle", "tier", "launching", "collecting", "closing",
                               "deriving", "counting", "observing", "exited"}]
      /\ tab' \in [Workers -> {"none", "open", "dead"}]
  BY DEF CollectNetwork, CollectLighthouse, NewContext, CollectBrowser, CollectVitals,
     CollectInTab, Goto, TypeOK
<1>3. UNCHANGED <<mgr, row, request, results, chrome, wjob, tally, final>>
  BY DEF CollectNetwork, CollectLighthouse, NewContext, CollectBrowser, CollectVitals,
     CollectInTab, jobs
<1> QED
  BY <1>1, <1>2, <1>3 DEF TypeOK, RunRecord

LEMMA BrowserStepType ==
  ASSUME TypeOK, NEW w \in Workers, StartBrowser(w) \/ Launched(w) \/ CloseTab(w)
  PROVE  TypeOK'
BY DEF StartBrowser, Launched, CloseTab, Goto, TypeOK, jobs

LEMMA ExpireType == ASSUME TypeOK, NEW w \in Workers, Expire(w) PROVE TypeOK'
<1>1. run \in [Workers -> RunRecord]
  BY DEF TypeOK, RunRecord
<1>2. [run[w] EXCEPT !.expired = TRUE] \in RunRecord
  BY <1>1 DEF RunRecord
<1>3. run' = [run EXCEPT ![w] = [run[w] EXCEPT !.expired = TRUE]]
  BY DEF Expire
<1>4. run' \in [Workers -> RunRecord]
  BY <1>1, <1>2, <1>3
<1> QED
  BY <1>4 DEF Expire, TypeOK, RunRecord, jobs

LEMMA TakeType == ASSUME TypeOK, NEW w \in Workers, NEW j \in Jobs, Take(w, j) PROVE TypeOK'
<1>1. run' \in [Workers -> RunRecord]
  BY NextRunType DEF Take
<1>2. /\ row' \in [Jobs -> {"none", "refused", "PENDING", "RUNNING"} \cup Final]
      /\ wjob' \in [Workers -> Jobs \cup {NoJob}]
      /\ wpc' = [wpc EXCEPT ![w] = "tier"]
  BY DEF Take, TypeOK, Goto
<1> QED
  BY <1>1, <1>2 DEF Take, TypeOK, RunRecord

LEMMA EndRunType ==
  ASSUME TypeOK, NEW w \in Workers, wjob[w] \in Jobs, EndRun(w)
  PROVE  TypeOK'
<1>1. run[w] \in RunRecord /\ tally[w] \in [clean : Nat, failed : Nat]
  BY DEF TypeOK, RunRecord
<1>2. run' \in [Workers -> RunRecord]
  <2>1. CASE NextRun(w, run[w].n + 1)
    <3>1. run[w].n + 1 \in Nat
      BY <1>1 DEF RunRecord
    <3> QED
      BY <2>1, <3>1, NextRunType
  <2>2. CASE run' = [run EXCEPT ![w] = NoRun]
    <3>1. NoRun \in RunRecord
      BY DEF NoRun, RunRecord, Empty, Outcomes
    <3> QED
      BY <2>2, <3>1 DEF TypeOK, RunRecord
  <2> QED
    BY <2>1, <2>2 DEF EndRun
<1>3. tally' \in [Workers -> [clean : Nat, failed : Nat]]
  <2>1. PICK ran : tally' = [tally EXCEPT ![w] = Count(tally[w], ran, run[w].failed)]
    BY DEF EndRun
  <2>2. Count(tally[w], ran, run[w].failed) \in [clean : Nat, failed : Nat]
    BY <1>1, CountType
  <2> QED
    BY <2>1, <2>2 DEF TypeOK
<1>4. results' \in [Jobs -> Seq([TierNames -> Outcomes])]
  <2>1. run[w].rec \in [TierNames -> Outcomes]
    BY <1>1 DEF RunRecord
  <2>2. Append(results[wjob[w]], run[w].rec) \in Seq([TierNames -> Outcomes])
    BY <2>1 DEF TypeOK
  <2>3. \/ UNCHANGED results
        \/ results' = [results EXCEPT ![wjob[w]] = Append(results[wjob[w]], run[w].rec)]
    BY DEF EndRun
  <2> QED
    BY <2>2, <2>3 DEF TypeOK
<1>5. wpc' \in [Workers -> {"idle", "tier", "launching", "collecting", "closing",
                            "deriving", "counting", "observing", "exited"}]
  <2>1. wpc' = wpc \/ wpc' = [wpc EXCEPT ![w] = "deriving"]
    BY DEF EndRun, Goto
  <2> QED
    BY <2>1, Typing DEF Typed
<1>6. UNCHANGED <<mgr, row, request, chrome, wjob, final, tab>>
  BY DEF EndRun
<1> QED
  BY <1>2, <1>3, <1>4, <1>5, <1>6, Typing DEF Typed

LEMMA WriteFinalStatusType ==
  ASSUME TypeOK, NEW w \in Workers, WriteFinalStatus(w)
  PROVE  TypeOK'
<1>1. PICK s \in Final : /\ row' = [row EXCEPT ![wjob[w]] = IF StoreFails THEN @ ELSE s]
                         /\ final' = [final EXCEPT ![w] = s]
  BY StatusIsFinal DEF WriteFinalStatus
<1>2. /\ row' \in [Jobs -> {"none", "refused", "PENDING", "RUNNING"} \cup Final]
      /\ final' \in [Workers -> Final \cup {"none"}]
  BY <1>1 DEF TypeOK
<1> QED
  BY <1>2 DEF WriteFinalStatus, Goto, TypeOK

LEMMA LastStepsType ==
  ASSUME TypeOK, NEW w \in Workers, CountJob(w) \/ ObserveDuration(w) \/ WorkerExit(w)
  PROVE  TypeOK'
<1>1. CASE CountJob(w)
  BY <1>1 DEF CountJob, Goto, TypeOK, jobs
<1>2. CASE ObserveDuration(w)
  BY <1>2, ReleaseType DEF ObserveDuration, TypeOK, jobs, RunRecord
<1>3. CASE WorkerExit(w)
  BY <1>3 DEF WorkerExit, Goto, TypeOK, jobs
<1> QED
  BY <1>1, <1>2, <1>3

LEMMA ProcessType == ASSUME TypeOK, Stop \/ ProcessExits \/ BrowserDies \/ Scrape PROVE TypeOK'
<1>1. CASE BrowserDies
  BY <1>1 DEF BrowserDies, TypeOK, jobs, pool
<1>2. CASE Stop \/ ProcessExits \/ Scrape
  BY <1>2 DEF Stop, ProcessExits, Scrape, TypeOK, jobs, pool
<1> QED
  BY <1>1, <1>2

\* A worker that ends a run holds a job.
Busy == \A w \in Workers : InJob(w) => wjob[w] \in Jobs

LEMMA TypeStep == TypeOK /\ Busy /\ [Next]_vars => TypeOK'
<1> SUFFICES ASSUME TypeOK, Busy, [Next]_vars PROVE TypeOK'
  OBVIOUS
<1>1. ASSUME NEW j \in Jobs, Submit(j) PROVE TypeOK'
  BY <1>1, SubmitType
<1>2. ASSUME NEW w \in Workers, WorkerStep(w) PROVE TypeOK'
  <2>1. EndRun(w) => wjob[w] \in Jobs
    BY DEF EndRun, Busy, InJob, InRun
  <2> QED
    BY <1>2, <2>1, TakeType, CollectType, BrowserStepType, EndRunType, WriteFinalStatusType,
       LastStepsType DEF WorkerStep
<1>3. ASSUME NEW w \in Workers, CollectBrowser(w) \/ CollectVitals(w) \/ Expire(w) PROVE TypeOK'
  BY <1>3, CollectType, ExpireType
<1>4. ASSUME NEW w \in Workers, CountJob(w) \/ ObserveDuration(w) PROVE TypeOK'
  BY <1>4, LastStepsType
<1>5. CASE Stop \/ ProcessExits \/ BrowserDies \/ Scrape
  BY <1>5, ProcessType
<1>6. CASE UNCHANGED vars
  BY <1>6 DEF vars, jobs, pool, TypeOK
<1> QED
  BY <1>1, <1>2, <1>3, <1>4, <1>5, <1>6 DEF Next

-----------------------------------------------------------------------------
(* The browser and its tabs                                                *)

\* Each step of a worker that has to do with the browser, or with none.
LEMMA InitTabs == Init => BrowserShape /\ NoTabIsLeaked
BY DEF Init, BrowserShape, NoTabIsLeaked

\* The worker moves to a place that is not "launching", its tab is closed unless
\* it stays with it, and the browser is left alone.
LEMMA TabFrame ==
  ASSUME TypeOK, BrowserShape, NoTabIsLeaked, NEW w \in Workers, mgr' = mgr, chrome' = chrome,
         wpc[w] # "exited",
         \A v \in Workers \ {w} : wpc'[v] = wpc[v] /\ tab'[v] = tab[v],
         wpc'[w] # "launching",
         tab'[w] # "none" => wpc'[w] \in {"collecting", "closing"} /\ chrome \in {"up", "dead"}
  PROVE  (BrowserShape /\ NoTabIsLeaked)'
BY DEF BrowserShape, NoTabIsLeaked

LEMMA WorkerTabs ==
  ASSUME TypeOK, BrowserShape, NoTabIsLeaked, NEW w \in Workers,
         \/ \E j \in Jobs : Take(w, j)
         \/ CollectNetwork(w) \/ CollectLighthouse(w) \/ NewContext(w) \/ CollectBrowser(w)
         \/ CollectVitals(w) \/ CloseTab(w) \/ EndRun(w) \/ WriteFinalStatus(w)
         \/ CountJob(w) \/ ObserveDuration(w) \/ WorkerExit(w) \/ Expire(w)
  PROVE  (BrowserShape /\ NoTabIsLeaked)'
<1> USE Typing DEF Typed, Goto, jobs
<1>0. wpc \in [Workers -> {"idle", "tier", "launching", "collecting", "closing",
                           "deriving", "counting", "observing", "exited"}]
      /\ tab \in [Workers -> {"none", "open", "dead"}]
  OBVIOUS
<1>1. ASSUME NEW j \in Jobs, Take(w, j) PROVE (BrowserShape /\ NoTabIsLeaked)'
  <2>1. mgr' = mgr /\ chrome' = chrome /\ tab' = tab /\ wpc' = [wpc EXCEPT ![w] = "tier"]
        /\ wpc[w] = "idle"
    BY <1>1 DEF Take
  <2> QED
    BY <1>0, <2>1, TabFrame DEF NoTabIsLeaked
<1>2. CASE CollectNetwork(w) \/ CollectLighthouse(w)
  <2>1. mgr' = mgr /\ chrome' = chrome /\ tab' = tab /\ wpc' = wpc /\ wpc[w] = "tier"
    BY <1>2 DEF CollectNetwork, CollectLighthouse, Reaches
  <2> QED
    BY <2>1, TabFrame DEF NoTabIsLeaked
<1>3. CASE NewContext(w)
  <2>1. mgr' = mgr /\ chrome' = chrome /\ wpc[w] = "tier" /\ chrome \notin {"none", "starting"}
    BY <1>3 DEF NewContext, Reaches
  <2>2. chrome # "closed"
    BY <2>1 DEF BrowserShape
  <2>3. CASE chrome = "failed"
    <3>1. wpc' = wpc /\ tab' = tab
      BY <1>3, <2>3 DEF NewContext
    <3> QED
      BY <2>1, <3>1, TabFrame DEF NoTabIsLeaked
  <2>4. CASE chrome # "failed"
    <3>1. wpc' = [wpc EXCEPT ![w] = "collecting"] /\ chrome \in {"up", "dead"}
          /\ \E s \in {"open", "dead"} : tab' = [tab EXCEPT ![w] = s]
      BY <1>3, <2>1, <2>2, <2>4 DEF NewContext
    <3> QED
      BY <1>0, <2>1, <3>1, TabFrame
  <2> QED
    BY <2>3, <2>4
<1>4. CASE CollectBrowser(w) \/ CollectVitals(w)
  <2>1. mgr' = mgr /\ chrome' = chrome /\ tab' = tab /\ wpc' = [wpc EXCEPT ![w] = "closing"]
        /\ wpc[w] = "collecting"
    BY <1>4 DEF CollectBrowser, CollectVitals, CollectInTab
  <2> QED
    BY <1>0, <2>1, TabFrame DEF NoTabIsLeaked
<1>5. CASE CloseTab(w)
  <2>1. mgr' = mgr /\ chrome' = chrome /\ tab' = [tab EXCEPT ![w] = "none"]
        /\ wpc' = [wpc EXCEPT ![w] = "tier"] /\ wpc[w] = "closing"
    BY <1>5 DEF CloseTab
  <2> QED
    BY <1>0, <2>1, TabFrame
<1>6. CASE EndRun(w) \/ WriteFinalStatus(w) \/ CountJob(w) \/ ObserveDuration(w) \/ WorkerExit(w)
  <2>1. mgr' = mgr /\ chrome' = chrome /\ tab' = tab
        /\ wpc[w] \notin {"launching", "collecting", "closing", "exited"}
        /\ \E p \in {"tier", "deriving", "counting", "observing", "idle", "exited"} :
             wpc' = [wpc EXCEPT ![w] = p]
    BY <1>0, <1>6 DEF EndRun, WriteFinalStatus, CountJob, ObserveDuration, Release, WorkerExit
  <2> QED
    BY <1>0, <2>1, TabFrame DEF NoTabIsLeaked
<1>7. CASE Expire(w)
  BY <1>7 DEF Expire, BrowserShape, NoTabIsLeaked
<1> QED
  BY <1>1, <1>2, <1>3, <1>4, <1>5, <1>6, <1>7

\* One worker starts the browser, and no tab is open meanwhile.
LEMMA LaunchTabs ==
  ASSUME TypeOK, BrowserShape, NoTabIsLeaked, NEW w \in Workers, StartBrowser(w) \/ Launched(w)
  PROVE  (BrowserShape /\ NoTabIsLeaked)'
<1>0. wpc \in [Workers -> {"idle", "tier", "launching", "collecting", "closing",
                           "deriving", "counting", "observing", "exited"}]
  BY Typing DEF Typed
<1>1. CASE StartBrowser(w)
  <2>1. mgr' = mgr /\ chrome = "none" /\ chrome' = "starting" /\ tab' = tab
        /\ wpc' = [wpc EXCEPT ![w] = "launching"] /\ wpc[w] = "tier"
    BY <1>1 DEF StartBrowser, Reaches, Goto
  <2> QED
    BY <1>0, <2>1 DEF BrowserShape, NoTabIsLeaked
<1>2. CASE Launched(w)
  <2>1. mgr' = mgr /\ chrome' \in {"up", "failed"} /\ tab' = tab
        /\ wpc' = [wpc EXCEPT ![w] = "tier"] /\ wpc[w] = "launching"
    BY <1>2 DEF Launched, Goto
  <2> QED
    BY <1>0, <2>1 DEF BrowserShape, NoTabIsLeaked
<1> QED
  BY <1>1, <1>2

LEMMA ProcessTabs ==
  ASSUME TypeOK, BrowserShape, NoTabIsLeaked, Stop \/ ProcessExits \/ BrowserDies \/ Scrape
  PROVE  (BrowserShape /\ NoTabIsLeaked)'
<1>0. tab \in [Workers -> {"none", "open", "dead"}]
  BY Typing DEF Typed
<1>1. CASE Stop \/ Scrape
  BY <1>1 DEF Stop, Scrape, pool, BrowserShape, NoTabIsLeaked
<1>2. CASE ProcessExits
  BY <1>2 DEF ProcessExits, pool, BrowserShape, NoTabIsLeaked
<1>3. CASE BrowserDies
  BY <1>0, <1>3 DEF BrowserDies, pool, BrowserShape, NoTabIsLeaked
<1> QED
  BY <1>1, <1>2, <1>3

LEMMA TabStep ==
  TypeOK /\ BrowserShape /\ NoTabIsLeaked /\ [Next]_vars => (BrowserShape /\ NoTabIsLeaked)'
<1> SUFFICES ASSUME TypeOK, BrowserShape, NoTabIsLeaked, [Next]_vars
             PROVE  (BrowserShape /\ NoTabIsLeaked)'
  OBVIOUS
<1>1. ASSUME NEW j \in Jobs, Submit(j) PROVE (BrowserShape /\ NoTabIsLeaked)'
  BY <1>1 DEF Submit, pool, BrowserShape, NoTabIsLeaked
<1>2. ASSUME NEW w \in Workers, WorkerStep(w) PROVE (BrowserShape /\ NoTabIsLeaked)'
  BY <1>2, WorkerTabs, LaunchTabs DEF WorkerStep
<1>3. ASSUME NEW w \in Workers, \/ CollectBrowser(w) \/ CollectVitals(w)
                                \/ CountJob(w) \/ ObserveDuration(w) \/ Expire(w)
      PROVE  (BrowserShape /\ NoTabIsLeaked)'
  BY <1>3, WorkerTabs
<1>4. CASE Stop \/ ProcessExits \/ BrowserDies \/ Scrape
  BY <1>4, ProcessTabs
<1>5. CASE UNCHANGED vars
  BY <1>5 DEF vars, pool, BrowserShape, NoTabIsLeaked
<1> QED
  BY <1>1, <1>2, <1>3, <1>4, <1>5 DEF Next

-----------------------------------------------------------------------------
(* The registry                                                            *)

Observing == {w \in Workers : wpc[w] = "observing"}

LEMMA ObservingIsFinite ==
  /\ IsFiniteSet(Observing) /\ Cardinality(Observing) \in Nat
  /\ Cardinality(Observing) <= Cardinality(Workers)
  /\ Cardinality(Workers) \in Nat
<1>1. Observing \subseteq Workers
  BY DEF Observing
<1> QED
  BY <1>1, FS_Subset, FS_CardinalityType

LEMMA InitRegistry == Init => RegistryShape
<1> SUFFICES ASSUME Init PROVE RegistryShape
  OBVIOUS
<1>1. Cardinality({w \in Workers : wpc[w] = "observing"}) = 0
  <2>1. {w \in Workers : wpc[w] = "observing"} = {}
    BY DEF Init
  <2> QED
    BY <2>1, FS_EmptySet
<1>2. jobsTotal \in [Labels -> Nat] /\ Total(jobsTotal) = 0
  BY DEF Init, MetricsInit, Total, Final
<1>3. duration \in [counts : [1..Buckets -> Nat], count : Nat] /\ duration.count = 0
      /\ Cumulative(duration)
  BY DEF Init, MetricsInit, Cumulative
<1>4. scraper # "duration"
  BY DEF Init, MetricsInit
<1> QED
  BY <1>1, <1>2, <1>3, <1>4 DEF RegistryShape

\* A step that is none of a metric's: the same workers are between the updates.
LEMMA RegistryFrame ==
  ASSUME RegistryShape, UNCHANGED <<registry, scrape>>,
         \A w \in Workers : wpc'[w] = "observing" <=> wpc[w] = "observing"
  PROVE  RegistryShape'
<1>1. {w \in Workers : wpc[w] = "observing"}' = {w \in Workers : wpc[w] = "observing"}
  OBVIOUS
<1>2. UNCHANGED <<jobsTotal, duration, mu, scraper, page>>
  BY DEF registry, scrape
<1> QED
  BY <1>1, <1>2 DEF RegistryShape, Cumulative, Total

LEMMA CountRegistry ==
  ASSUME TypeOK, RegistryShape, NEW w \in Workers, final[w] \in Final, CountJob(w)
  PROVE  RegistryShape'
<1>1. /\ mu = "free" /\ wpc[w] = "counting" /\ wpc' = [wpc EXCEPT ![w] = "observing"]
      /\ jobsTotal' = [jobsTotal EXCEPT ![final[w]] = jobsTotal[final[w]] + 1]
      /\ UNCHANGED <<duration, mu, scraper, page>>
  BY DEF CountJob, CounterInc, Goto, scrape
<1>2. jobsTotal \in [Final -> Nat]
  BY DEF RegistryShape
<1>3. jobsTotal' \in [Labels -> Nat] /\ Total(jobsTotal') = Total(jobsTotal) + 1
  <2>1. PICK s \in Final : s = final[w] /\ jobsTotal' = [jobsTotal EXCEPT ![s] = jobsTotal[s] + 1]
    BY <1>1
  <2>2. jobsTotal' \in [Final -> Nat] /\ jobsTotal'[s] = jobsTotal[s] + 1
    BY <1>2, <2>1
  <2>3. \A u \in Final \ {s} : jobsTotal'[u] = jobsTotal[u]
    BY <1>2, <2>1
  <2>4. \A u \in Final : jobsTotal[u] \in Nat
    BY <1>2
  <2>5. Final = {"COMPLETED", "PARTIAL", "FAILED"} /\ Labels = Final
    BY DEF Final
  <2>6. CASE s = "COMPLETED"
    BY ONLY <2>2, <2>3, <2>4, <2>5, <2>6 DEF Total
  <2>7. CASE s = "PARTIAL"
    BY ONLY <2>2, <2>3, <2>4, <2>5, <2>7 DEF Total
  <2>8. CASE s = "FAILED"
    BY ONLY <2>2, <2>3, <2>4, <2>5, <2>8 DEF Total
  <2> QED
    BY ONLY s \in Final, <2>5, <2>6, <2>7, <2>8
<1>4. Observing' = Observing \cup {w} /\ w \notin Observing
  BY <1>1, Typing DEF Observing, Typed
<1>5. Cardinality(Observing') = Cardinality(Observing) + 1
  BY <1>4, ObservingIsFinite, FS_AddElement
<1>6. Total(jobsTotal') = duration'.count + Cardinality(Observing')
  <2>1. Total(jobsTotal) = duration.count + Cardinality(Observing) /\ duration.count \in Nat
    BY DEF RegistryShape, Observing
  <2> QED
    BY <1>1, <1>3, <1>5, <2>1, ObservingIsFinite
<1>7. scraper' # "duration" /\ Cumulative(duration)'
      /\ duration' \in [counts : [1..Buckets -> Nat], count : Nat]
  BY <1>1 DEF RegistryShape, Cumulative
<1> QED
  BY <1>3, <1>6, <1>7 DEF RegistryShape, Observing, Total

\* The bucket a value falls into and those above take it, so each still has what
\* the one below has.
LEMMA ObserveKeepsCumulative ==
  ASSUME duration \in [counts : [1..Buckets -> Nat], count : Nat], Cumulative(duration),
         NEW v \in 1..Buckets + 1, Observe(v)
  PROVE  /\ duration' \in [counts : [1..Buckets -> Nat], count : Nat]
         /\ duration'.count = duration.count + 1
         /\ Cumulative(duration)'
<1> DEFINE add(i) == IF v <= i THEN 1 ELSE 0
<1>1. duration' = [counts |-> [i \in 1..Buckets |-> duration.counts[i] + add(i)],
                   count |-> duration.count + 1]
  BY DEF Observe
<1>2. \A i \in 1..Buckets : duration.counts[i] \in Nat /\ add(i) \in Nat
                            /\ duration'.counts[i] = duration.counts[i] + add(i)
  BY <1>1
<1>3. duration.count \in Nat /\ duration'.count = duration.count + 1
  BY <1>1
<1>4. \A i \in 1..Buckets : i # Buckets => i + 1 \in 1..Buckets /\ add(i) <= add(i + 1)
  OBVIOUS
<1>5. \A i \in 1..Buckets : add(i) <= 1
  OBVIOUS
<1>6. duration' \in [counts : [1..Buckets -> Nat], count : Nat]
  BY <1>1, <1>2, <1>3
<1> HIDE DEF add
<1>7. ASSUME NEW i \in 1..Buckets
      PROVE  duration'.counts[i] <= IF i = Buckets THEN duration'.count ELSE duration'.counts[i + 1]
  <2>1. CASE i = Buckets
    BY <1>2, <1>3, <1>5, <2>1 DEF Cumulative
  <2>2. CASE i # Buckets
    <3>1. duration.counts[i] <= duration.counts[i + 1]
      BY <2>2 DEF Cumulative
    <3>2. i + 1 \in 1..Buckets /\ add(i) <= add(i + 1)
      BY <1>4, <2>2
    <3>3. /\ duration.counts[i] \in Nat /\ duration.counts[i + 1] \in Nat
          /\ add(i) \in Nat /\ add(i + 1) \in Nat
          /\ duration'.counts[i] = duration.counts[i] + add(i)
          /\ duration'.counts[i + 1] = duration.counts[i + 1] + add(i + 1)
      BY <1>2, <3>2
    <3> QED
      BY <2>2, <3>1, <3>2, <3>3
  <2> QED
    BY <2>1, <2>2
<1> QED
  BY <1>3, <1>6, <1>7 DEF Cumulative

LEMMA ObserveRegistry ==
  ASSUME TypeOK, RegistryShape, NEW w \in Workers, ObserveDuration(w)
  PROVE  RegistryShape'
<1>0. PICK v \in 1..Buckets + 1 : Observe(v)
  BY DEF ObserveDuration
<1>1. /\ mu = "free" /\ wpc[w] = "observing" /\ wpc' = [wpc EXCEPT ![w] = "idle"]
      /\ UNCHANGED <<jobsTotal, mu, scraper, page>>
  BY <1>0 DEF ObserveDuration, Observe, Release, Goto, scrape
<1>2. /\ duration' \in [counts : [1..Buckets -> Nat], count : Nat]
      /\ duration'.count = duration.count + 1
      /\ Cumulative(duration)'
  BY <1>0, ObserveKeepsCumulative DEF RegistryShape
<1>3. Observing' = Observing \ {w} /\ w \in Observing
  BY <1>1, Typing DEF Observing, Typed
<1>4. Cardinality(Observing') = Cardinality(Observing) - 1
  BY <1>3, ObservingIsFinite, FS_RemoveElement
<1>5. Total(jobsTotal') = duration'.count + Cardinality(Observing')
  <2>1. Total(jobsTotal) = duration.count + Cardinality(Observing) /\ duration.count \in Nat
    BY DEF RegistryShape, Observing
  <2>2. Total(jobsTotal') = Total(jobsTotal)
    BY <1>1
  <2>3. Cardinality(Observing) \in Nat
    BY ObservingIsFinite
  <2>4. duration.count + Cardinality(Observing) = (duration.count + 1) + (Cardinality(Observing) - 1)
    BY <2>1, <2>3
  <2> QED
    BY <1>2, <1>4, <2>1, <2>2, <2>4
<1>6. scraper' # "duration" /\ jobsTotal' \in [Labels -> Nat]
  BY <1>1 DEF RegistryShape
<1> QED
  BY <1>2, <1>5, <1>6 DEF RegistryShape, Observing, Total

LEMMA ScrapeRegistry == ASSUME RegistryShape, Scrape PROVE RegistryShape'
<1>1. UNCHANGED <<wpc, jobsTotal, duration>>
  BY DEF Scrape, WriteTotal, WriteDuration, registry, pool
<1>2. scraper' = "duration" => mu' = "scrape" /\ page' = jobsTotal'
  BY <1>1 DEF Scrape, WriteTotal, WriteDuration
<1>3. Total(jobsTotal)' = Total(jobsTotal) /\ (Cumulative(duration)' <=> Cumulative(duration))
  BY <1>1 DEF Total, Cumulative
<1>4. {w \in Workers : wpc[w] = "observing"}' = {w \in Workers : wpc[w] = "observing"}
  BY <1>1
<1> QED
  BY <1>1, <1>2, <1>3, <1>4 DEF RegistryShape

\* The label of a job that is counted is a final status.
Counted == \A w \in Workers : wpc[w] = "counting" => final[w] \in Final

LEMMA RegistryStep == TypeOK /\ Counted /\ RegistryShape /\ [Next]_vars => RegistryShape'
<1> SUFFICES ASSUME TypeOK, Counted, RegistryShape, [Next]_vars PROVE RegistryShape'
  OBVIOUS
<1> USE DEF Goto, jobs, pool
<1>0. wpc \in [Workers -> {"idle", "tier", "launching", "collecting", "closing",
                           "deriving", "counting", "observing", "exited"}]
  BY Typing DEF Typed
<1>1. ASSUME NEW j \in Jobs, Submit(j) PROVE RegistryShape'
  BY <1>1, RegistryFrame DEF Submit
<1>2. ASSUME NEW w \in Workers, WorkerStep(w) PROVE RegistryShape'
  <2>1. UNCHANGED <<registry, scrape>>
    BY <1>2 DEF WorkerStep, Take, CollectNetwork, CollectLighthouse, StartBrowser, Launched,
       NewContext, CloseTab, EndRun, WriteFinalStatus, WorkerExit
  <2>2. wpc[w] # "observing" /\ (wpc' = wpc \/ \E p \in {"tier", "launching", "collecting",
          "deriving", "counting", "exited"} : wpc' = [wpc EXCEPT ![w] = p])
    BY <1>2 DEF WorkerStep, Take, CollectNetwork, CollectLighthouse, StartBrowser, Launched,
       NewContext, CloseTab, EndRun, WriteFinalStatus, WorkerExit, Reaches
  <2> QED
    BY <1>0, <2>1, <2>2, RegistryFrame
<1>3. ASSUME NEW w \in Workers, CollectBrowser(w) \/ CollectVitals(w) PROVE RegistryShape'
  BY <1>0, <1>3, RegistryFrame DEF CollectBrowser, CollectVitals, CollectInTab
<1>4. ASSUME NEW w \in Workers, Expire(w) PROVE RegistryShape'
  BY <1>4, RegistryFrame DEF Expire
<1>5. ASSUME NEW w \in Workers, CountJob(w) PROVE RegistryShape'
  <2>1. final[w] \in Final
    BY <1>5 DEF CountJob, Counted
  <2> QED
    BY <1>5, <2>1, CountRegistry
<1>6. ASSUME NEW w \in Workers, ObserveDuration(w) PROVE RegistryShape'
  BY <1>6, ObserveRegistry
<1>7. CASE Stop \/ ProcessExits \/ BrowserDies
  BY <1>7, RegistryFrame DEF Stop, ProcessExits, BrowserDies
<1>8. CASE Scrape
  BY <1>8, ScrapeRegistry
<1>9. CASE UNCHANGED vars
  BY <1>9, RegistryFrame DEF vars
<1> QED
  BY <1>1, <1>2, <1>3, <1>4, <1>5, <1>6, <1>7, <1>8, <1>9 DEF Next

LEMMA RegistryAgrees == RegistryShape => ScrapesAgree
<1> SUFFICES ASSUME RegistryShape, scraper = "duration" PROVE ScrapesAgree
  BY DEF ScrapesAgree
<1>1. page = jobsTotal /\ Cumulative(duration) /\ duration.count \in Nat
      /\ Total(jobsTotal) = duration.count + Cardinality(Observing)
  BY DEF RegistryShape, Observing
<1>2. duration.count <= Total(page) /\ Total(page) <= duration.count + Cardinality(Workers)
  BY <1>1, ObservingIsFinite
<1> QED
  BY <1>1, <1>2 DEF ScrapesAgree

-----------------------------------------------------------------------------
(* Jobs and the workers that hold them                                     *)

\* What IndInv says of one job and of one worker, and of both together.
JobPart(j) == JobShape(j) /\ (row[j] \in Final => StatusFits(j))
WorkerPart(w) == HandShape(w) /\ RunShape(w) /\ TallyShape(w)

JobsInv == (\A j \in Jobs : JobPart(j)) /\ (\A w \in Workers : WorkerPart(w)) /\ OneHand

LEMMA IndInvByPart ==
  IndInv <=> TypeOK /\ JobsInv /\ BrowserShape /\ NoTabIsLeaked /\ RegistryShape
BY DEF IndInv, JobsInv, JobPart, WorkerPart, StatusIsWhatTheTiersDid

LEMMA InitJobs == Init => JobsInv
<1> SUFFICES ASSUME Init PROVE JobsInv
  OBVIOUS
<1>1. ASSUME NEW j \in Jobs PROVE JobPart(j)
  BY <1>1 DEF Init, JobPart, JobShape, OnlyAsked, Final
<1>2. ASSUME NEW w \in Workers PROVE WorkerPart(w) /\ ~InJob(w)
  BY <1>2 DEF Init, WorkerPart, HandShape, RunShape, TallyShape, InJob, InRun
<1> QED
  BY <1>1, <1>2 DEF JobsInv, OneHand

\* A job whose row, request and results stay.
LEMMA JobFrame ==
  ASSUME NEW j \in Jobs, JobPart(j), row'[j] = row[j], request'[j] = request[j],
         results'[j] = results[j]
  PROVE  JobPart(j)'
BY DEF JobPart, JobShape, StatusFits, OnlyAsked, EveryRun, FailedIn

\* A worker that stays where it is, with what it holds.
Stays(v) == /\ wpc'[v] = wpc[v] /\ wjob'[v] = wjob[v] /\ run'[v] = run[v]
            /\ tally'[v] = tally[v] /\ final'[v] = final[v]

LEMMA WorkerFrame ==
  ASSUME NEW v \in Workers, WorkerPart(v), Stays(v), mgr' = "up" => mgr = "up",
         InJob(v) => /\ row'[wjob[v]] = row[wjob[v]] /\ request'[wjob[v]] = request[wjob[v]]
                     /\ results'[wjob[v]] = results[wjob[v]]
  PROVE  WorkerPart(v)' /\ (InJob(v)' <=> InJob(v))
<1>1. (InJob(v)' <=> InJob(v)) /\ (InRun(v)' <=> InRun(v)) /\ (InRun(v) => InJob(v))
  BY DEF Stays, InJob, InRun
<1>2. HandShape(v)'
  BY <1>1 DEF Stays, WorkerPart, HandShape
<1>3. RunShape(v)'
  BY <1>1 DEF Stays, WorkerPart, RunShape, TabTier
<1>4. TallyShape(v)'
  BY <1>1 DEF Stays, WorkerPart, TallyShape, EveryRun, FailedIn
<1> QED
  BY <1>1, <1>2, <1>3, <1>4 DEF WorkerPart

\* A step of worker w that touches no row, no request and no result.
LEMMA OwnStep ==
  ASSUME JobsInv, NEW w \in Workers, UNCHANGED <<row, request, results, mgr>>,
         \A v \in Workers \ {w} : Stays(v),
         InJob(w)' => InJob(w) /\ wjob'[w] = wjob[w],
         WorkerPart(w)'
  PROVE  JobsInv'
<1>1. \A j \in Jobs : JobPart(j)'
  BY JobFrame DEF JobsInv
<1>2. \A v \in Workers \ {w} : WorkerPart(v)' /\ (InJob(v)' <=> InJob(v))
  BY WorkerFrame DEF JobsInv
<1>3. OneHand'
  BY <1>2 DEF JobsInv, OneHand, Stays
<1> QED
  BY <1>1, <1>2, <1>3 DEF JobsInv

\* A step of worker w within a run: what matters is the record.
LEMMA InRunStep ==
  ASSUME JobsInv, NEW w \in Workers, InRun(w), InRun(w)',
         UNCHANGED <<row, request, results, mgr, wjob, tally, final>>,
         \A v \in Workers \ {w} : wpc'[v] = wpc[v] /\ run'[v] = run[v],
         run'[w].n = run[w].n,
         RunShape(w)'
  PROVE  JobsInv'
<1>1. InJob(w) /\ InJob(w)'
  BY DEF InJob
<1>2. HandShape(w)'
  BY <1>1 DEF JobsInv, WorkerPart, HandShape, InRun
<1>3. TallyShape(w)'
  <2>1. /\ wjob' = wjob /\ request' = request /\ results' = results /\ mgr' = mgr
        /\ tally' = tally /\ run'[w].n = run[w].n
    OBVIOUS
  <2>2. TallyShape(w)
    BY DEF JobsInv, WorkerPart
  <2> QED
    BY ONLY <1>1, <2>1, <2>2, InRun(w), InRun(w)' DEF TallyShape, EveryRun, FailedIn
<1>4. \A v \in Workers \ {w} : Stays(v)
  BY DEF Stays
<1> QED
  BY <1>1, <1>2, <1>3, <1>4, OwnStep DEF WorkerPart

\* A tier that ends is no longer to do, and among the failed ones when it brought
\* no data.
LEMMA OutcomeShape ==
  ASSUME TypeOK, NEW w \in Workers, NEW t \in TierNames, NEW o \in Outcomes, Outcome(w, t, o),
         t \in run[w].todo, InRun(w), RunShape(w), UNCHANGED <<wjob, request>>,
         wpc'[w] # "collecting", Asked(request[wjob[w]]) \subseteq TierNames
  PROVE  RunShape(w)'
<1> DEFINE asked == Asked(request[wjob[w]])
<1>1. /\ run[w].n \in 1..Runs(request[wjob[w]])
      /\ run[w].todo \subseteq asked
      /\ run[w].failed = {u \in asked \ run[w].todo : run[w].rec[u] # "data"}
      /\ \A u \in TierNames \ asked : run[w].rec[u] = "none"
  BY DEF RunShape
<1>2. /\ run'[w].n = run[w].n
      /\ run'[w].todo = run[w].todo \ {t}
      /\ run'[w].failed = IF o = "data" THEN run[w].failed ELSE run[w].failed \cup {t}
      /\ run'[w].rec[t] = o
      /\ \A u \in TierNames \ {t} : run'[w].rec[u] = run[w].rec[u]
  BY ONLY TypeOK, w \in Workers, t \in TierNames, o \in Outcomes, Outcome(w, t, o), OutcomeStep
<1>3. asked' = asked /\ run'[w].n \in 1..Runs(request'[wjob'[w]])
  BY <1>1, <1>2
<1>6. asked \subseteq TierNames
  OBVIOUS
<1> HIDE DEF asked
<1>4. run'[w].todo \subseteq asked /\ t \in asked
  BY <1>1, <1>2
<1>5. ASSUME NEW u
      PROVE  u \in run'[w].failed <=> u \in asked \ run'[w].todo /\ run'[w].rec[u] # "data"
  <2>1. CASE u = t
    BY <1>1, <1>2, <1>4, <2>1
  <2>2. CASE u # t
    <3>1. u \in run'[w].failed <=> u \in run[w].failed
      BY <1>2, <2>2
    <3>2. u \in asked \ run'[w].todo <=> u \in asked \ run[w].todo
      BY <1>2, <2>2
    <3>3. u \in asked => run'[w].rec[u] = run[w].rec[u]
      BY <1>2, <1>6, <2>2
    <3> QED
      BY <1>1, <3>1, <3>2, <3>3
  <2> QED
    BY <2>1, <2>2
<1> QED
  BY <1>1, <1>2, <1>3, <1>4, <1>5 DEF RunShape, asked

\* What is known of the job in a worker's hands.
LEMMA HeldJob ==
  ASSUME TypeOK, JobsInv, NEW w \in Workers, InJob(w)
  PROVE  LET r == request[wjob[w]] IN
         /\ wjob[w] \in Jobs /\ row[wjob[w]] = "RUNNING"
         /\ r \in Requested /\ validate(r)
         /\ Asked(r) # {} /\ Asked(r) \subseteq TierNames
         /\ {t \in TierNames : hasTier(r, t)} = Asked(r)
<1>1. wjob[w] \in Jobs /\ row[wjob[w]] = "RUNNING"
  BY DEF JobsInv, WorkerPart, HandShape
<1>2. request[wjob[w]] \in Requested
  BY <1>1, Typing DEF Typed
<1>3. validate(request[wjob[w]])
  BY <1>1 DEF JobsInv, JobPart, JobShape
<1> QED
  BY <1>1, <1>2, <1>3, AskedTiers

LEMMA CollectJobs ==
  ASSUME TypeOK, JobsInv, NEW w \in Workers,
         \/ CollectNetwork(w) \/ CollectLighthouse(w) \/ NewContext(w)
         \/ CollectBrowser(w) \/ CollectVitals(w)
  PROVE  JobsInv'
<1>0. wpc \in [Workers -> {"idle", "tier", "launching", "collecting", "closing",
                           "deriving", "counting", "observing", "exited"}]
  BY Typing DEF Typed
<1>1. InRun(w) /\ InJob(w) /\ RunShape(w)
  BY DEF CollectNetwork, CollectLighthouse, NewContext, CollectBrowser, CollectVitals,
     CollectInTab, Reaches, InRun, InJob, JobsInv, WorkerPart
<1>2. UNCHANGED <<row, request, results, mgr, wjob, tally, final>>
  BY DEF CollectNetwork, CollectLighthouse, NewContext, CollectBrowser, CollectVitals,
     CollectInTab, jobs
<1>3. Asked(request[wjob[w]]) \subseteq TierNames
  BY <1>1, HeldJob
<1>4. ASSUME NEW t \in TierNames, NEW o \in Outcomes, Outcome(w, t, o), t \in run[w].todo,
             wpc' \in {wpc, [wpc EXCEPT ![w] = "closing"]}, wpc'[w] \in {"tier", "closing"}
      PROVE  JobsInv'
  <2>1. RunShape(w)'
    BY <1>1, <1>2, <1>3, <1>4, OutcomeShape
  <2>2. run'[w].n = run[w].n /\ \A v \in Workers \ {w} : wpc'[v] = wpc[v] /\ run'[v] = run[v]
    BY <1>0, <1>4, OutcomeStep
  <2>3. InRun(w)'
    BY <1>4 DEF InRun
  <2> QED
    BY <1>1, <1>2, <2>1, <2>2, <2>3, InRunStep
<1>5. CASE CollectNetwork(w) \/ CollectLighthouse(w)
  <2>1. PICK t \in TierNames, o \in Outcomes : Outcome(w, t, o) /\ Reaches(w, t)
    BY <1>5, TierFacts DEF CollectNetwork, CollectLighthouse, Outcomes
  <2>2. wpc' = wpc /\ wpc[w] = "tier" /\ t \in run[w].todo
    BY <1>5, <2>1 DEF CollectNetwork, CollectLighthouse, Reaches
  <2> QED
    BY <1>4, <2>1, <2>2
<1>6. CASE NewContext(w)
  <2>1. PICK t \in TabTiers :
          /\ Reaches(w, t)
          /\ \/ Outcome(w, t, "none") /\ UNCHANGED wpc
             \/ Goto(w, "collecting") /\ UNCHANGED run
    BY <1>6 DEF NewContext
  <2>2. t \in TierNames /\ wpc[w] = "tier" /\ t \in run[w].todo /\ TabTier(w) = t
    BY <2>1, TierFacts, OrderOfTabs DEF Reaches
  <2>3. CASE Outcome(w, t, "none") /\ UNCHANGED wpc
    BY <1>4, <2>2, <2>3 DEF Outcomes
  <2>4. CASE Goto(w, "collecting") /\ UNCHANGED run
    <3>1. wpc'[w] = "collecting" /\ \A v \in Workers \ {w} : wpc'[v] = wpc[v]
      BY <1>0, <2>4 DEF Goto
    <3>2. TabTier(w)' = t
      BY <2>2, <2>4 DEF TabTier
    <3>3. RunShape(w)' /\ InRun(w)'
      BY <1>1, <1>2, <2>2, <2>4, <3>1, <3>2 DEF RunShape, InRun
    <3> QED
      BY <1>1, <1>2, <2>4, <3>1, <3>3, InRunStep
  <2> QED
    BY <2>1, <2>3, <2>4
<1>7. CASE CollectBrowser(w) \/ CollectVitals(w)
  <2>1. PICK t \in TabTiers, o \in Outcomes :
          /\ wpc[w] = "collecting" /\ TabTier(w) = t
          /\ Outcome(w, t, o) /\ Goto(w, "closing")
    BY <1>7 DEF CollectBrowser, CollectVitals, CollectInTab, TabTiers, Outcomes
  <2>2. t \in run[w].todo /\ t \in TierNames
    BY <1>1, <2>1, TierFacts DEF RunShape
  <2>3. wpc' = [wpc EXCEPT ![w] = "closing"] /\ wpc'[w] = "closing"
    BY <1>0, <2>1 DEF Goto
  <2> QED
    BY <1>4, <2>1, <2>2, <2>3
<1> QED
  BY <1>5, <1>6, <1>7

LEMMA BrowserStepJobs ==
  ASSUME TypeOK, JobsInv, NEW w \in Workers, StartBrowser(w) \/ Launched(w) \/ CloseTab(w)
  PROVE  JobsInv'
<1>0. wpc \in [Workers -> {"idle", "tier", "launching", "collecting", "closing",
                           "deriving", "counting", "observing", "exited"}]
  BY Typing DEF Typed
<1>1. /\ UNCHANGED <<row, request, results, mgr, wjob, run, tally, final>>
      /\ InRun(w)
      /\ \E p \in {"launching", "tier"} : wpc' = [wpc EXCEPT ![w] = p]
  BY DEF StartBrowser, Launched, CloseTab, Reaches, Goto, InRun, jobs
<1>2. InRun(w)' /\ wpc'[w] # "collecting" /\ \A v \in Workers \ {w} : wpc'[v] = wpc[v]
  BY <1>0, <1>1 DEF InRun
<1>3. RunShape(w)'
  BY <1>1, <1>2 DEF JobsInv, WorkerPart, RunShape
<1> QED
  BY <1>1, <1>2, <1>3, InRunStep

LEMMA ExpireJobs == ASSUME TypeOK, JobsInv, NEW w \in Workers, Expire(w) PROVE JobsInv'
<1>1. run \in [Workers -> RunRecord]
  BY Typing DEF Typed
<1>2. run[w] \in RunRecord
  BY <1>1
<1>3. /\ run' = [run EXCEPT ![w] = [run[w] EXCEPT !.expired = TRUE]]
      /\ UNCHANGED <<row, request, results, mgr, wpc, wjob, tally, final>>
  BY DEF Expire, jobs
<1>4. /\ run'[w].n = run[w].n /\ run'[w].todo = run[w].todo /\ run'[w].rec = run[w].rec
      /\ run'[w].failed = run[w].failed
      /\ \A v \in Workers \ {w} : run'[v] = run[v]
  BY <1>1, <1>2, <1>3 DEF RunRecord
<1>5. (InRun(w)' <=> InRun(w)) /\ (InJob(w)' <=> InJob(w))
  BY <1>3 DEF InRun, InJob
<1>6. HandShape(w)'
  BY <1>3, <1>5 DEF JobsInv, WorkerPart, HandShape
<1>7. RunShape(w)'
  BY <1>3, <1>4, <1>5 DEF JobsInv, WorkerPart, RunShape, TabTier
<1>8. TallyShape(w)'
  BY <1>3, <1>4, <1>5 DEF JobsInv, WorkerPart, TallyShape, EveryRun, FailedIn
<1> QED
  BY <1>3, <1>4, <1>5, <1>6, <1>7, <1>8, OwnStep DEF WorkerPart, Stays

LEMMA SubmitJobs == ASSUME TypeOK, JobsInv, NEW j \in Jobs, Submit(j) PROVE JobsInv'
<1>1. /\ row[j] = "none" /\ UNCHANGED <<mgr, results, wpc, wjob, run, tally, final>>
      /\ row'[j] \in {"PENDING", "refused"}
      /\ row'[j] = "PENDING" => validate(request'[j])
      /\ \A i \in Jobs \ {j} : row'[i] = row[i] /\ request'[i] = request[i]
  <2>1. row \in [Jobs -> {"none", "refused", "PENDING", "RUNNING"} \cup Final]
        /\ request \in [Jobs -> Requested]
    BY Typing DEF Typed
  <2> QED
    BY <2>1 DEF Submit, pool
<1>2. \A i \in Jobs \ {j} : JobPart(i)'
  BY <1>1, JobFrame DEF JobsInv
<1>3. JobPart(j)'
  <2>1. results[j] = <<>>
    BY <1>1 DEF JobsInv, JobPart, JobShape
  <2> QED
    BY <1>1, <2>1 DEF JobPart, JobShape, OnlyAsked, Final
<1>4. ASSUME NEW v \in Workers PROVE WorkerPart(v)' /\ (InJob(v)' <=> InJob(v))
  <2>1. InJob(v) => wjob[v] \in Jobs \ {j}
    BY <1>1 DEF JobsInv, WorkerPart, HandShape
  <2> QED
    BY <1>1, <2>1, WorkerFrame DEF JobsInv, Stays
<1>5. OneHand'
  BY <1>1, <1>4 DEF JobsInv, OneHand
<1> QED
  BY <1>2, <1>3, <1>4, <1>5 DEF JobsInv

\* A job that is taken is in no other worker's hands: it was not RUNNING.
LEMMA TakeJobs ==
  ASSUME TypeOK, JobsInv, BrowserShape, NEW w \in Workers, NEW j \in Jobs, Take(w, j)
  PROVE  JobsInv'
<1>1. /\ mgr = "up" /\ wpc[w] = "idle" /\ row[j] = "PENDING"
      /\ UNCHANGED <<mgr, request, results, tally, final>>
      /\ row'[j] = "RUNNING" /\ wjob'[w] = j /\ wpc'[w] = "tier"
      /\ \A i \in Jobs \ {j} : row'[i] = row[i]
      /\ \A v \in Workers \ {w} : wjob'[v] = wjob[v] /\ wpc'[v] = wpc[v]
  BY Typing DEF Take, StoreFails, Goto, Typed
<1>2. /\ \A v \in Workers \ {w} : run'[v] = run[v]
      /\ run'[w].n = 1
      /\ run'[w].todo = {t \in TierNames : hasTier(request[j], t)}
      /\ run'[w].failed = {} /\ run'[w].rec = Empty
  BY <1>1, NextRunType DEF Take
<1>3. JobPart(j)
  BY DEF JobsInv
<1>4. /\ request[j] \in Requested /\ validate(request[j]) /\ results[j] = <<>>
  BY <1>1, <1>3, Typing DEF Typed, JobPart, JobShape
<1>5. /\ Asked(request[j]) \subseteq TierNames
      /\ run'[w].todo = Asked(request[j])
      /\ Runs(request[j]) \in Nat \ {0}
  BY <1>2, <1>4, AskedTiers, RunsOfRequest
<1>6. JobPart(j)'
  BY <1>1, <1>4 DEF JobPart, JobShape, OnlyAsked, Final
<1>7. \A i \in Jobs \ {j} : JobPart(i)'
  BY <1>1, JobFrame DEF JobsInv
<1>8. ASSUME NEW v \in Workers \ {w}
      PROVE  WorkerPart(v)' /\ (InJob(v)' <=> InJob(v)) /\ (InJob(v) => wjob'[v] # j)
  <2>1. InJob(v) => wjob[v] \in Jobs \ {j}
    BY <1>1 DEF JobsInv, WorkerPart, HandShape
  <2> QED
    BY <1>1, <1>2, <2>1, WorkerFrame DEF JobsInv, Stays
<1>9. WorkerPart(w)'
  <2>1. InRun(w)' /\ InJob(w)'
    BY <1>1 DEF InRun, InJob
  <2>2. HandShape(w)'
    BY <1>1 DEF HandShape
  <2>3. RunShape(w)'
    BY <1>1, <1>2, <1>5 DEF RunShape, Empty
  <2>4. tally[w] = NoTally
    BY <1>1 DEF JobsInv, WorkerPart, HandShape
  <2>5. TallyShape(w)'
    BY <1>1, <1>2, <1>4, <2>1, <2>4 DEF TallyShape, NoTally, EveryRun
  <2> QED
    BY <2>2, <2>3, <2>5 DEF WorkerPart
<1>10. OneHand'
  BY <1>1, <1>8 DEF JobsInv, OneHand
<1> QED
  BY <1>6, <1>7, <1>8, <1>9, <1>10 DEF JobsInv

\* The tiers without data in a record, whether they are these in every record of
\* a sequence, and whether there is nothing but what was asked for.
Missing(asked, rec) == {t \in asked : rec[t] # "data"}
AlwaysMissing(s, asked, tiers) == \A i \in 1..Len(s) : Missing(asked, s[i]) = tiers
NothingElse(s, asked) == \A i \in 1..Len(s) : \A t \in TierNames \ asked : s[i][t] = "none"

\* With one more record, it is so when it was and is so of the new one.
LEMMA OneMoreResult ==
  ASSUME NEW s \in Seq([TierNames -> Outcomes]), NEW rec \in [TierNames -> Outcomes],
         NEW asked, NEW tiers
  PROVE  /\ Len(s) \in Nat /\ Len(Append(s, rec)) = Len(s) + 1
         /\ AlwaysMissing(Append(s, rec), asked, tiers) <=>
              AlwaysMissing(s, asked, tiers) /\ Missing(asked, rec) = tiers
         /\ NothingElse(s, asked) /\ (\A t \in TierNames \ asked : rec[t] = "none")
              => NothingElse(Append(s, rec), asked)
<1> DEFINE n == Len(s)
           more == Append(s, rec)
<1>1. n \in Nat /\ Len(more) = n + 1 /\ more[n + 1] = rec /\ \A i \in 1..n : more[i] = s[i]
  OBVIOUS
<1>2. 1..Len(more) = 1..n \cup {n + 1}
  BY <1>1
<1> HIDE DEF n, more
<1>3. AlwaysMissing(more, asked, tiers) <=>
        (\A i \in 1..n : Missing(asked, s[i]) = tiers) /\ Missing(asked, rec) = tiers
  BY <1>1, <1>2 DEF AlwaysMissing
<1>4. NothingElse(s, asked) /\ (\A t \in TierNames \ asked : rec[t] = "none")
        => NothingElse(more, asked)
  BY <1>1, <1>2 DEF NothingElse, n
<1> QED
  BY <1>1, <1>3, <1>4 DEF n, more, AlwaysMissing

LEMMA RunsOfRows ==
  ASSUME NEW j \in Jobs, NEW tiers
  PROVE  /\ EveryRun(j, tiers) <=> AlwaysMissing(results[j], Asked(request[j]), tiers)
         /\ EveryRun(j, tiers)' <=> AlwaysMissing(results'[j], Asked(request'[j]), tiers)
         /\ OnlyAsked(j) <=> NothingElse(results[j], Asked(request[j]))
         /\ OnlyAsked(j)' <=> NothingElse(results'[j], Asked(request'[j]))
BY DEF EveryRun, AlwaysMissing, OnlyAsked, NothingElse, FailedIn, Missing

LEMMA EndRunJobs ==
  ASSUME TypeOK, JobsInv, BrowserShape, NEW w \in Workers, EndRun(w)
  PROVE  JobsInv'
<1>0. PICK j, asked, rec : j = wjob[w] /\ asked = Asked(request[j]) /\ rec = run[w].rec
  OBVIOUS
<1> USE <1>0
<1>1. wpc[w] = "tier" /\ run[w].todo = {} /\ InRun(w) /\ InJob(w) /\ mgr # "down"
  BY DEF EndRun, InRun, InJob, BrowserShape
<1>2. /\ j \in Jobs /\ row[j] = "RUNNING" /\ request[j] \in Requested /\ asked # {}
      /\ asked \subseteq TierNames /\ {t \in TierNames : hasTier(request[j], t)} = asked
  BY <1>1, HeldJob
<1>3. UNCHANGED <<mgr, row, request, wjob, final>>
  BY DEF EndRun
<1>4. /\ run[w] \in RunRecord /\ rec \in [TierNames -> Outcomes]
      /\ results \in [Jobs -> Seq([TierNames -> Outcomes])]
  BY Typing DEF Typed, RunRecord
<1>5. /\ run[w].n \in 1..Runs(request[j])
      /\ run[w].failed = {t \in asked : rec[t] # "data"}
      /\ \A t \in TierNames \ asked : rec[t] = "none"
  BY <1>1 DEF JobsInv, WorkerPart, RunShape
<1>6. tally' = [tally EXCEPT ![w] = Count(tally[w], asked, run[w].failed)]
  BY <1>2 DEF EndRun
<1>7. tally \in [Workers -> [clean : Nat, failed : Nat]]
      /\ wpc \in [Workers -> {"idle", "tier", "launching", "collecting", "closing",
                              "deriving", "counting", "observing", "exited"}]
  BY Typing DEF Typed
<1>8. /\ \A v \in Workers \ {w} : Stays(v)
      /\ \/ /\ run[w].n = Runs(request[j]) /\ wpc'[w] = "deriving"
         \/ /\ run[w].n # Runs(request[j]) /\ wpc'[w] = "tier"
            /\ run'[w].n = run[w].n + 1 /\ run'[w].todo = asked
            /\ run'[w].failed = {} /\ run'[w].rec = Empty
  <2>1. CASE run[w].n = Runs(request[j])
    <3>1. wpc' = [wpc EXCEPT ![w] = "deriving"] /\ run' = [run EXCEPT ![w] = NoRun]
      BY <2>1 DEF EndRun, Goto
    <3> QED
      BY <1>3, <1>6, <1>7, <2>1, <3>1, Typing DEF Stays, Typed
  <2>2. CASE run[w].n # Runs(request[j])
    <3>1. wpc' = wpc /\ NextRun(w, run[w].n + 1) /\ run[w].n + 1 \in Nat
      BY <1>4, <2>2 DEF EndRun, RunRecord
    <3>2. /\ \A v \in Workers \ {w} : run'[v] = run[v]
          /\ run'[w].n = run[w].n + 1 /\ run'[w].failed = {} /\ run'[w].rec = Empty
          /\ run'[w].todo = {t \in TierNames : hasTier(request[wjob'[w]], t)}
      BY <3>1, NextRunType
    <3> QED
      BY <1>1, <1>2, <1>3, <1>6, <1>7, <2>2, <3>1, <3>2 DEF Stays
  <2> QED
    BY <2>1, <2>2
<1>9. CASE mgr = "stopping"
  <2>1. results' = results
    BY <1>9 DEF EndRun, StoreFails
  <2>2. \A i \in Jobs : JobPart(i)'
    BY <1>3, <2>1, JobFrame DEF JobsInv
  <2>3. ASSUME NEW v \in Workers \ {w} PROVE WorkerPart(v)' /\ (InJob(v)' <=> InJob(v))
    BY <1>3, <1>8, <2>1, WorkerFrame DEF JobsInv
  <2>4. WorkerPart(w)'
    <3>1. HandShape(w)'
      BY <1>2, <1>3, <1>8 DEF HandShape
    <3>2. RunShape(w)'
      BY <1>2, <1>3, <1>5, <1>8, RunsOfRequest DEF RunShape, InRun, Empty
    <3>3. TallyShape(w)'
      BY <1>3, <1>9 DEF TallyShape
    <3> QED
      BY <3>1, <3>2, <3>3 DEF WorkerPart
  <2>5. OneHand'
    BY <1>1, <1>3, <2>3 DEF JobsInv, OneHand
  <2> QED
    BY <2>2, <2>3, <2>4, <2>5 DEF JobsInv
<1>10. CASE mgr = "up"
  <2>1. results' = [results EXCEPT ![j] = Append(results[j], rec)]
    BY <1>10 DEF EndRun, StoreFails
  <2>2. results'[j] = Append(results[j], rec) /\ \A i \in Jobs \ {j} : results'[i] = results[i]
    BY <1>2, <1>4, <2>1
  <2>3. /\ Len(results[j]) \in Nat /\ Len(results'[j]) = Len(results[j]) + 1
        /\ EveryRun(j, {})' <=> EveryRun(j, {}) /\ run[w].failed = {}
        /\ EveryRun(j, asked)' <=> EveryRun(j, asked) /\ run[w].failed = asked
        /\ OnlyAsked(j) => OnlyAsked(j)'
    <3>1. results[j] \in Seq([TierNames -> Outcomes]) /\ Asked(request'[j]) = asked
      BY <1>2, <1>3, <1>4
    <3>2. Missing(asked, rec) = run[w].failed
      BY <1>5 DEF Missing
    <3>3. Len(results[j]) \in Nat /\ Len(results'[j]) = Len(results[j]) + 1
      BY <1>4, <2>2, <3>1, OneMoreResult
    <3>4. ASSUME NEW tiers
          PROVE  AlwaysMissing(results'[j], asked, tiers) <=>
                   AlwaysMissing(results[j], asked, tiers) /\ run[w].failed = tiers
      <4>1. AlwaysMissing(Append(results[j], rec), asked, tiers) <=>
              AlwaysMissing(results[j], asked, tiers) /\ Missing(asked, rec) = tiers
        BY <1>4, <3>1, OneMoreResult
      <4> QED
        BY <2>2, <3>2, <4>1
    <3>5. EveryRun(j, {})' <=> EveryRun(j, {}) /\ run[w].failed = {}
      BY <1>2, <3>1, <3>4, RunsOfRows
    <3>6. EveryRun(j, asked)' <=> EveryRun(j, asked) /\ run[w].failed = asked
      BY <1>2, <3>1, <3>4, RunsOfRows
    <3>7. OnlyAsked(j) => OnlyAsked(j)'
      <4>1. NothingElse(results[j], asked) => NothingElse(Append(results[j], rec), asked)
        BY <1>4, <1>5, <3>1, OneMoreResult
      <4> QED
        BY <1>2, <2>2, <3>1, <4>1, RunsOfRows
    <3> QED
      BY <3>3, <3>5, <3>6, <3>7
  <2>4. \A i \in Jobs \ {j} : JobPart(i)'
    BY <1>3, <2>2, JobFrame DEF JobsInv
  <2>5. JobPart(j)'
    BY <1>2, <1>3, <2>3 DEF JobsInv, JobPart, JobShape, Final
  <2>6. ASSUME NEW v \in Workers \ {w} PROVE WorkerPart(v)' /\ (InJob(v)' <=> InJob(v))
    <3>1. InJob(v) => wjob[v] \in Jobs \ {j}
      BY <1>1 DEF JobsInv, OneHand, WorkerPart, HandShape
    <3> QED
      BY <1>3, <1>8, <2>2, <3>1, WorkerFrame DEF JobsInv
  <2>7. HandShape(w)'
    BY <1>2, <1>3, <1>8 DEF HandShape
  <2>8. RunShape(w)'
    BY <1>2, <1>3, <1>5, <1>8, RunsOfRequest DEF RunShape, InRun, Empty
  <2>9. /\ Len(results[j]) = run[w].n - 1
        /\ tally[w].clean <= Len(results[j]) /\ tally[w].failed <= Len(results[j])
        /\ tally[w].clean = Len(results[j]) <=> EveryRun(j, {})
        /\ tally[w].failed = Len(results[j]) <=> EveryRun(j, asked)
    BY <1>1, <1>10 DEF JobsInv, WorkerPart, TallyShape
  <2>10. /\ tally'[w].clean = tally[w].clean + (IF run[w].failed = {} THEN 1 ELSE 0)
         /\ tally'[w].failed = tally[w].failed + (IF run[w].failed = asked THEN 1 ELSE 0)
         /\ tally[w].clean \in Nat /\ tally[w].failed \in Nat
    BY <1>2, <1>6, <1>7 DEF Count
  <2>11. /\ tally'[w].clean <= Len(results'[j]) /\ tally'[w].failed <= Len(results'[j])
         /\ tally'[w].clean = Len(results'[j]) <=> EveryRun(j, {})'
         /\ tally'[w].failed = Len(results'[j]) <=> EveryRun(j, asked)'
    BY <2>3, <2>9, <2>10
  <2>12. Len(results'[j]) = IF wpc'[w] = "tier" THEN run'[w].n - 1 ELSE Runs(request[j])
    <3>1. run[w].n \in Nat
      BY <1>4 DEF RunRecord
    <3>2. Len(results'[j]) = run[w].n
      <4>1. PICK before, after \in Nat :
              before = Len(results[j]) /\ after = Len(results'[j]) /\ after = before + 1
        BY <2>3
      <4> QED
        BY ONLY <2>9, <3>1, <4>1
    <3>3. CASE run[w].n = Runs(request[j]) /\ wpc'[w] = "deriving"
      BY ONLY <3>2, <3>3
    <3>4. CASE wpc'[w] = "tier" /\ run'[w].n = run[w].n + 1
      BY ONLY <3>1, <3>2, <3>4
    <3> QED
      BY ONLY <1>8, <3>3, <3>4
  <2>13. TallyShape(w)'
    <3>1. InRun(w)' <=> wpc'[w] = "tier"
      BY <1>8 DEF InRun
    <3>2. wjob'[w] = j /\ Asked(request'[j]) = asked
      BY <1>3
    <3> QED
      BY <1>3, <2>11, <2>12, <3>1, <3>2 DEF TallyShape, EveryRun, FailedIn
  <2>14. OneHand'
    BY <1>1, <1>3, <2>6 DEF JobsInv, OneHand
  <2> QED
    BY <2>4, <2>5, <2>6, <2>7, <2>8, <2>13, <2>14 DEF JobsInv, WorkerPart
<1>11. mgr \in {"up", "stopping", "down"}
  BY Typing DEF Typed
<1> QED
  BY <1>1, <1>9, <1>10, <1>11

\* The counters are at their limit exactly when every run was clean, or every run
\* had all its tiers fail; not both, because something was asked for.
LEMMA WriteFinalStatusJobs ==
  ASSUME TypeOK, JobsInv, BrowserShape, NEW w \in Workers, WriteFinalStatus(w)
  PROVE  JobsInv'
<1>0. PICK j, s : j = wjob[w] /\ s = deriveStatus(Runs(request[j]), tally[w])
  OBVIOUS
<1> USE <1>0
<1>1. wpc[w] = "deriving" /\ InJob(w) /\ ~InRun(w) /\ mgr \in {"up", "stopping"}
  BY Typing DEF WriteFinalStatus, InJob, InRun, BrowserShape, Typed
<1>2. /\ j \in Jobs /\ row[j] = "RUNNING" /\ request[j] \in Requested
      /\ Asked(request[j]) # {} /\ Asked(request[j]) \subseteq TierNames /\ validate(request[j])
  BY <1>1, HeldJob
<1>3. /\ row' = [row EXCEPT ![j] = IF StoreFails THEN @ ELSE s]
      /\ final' = [final EXCEPT ![w] = s] /\ wpc' = [wpc EXCEPT ![w] = "counting"]
      /\ UNCHANGED <<mgr, request, results, wjob, run, tally>>
  BY DEF WriteFinalStatus, Goto
<1>4. /\ wpc'[w] = "counting" /\ final'[w] = s
      /\ row'[j] = IF mgr = "stopping" THEN row[j] ELSE s
      /\ \A i \in Jobs \ {j} : row'[i] = row[i]
      /\ \A v \in Workers \ {w} : Stays(v)
  BY <1>2, <1>3, Typing DEF Typed, Stays, StoreFails
<1>5. s \in Final
  BY StatusIsFinal
<1>6. \A i \in Jobs \ {j} : JobPart(i)'
  BY <1>3, <1>4, JobFrame DEF JobsInv
<1>7. JobPart(j)'
  <2>1. JobShape(j)'
    BY <1>2, <1>3, <1>4, <1>5 DEF JobsInv, JobPart, JobShape, OnlyAsked, Final
  <2>2. CASE mgr = "stopping"
    BY <1>2, <1>4, <2>1, <2>2 DEF JobPart, Final
  <2>3. CASE mgr = "up"
    <3>1. /\ Len(results[j]) = Runs(request[j])
          /\ tally[w].clean <= Len(results[j]) /\ tally[w].failed <= Len(results[j])
          /\ tally[w].clean = Len(results[j]) <=> EveryRun(j, {})
          /\ tally[w].failed = Len(results[j]) <=> EveryRun(j, Asked(request[j]))
          /\ tally[w].clean \in Nat /\ tally[w].failed \in Nat
      BY <1>1, <2>3, Typing DEF JobsInv, WorkerPart, TallyShape, Typed
    <3>2. Runs(request[j]) \in Nat \ {0}
          /\ Runs(request[j]) = IF request[j].runs > 1 THEN request[j].runs ELSE 1
      BY <1>2, RunsOfRequest
    <3>3. s = IF tally[w].failed = Runs(request[j]) THEN "FAILED"
              ELSE IF tally[w].clean < Runs(request[j]) THEN "PARTIAL" ELSE "COMPLETED"
      BY <3>2 DEF deriveStatus
    <3>4. ~(EveryRun(j, {}) /\ EveryRun(j, Asked(request[j])))
      <4>1. 1 \in 1..Len(results[j])
        BY <3>1, <3>2
      <4> QED
        BY <1>2, <4>1 DEF EveryRun
    <3>5. s = IF EveryRun(j, {}) THEN "COMPLETED"
              ELSE IF EveryRun(j, Asked(request[j])) THEN "FAILED" ELSE "PARTIAL"
      <4>1. tally[w].clean < Runs(request[j]) <=> ~EveryRun(j, {})
        BY <3>1, <3>2
      <4>2. tally[w].failed = Runs(request[j]) <=> EveryRun(j, Asked(request[j]))
        BY <3>1
      <4> QED
        BY <3>3, <3>4, <4>1, <4>2
    <3>6. OnlyAsked(j)
      BY <1>2 DEF JobsInv, JobPart, JobShape
    <3>7. StatusFits(j)'
      <4>1. results' = results /\ request' = request /\ row'[j] = s
        BY <1>3, <1>4, <2>3
      <4>2. (EveryRun(j, {})' <=> EveryRun(j, {})) /\ (OnlyAsked(j)' <=> OnlyAsked(j))
            /\ (EveryRun(j, Asked(request[j]))' <=> EveryRun(j, Asked(request[j])))
        BY <4>1 DEF EveryRun, OnlyAsked, FailedIn
      <4> QED
        BY <1>2, <3>1, <3>2, <3>5, <3>6, <4>1, <4>2 DEF StatusFits
    <3> QED
      BY <2>1, <3>7 DEF JobPart
  <2> QED
    BY <1>1, <2>2, <2>3
<1>8. ASSUME NEW v \in Workers \ {w} PROVE WorkerPart(v)' /\ (InJob(v)' <=> InJob(v))
  <2>1. InJob(v) => wjob[v] \in Jobs \ {j}
    BY <1>1 DEF JobsInv, OneHand, WorkerPart, HandShape
  <2> QED
    BY <1>3, <1>4, <2>1, WorkerFrame DEF JobsInv
<1>9. WorkerPart(w)' /\ ~InJob(w)'
  BY <1>4, <1>5 DEF WorkerPart, HandShape, RunShape, TallyShape, InJob, InRun
<1>10. OneHand'
  BY <1>3, <1>8, <1>9 DEF JobsInv, OneHand
<1> QED
  BY <1>6, <1>7, <1>8, <1>9, <1>10 DEF JobsInv

LEMMA LastStepsJobs ==
  ASSUME TypeOK, JobsInv, NEW w \in Workers, CountJob(w) \/ ObserveDuration(w) \/ WorkerExit(w)
  PROVE  JobsInv'
<1>1. UNCHANGED <<row, request, results, mgr>>
  BY DEF CountJob, ObserveDuration, WorkerExit, jobs
<1>2. \A v \in Workers \ {w} : Stays(v)
  <2>1. CASE CountJob(w) \/ WorkerExit(w)
    BY <2>1, Typing DEF CountJob, WorkerExit, Goto, Stays, Typed
  <2>2. CASE ObserveDuration(w)
    BY <2>2, Typing DEF ObserveDuration, Release, Goto, Stays, Typed
  <2> QED
    BY <2>1, <2>2
<1>3. /\ wpc[w] \in {"counting", "observing", "idle"}
      /\ wpc'[w] \in {"observing", "idle", "exited"}
      /\ wpc'[w] = "observing" => wpc[w] = "counting" /\ final'[w] = final[w]
      /\ wpc'[w] = "exited" => wpc[w] = "idle" /\ tally'[w] = tally[w]
      /\ wpc'[w] = "idle" => tally'[w] = NoTally
  <2>1. CASE CountJob(w) \/ WorkerExit(w)
    BY <2>1, Typing DEF CountJob, WorkerExit, Goto, Typed
  <2>2. CASE ObserveDuration(w)
    BY <2>2, Typing DEF ObserveDuration, Release, Goto, Typed
  <2> QED
    BY <2>1, <2>2
<1>4. ~InJob(w)' /\ ~InRun(w)'
  BY <1>3 DEF InJob, InRun
<1>5. WorkerPart(w)'
  BY <1>3, <1>4 DEF JobsInv, WorkerPart, HandShape, RunShape, TallyShape
<1> QED
  BY <1>1, <1>2, <1>4, <1>5, OwnStep

LEMMA PoolStays ==
  ASSUME JobsInv, UNCHANGED <<jobs, pool>>, mgr' = "up" => mgr = "up"
  PROVE  JobsInv'
<1>1. UNCHANGED <<row, request, results, wpc, wjob, run, tally, final>>
  BY DEF jobs, pool
<1>2. \A j \in Jobs : JobPart(j)'
  BY <1>1, JobFrame DEF JobsInv
<1>3. \A w \in Workers : WorkerPart(w)' /\ (InJob(w)' <=> InJob(w))
  BY <1>1, WorkerFrame DEF JobsInv, Stays
<1>4. OneHand'
  BY <1>1, <1>3 DEF JobsInv, OneHand
<1> QED
  BY <1>2, <1>3, <1>4 DEF JobsInv

LEMMA JobsStep == TypeOK /\ BrowserShape /\ JobsInv /\ [Next]_vars => JobsInv'
<1> SUFFICES ASSUME TypeOK, BrowserShape, JobsInv, [Next]_vars PROVE JobsInv'
  OBVIOUS
<1>1. ASSUME NEW j \in Jobs, Submit(j) PROVE JobsInv'
  BY <1>1, SubmitJobs
<1>2. ASSUME NEW w \in Workers, WorkerStep(w) PROVE JobsInv'
  BY <1>2, TakeJobs, CollectJobs, BrowserStepJobs, EndRunJobs, WriteFinalStatusJobs,
     LastStepsJobs DEF WorkerStep
<1>3. ASSUME NEW w \in Workers, \/ CollectBrowser(w) \/ CollectVitals(w)
                                \/ CountJob(w) \/ ObserveDuration(w) \/ Expire(w)
      PROVE  JobsInv'
  BY <1>3, CollectJobs, LastStepsJobs, ExpireJobs
<1>4. CASE Stop \/ ProcessExits \/ BrowserDies \/ Scrape
  BY <1>4, PoolStays DEF Stop, ProcessExits, BrowserDies, Scrape
<1>5. CASE UNCHANGED vars
  BY <1>5, PoolStays DEF vars
<1> QED
  BY <1>1, <1>2, <1>3, <1>4, <1>5 DEF Next

-----------------------------------------------------------------------------
(* The results                                                             *)

LEMMA StepInv == IndInv /\ [Next]_vars => IndInv'
<1> SUFFICES ASSUME IndInv, [Next]_vars PROVE IndInv'
  OBVIOUS
<1>1. TypeOK /\ JobsInv /\ BrowserShape /\ NoTabIsLeaked /\ RegistryShape
  BY IndInvByPart
<1>2. Busy /\ Counted
  BY <1>1 DEF JobsInv, WorkerPart, HandShape, Busy, Counted
<1>3. TypeOK' /\ BrowserShape' /\ NoTabIsLeaked' /\ RegistryShape'
  BY <1>1, <1>2, TypeStep, TabStep, RegistryStep
<1>4. (\A j \in Jobs : JobPart(j)') /\ (\A w \in Workers : WorkerPart(w)') /\ OneHand'
  BY <1>1, JobsStep DEF JobsInv
<1> QED
  BY <1>3, <1>4 DEF IndInv, JobPart, WorkerPart, StatusIsWhatTheTiersDid

\* Of every reachable state: the record of a run and the counters of a job agree
\* with the tiers that are behind, one worker has the job, and the registry is
\* what the workers have made of it.
THEOREM InvariantHolds == Spec => []IndInv
<1>1. Init => IndInv
  BY InitType, InitJobs, InitTabs, InitRegistry, IndInvByPart
<1> QED
  BY <1>1, StepInv, PTL DEF Spec

\* A job's status can be told from its stored results and the other way round,
\* for any request, any number of runs and any number of workers.
THEOREM StatusIsWhatTheTiersDidHolds == Spec => []StatusIsWhatTheTiersDid
<1>1. IndInv => StatusIsWhatTheTiersDid
  BY DEF IndInv
<1> QED
  BY <1>1, InvariantHolds, PTL

\* No worker leaves a tab open, whatever ended the collection in it, and the
\* process closes the browser.
THEOREM NoTabIsLeakedHolds == Spec => []NoTabIsLeaked
<1>1. IndInv => NoTabIsLeaked
  BY DEF IndInv
<1> QED
  BY <1>1, InvariantHolds, PTL

\* An exposition agrees with itself, for any number of workers and buckets.
THEOREM ScrapesAgreeHolds == Spec => []ScrapesAgree
<1>1. IndInv => ScrapesAgree
  BY RegistryAgrees DEF IndInv
<1> QED
  BY <1>1, InvariantHolds, PTL
=============================================================================
