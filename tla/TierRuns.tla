------------------------------ MODULE TierRuns ------------------------------
(***************************************************************************)
(* What a worker does inside a job: the runs that processJob makes through *)
(* the tiers the request named, the shared headless browser and its tabs,  *)
(* the deadline of each run, and the metrics that are recorded at the end. *)
(* JobLifecycle has the queue, cancellation, panics, crashes and webhooks; *)
(* here the queue is the set of rows that are PENDING, store calls fail    *)
(* only when Stop has cancelled their context, and a process stops once.   *)
(***************************************************************************)
EXTENDS Metrics, Integers, Sequences

CONSTANTS
  Jobs,      \* the requests that are made
  Workers,   \* the goroutines of the pool
  Requests,  \* Requests[j]: what request j may ask for, a set of [tiers, runs, sound]
  MaxRuns,   \* maxRuns of the API
  NoJob      \* no job in a worker's hands

Final == {"COMPLETED", "PARTIAL", "FAILED"}

ASSUME TierRunsAssumption ==
  /\ NoJob \notin Jobs
  /\ IsFiniteSet(Workers)
  /\ MaxRuns \in Nat \ {0}
  /\ \A j \in Jobs :
       Requests[j] \subseteq [tiers : Seq(STRING), runs : Int, sound : BOOLEAN]
  /\ Labels = Final

\* In the order in which processJob goes through them.
Tiers == <<"network", "browser", "vitals", "lighthouse">>
TierNames == {Tiers[i] : i \in 1..Len(Tiers)}
TabTiers == {"browser", "vitals"}

VARIABLES
  mgr,      \* "up", "stopping" (m.ctx is cancelled) or "down"
  row,      \* the job's status, "none" without a row, "refused" after a 400
  request,  \* what the job's request asked for
  results,  \* the stored results of the job, one for each run
  chrome,   \* the browser: "none", "starting", "up", "dead", "failed", "closed"
  wpc,      \* where each worker is
  wjob,     \* the job each worker holds
  run,      \* the run each worker is at, see NoRun
  tally,    \* cleanRuns and failedRuns of each worker
  final,    \* the status each worker has derived
  tab       \* each worker's tab: "none", "open", "dead"

jobs  == <<row, request, results>>
pool  == <<wpc, wjob, run, tally, final>>
vars  == <<registry, scrape, mgr, jobs, chrome, pool, tab>>

Empty == [t \in TierNames |-> "none"]

\* n: the loop's i; todo: the tiers still to collect; rec: the result record;
\* failed: the tiers that failed; expired: whether the run's deadline is over.
NoRun == [n |-> 0, todo |-> {}, rec |-> Empty, failed |-> {}, expired |-> FALSE]
NoTally == [clean |-> 0, failed |-> 0]

-----------------------------------------------------------------------------
(* The request                                                             *)

SeqRange(s) == {s[i] : i \in 1..Len(s)}

validateTiers(tiers) == SeqRange(tiers) \subseteq TierNames \cup {"all"}

\* (Mutant: the names of tiers are not looked at.)
validate_AnyTier(r) == r.sound /\ r.runs <= MaxRuns

\* testSpec.validate. `sound` stands for the checks of the url, the webhook's
\* url, the budget, the profile and the timeout.
validate(r) ==
  /\ r.sound
  /\ validateTiers(r.tiers)
  /\ r.runs <= MaxRuns

\* validate sets a number of runs below one to one.
Runs(r) == IF r.runs <= 0 THEN 1 ELSE r.runs

\* The closure in processJob: no tier at all means the network tier.
hasTier(r, t) ==
  IF r.tiers = <<>> THEN t = "network" ELSE {"all", t} \cap SeqRange(r.tiers) # {}

\* handleCreateJob up to SubmitJob, which JobLifecycle takes apart.
Submit(j) ==
  /\ mgr = "up"
  /\ row[j] = "none"
  /\ \E r \in Requests[j] :
       IF validate(r)
         THEN /\ row' = [row EXCEPT ![j] = "PENDING"]
              /\ request' = [request EXCEPT ![j] = r]
         ELSE row' = [row EXCEPT ![j] = "refused"] /\ UNCHANGED request
  /\ UNCHANGED <<registry, scrape, mgr, results, chrome, pool, tab>>

-----------------------------------------------------------------------------
(* The worker                                                              *)

StoreFails == mgr = "stopping"

Goto(w, pc) == wpc' = [wpc EXCEPT ![w] = pc]

\* runCtx of the worker's run: its deadline is over, or m.ctx is cancelled.
CtxDone(w) == run[w].expired \/ mgr = "stopping"

\* The loop's next iteration: a fresh record and a fresh deadline.
NextRun(w, n) ==
  run' = [run EXCEPT ![w] =
            [NoRun EXCEPT !.n = n,
                          !.todo = {t \in TierNames : hasTier(request[wjob'[w]], t)}]]

Release(w) ==
  /\ Goto(w, "idle")
  /\ wjob' = [wjob EXCEPT ![w] = NoJob]
  /\ run' = [run EXCEPT ![w] = NoRun]
  /\ tally' = [tally EXCEPT ![w] = NoTally]
  /\ final' = [final EXCEPT ![w] = "none"]

\* A worker receives the job and marks it RUNNING; when that cannot be
\* stored it leaves the job alone.
Take(w, j) ==
  /\ mgr # "down"
  /\ wpc[w] = "idle"
  /\ row[j] = "PENDING"
  /\ ~StoreFails
  /\ row' = [row EXCEPT ![j] = "RUNNING"]
  /\ wjob' = [wjob EXCEPT ![w] = j]
  /\ NextRun(w, 1)
  /\ Goto(w, "tier")
  /\ UNCHANGED <<registry, scrape, mgr, request, results, chrome, tally, final, tab>>

\* The worker is between two tiers, and t is the next one.
Reaches(w, t) ==
  /\ wpc[w] = "tier"
  /\ t \in run[w].todo
  /\ \A i, k \in 1..Len(Tiers) :
       Tiers[i] = t /\ k < i => Tiers[k] \notin run[w].todo

\* (Mutant: the measured timing is kept, and so the tier did not fail.)
Outcome_KeepsOnly(w, t, o) ==
  run' = [run EXCEPT ![w].todo = @ \ {t},
                     ![w].rec[t] = o,
                     ![w].failed = IF o = "none" THEN @ \cup {t} ELSE @]

\* A tier ends: what it puts into the record, and whether it failed. The
\* network tier may do both, when the target answers with an error status.
Outcome(w, t, o) ==
  run' = [run EXCEPT ![w].todo = @ \ {t},
                     ![w].rec[t] = o,
                     ![w].failed = IF o = "data" THEN @ ELSE @ \cup {t}]

\* network.Collect: an HTTP client with a timeout of its own, and the run's
\* context. An error status of the target comes with a result.
CollectNetwork(w) ==
  /\ Reaches(w, "network")
  /\ \/ Outcome(w, "network", "none")
     \/ ~CtxDone(w) /\ \E o \in {"data", "error"} : Outcome(w, "network", o)
  /\ UNCHANGED <<registry, scrape, mgr, jobs, chrome, wpc, wjob, tally, final, tab>>

\* lighthouse.Collect: the same of the PageSpeed service, whose error status
\* comes without a result.
CollectLighthouse(w) ==
  /\ Reaches(w, "lighthouse")
  /\ \/ Outcome(w, "lighthouse", "none")
     \/ ~CtxDone(w) /\ Outcome(w, "lighthouse", "data")
  /\ UNCHANGED <<registry, scrape, mgr, jobs, chrome, wpc, wjob, tally, final, tab>>

\* browserManager: the first worker that needs the browser starts it.
StartBrowser(w) ==
  /\ \E t \in TabTiers : Reaches(w, t)
  /\ chrome = "none"
  /\ chrome' = "starting"
  /\ Goto(w, "launching")
  /\ UNCHANGED <<registry, scrape, mgr, jobs, wjob, run, tally, final, tab>>

\* chromedp.Run in NewManager ends, and with it chromeOnce: an error is kept.
\* Neither the run's deadline nor Stop ends it earlier.
Launched(w) ==
  /\ wpc[w] = "launching"
  /\ chrome' \in {"up", "failed"}
  /\ Goto(w, "tier")
  /\ UNCHANGED <<registry, scrape, mgr, jobs, wjob, run, tally, final, tab>>

\* (Mutant: startErr is not looked at.)
NewContext_AnyBrowser(w) ==
  \E t \in TabTiers :
    /\ Reaches(w, t)
    /\ chrome \notin {"none", "starting"}
    /\ tab' = [tab EXCEPT ![w] = IF chrome = "up" THEN "open" ELSE "dead"]
    /\ Goto(w, "collecting")
    /\ UNCHANGED <<registry, scrape, mgr, jobs, chrome, wjob, run, tally, final>>

\* chrome.Manager.NewContext. Other workers wait in chromeOnce while the
\* browser starts. A browser that did not start fails the tier at once; one
\* that died since gives a tab whose context has already ended.
NewContext(w) ==
  \E t \in TabTiers :
    /\ Reaches(w, t)
    /\ chrome \notin {"none", "starting"}
    /\ IF chrome = "failed"
         THEN Outcome(w, t, "none") /\ UNCHANGED <<wpc, tab>>
         ELSE /\ tab' = [tab EXCEPT ![w] = IF chrome = "up" THEN "open" ELSE "dead"]
              /\ Goto(w, "collecting")
              /\ UNCHANGED run
    /\ UNCHANGED <<registry, scrape, mgr, jobs, chrome, wjob, tally, final>>

\* The tier the worker's tab was opened for: the first that is still to do.
TabTier(w) == IF "browser" \in run[w].todo THEN "browser" ELSE "vitals"

\* (Mutant: no AfterFunc, the run's context does not reach the tab.)
TabDone_BrowserOnly(w) == tab[w] = "dead"

\* The tab's context has ended: with the browser, or with the run's context,
\* which context.AfterFunc in NewContext passes on.
TabDone(w) == tab[w] = "dead" \/ CtxDone(w)

\* collectThrottled: the profile, then the tier's collector.
CollectInTab(w, t) ==
  /\ wpc[w] = "collecting"
  /\ TabTier(w) = t
  /\ \/ Outcome(w, t, "none")
     \/ ~TabDone(w) /\ Outcome(w, t, "data")
  /\ Goto(w, "closing")
  /\ UNCHANGED <<registry, scrape, mgr, jobs, chrome, wjob, tally, final, tab>>

\* browser.Collect and vitals.Collect. A page may keep chromedp.Run from
\* returning as long as the tab lives; the end of the tab ends it with an error.
CollectBrowser(w) == CollectInTab(w, "browser")
CollectVitals(w)  == CollectInTab(w, "vitals")

\* (Mutant: the tab is cancelled after a collection that went well only.)
CloseTab_OnSuccess(w) ==
  /\ wpc[w] = "closing"
  /\ tab' = [tab EXCEPT ![w] = IF run[w].failed \cap TabTiers = {} THEN "none" ELSE @]
  /\ Goto(w, "tier")
  /\ UNCHANGED <<registry, scrape, mgr, jobs, chrome, wjob, run, tally, final>>

\* bCancel and vCancel. chromedp never returns from the cancel of a tab whose
\* browser was not started.
CloseTab(w) ==
  /\ wpc[w] = "closing"
  /\ chrome # "failed"
  /\ tab' = [tab EXCEPT ![w] = "none"]
  /\ Goto(w, "tier")
  /\ UNCHANGED <<registry, scrape, mgr, jobs, chrome, wjob, run, tally, final>>

\* The deadline of the run passes; with no tier left it means nothing.
Expire(w) ==
  /\ run[w].todo # {}
  /\ ~run[w].expired
  /\ run' = [run EXCEPT ![w].expired = TRUE]
  /\ UNCHANGED <<registry, scrape, mgr, jobs, chrome, wpc, wjob, tally, final, tab>>

\* The counters after a run in which these tiers ran and failed.
Count(c, ran, failed) ==
  [clean  |-> c.clean + (IF failed = {} THEN 1 ELSE 0),
   failed |-> c.failed + (IF failed # {} /\ failed = ran THEN 1 ELSE 0)]

\* No tier is left: the counters, SaveResult, and the next run or the end.
EndRun(w) ==
  LET j == wjob[w]
      ran == {t \in TierNames : hasTier(request[j], t)}
  IN /\ wpc[w] = "tier"
     /\ run[w].todo = {}
     /\ tally' = [tally EXCEPT ![w] = Count(@, ran, run[w].failed)]
     /\ IF StoreFails
          THEN UNCHANGED results
          ELSE results' = [results EXCEPT ![j] = Append(@, run[w].rec)]
     /\ UNCHANGED wjob
     /\ IF run[w].n = Runs(request[j])
          THEN Goto(w, "deriving") /\ run' = [run EXCEPT ![w] = NoRun]
          ELSE UNCHANGED wpc /\ NextRun(w, run[w].n + 1)
     /\ UNCHANGED <<registry, scrape, mgr, row, request, chrome, final, tab>>

deriveStatus(total, c) ==
  IF total > 0 /\ c.failed = total THEN "FAILED"
  ELSE IF c.clean < total THEN "PARTIAL" ELSE "COMPLETED"

\* The final status; an error is logged and the rest is done all the same.
WriteFinalStatus(w) ==
  LET s == deriveStatus(Runs(request[wjob[w]]), tally[w])
  IN /\ wpc[w] = "deriving"
     /\ row' = [row EXCEPT ![wjob[w]] = IF StoreFails THEN @ ELSE s]
     /\ final' = [final EXCEPT ![w] = s]
     /\ Goto(w, "counting")
     /\ UNCHANGED <<registry, scrape, mgr, request, results, chrome, wjob, run, tally, tab>>

CountJob(w) ==
  /\ wpc[w] = "counting"
  /\ CounterInc(final[w])
  /\ Goto(w, "observing")
  /\ UNCHANGED <<mgr, jobs, chrome, wjob, run, tally, final, tab>>

\* The duration is measured; its value is any.
ObserveDuration(w) ==
  /\ wpc[w] = "observing"
  /\ \E v \in 1..Buckets + 1 : Observe(v)
  /\ Release(w)
  /\ UNCHANGED <<mgr, jobs, chrome, tab>>

WorkerExit(w) ==
  /\ mgr = "stopping"
  /\ wpc[w] = "idle"
  /\ Goto(w, "exited")
  /\ UNCHANGED <<registry, scrape, mgr, jobs, chrome, wjob, run, tally, final, tab>>

-----------------------------------------------------------------------------
(* The process, the browser and the scrapes                                *)

Stop ==
  /\ mgr = "up"
  /\ mgr' = "stopping"
  /\ UNCHANGED <<registry, scrape, jobs, chrome, pool, tab>>

\* wg.Wait, then chrome.Close if there is a browser, then the process ends.
ProcessExits ==
  /\ mgr = "stopping"
  /\ \A w \in Workers : wpc[w] = "exited"
  /\ mgr' = "down"
  /\ chrome' = IF chrome = "none" THEN chrome ELSE "closed"
  /\ UNCHANGED <<registry, scrape, jobs, pool, tab>>

\* The browser's process ends by itself: chromedp cancels every tab. Nobody
\* starts it again.
BrowserDies ==
  /\ chrome = "up"
  /\ chrome' = "dead"
  /\ tab' = [w \in Workers |-> IF tab[w] = "open" THEN "dead" ELSE tab[w]]
  /\ UNCHANGED <<registry, scrape, mgr, jobs, pool>>

\* The /metrics handler, of one client at a time.
Scrape ==
  /\ mgr # "down"
  /\ WriteTotal \/ WriteDuration
  /\ UNCHANGED <<mgr, jobs, chrome, pool, tab>>

-----------------------------------------------------------------------------
Init ==
  /\ MetricsInit
  /\ mgr = "up"
  /\ row = [j \in Jobs |-> "none"]
  /\ request = [j \in Jobs |-> [tiers |-> <<>>, runs |-> 0, sound |-> FALSE]]
  /\ results = [j \in Jobs |-> <<>>]
  /\ chrome = "none"
  /\ wpc = [w \in Workers |-> "idle"]
  /\ wjob = [w \in Workers |-> NoJob]
  /\ run = [w \in Workers |-> NoRun]
  /\ tally = [w \in Workers |-> NoTally]
  /\ final = [w \in Workers |-> "none"]
  /\ tab = [w \in Workers |-> "none"]

\* The steps of a worker that wait for nothing but its turn.
WorkerStep(w) ==
  \/ \E j \in Jobs : Take(w, j)
  \/ CollectNetwork(w) \/ CollectLighthouse(w) \/ StartBrowser(w) \/ Launched(w)
  \/ NewContext(w) \/ CloseTab(w) \/ EndRun(w) \/ WriteFinalStatus(w) \/ WorkerExit(w)

Next ==
  \/ \E j \in Jobs : Submit(j)
  \/ \E w \in Workers : \/ WorkerStep(w) \/ CollectBrowser(w) \/ CollectVitals(w)
                        \/ CountJob(w) \/ ObserveDuration(w) \/ Expire(w)
  \/ Stop \/ ProcessExits \/ BrowserDies \/ Scrape

Spec == Init /\ [][Next]_vars

(***************************************************************************)
(* Fairness: goroutines run, an HTTP client has a timeout, the launch of   *)
(* the browser ends, time passes, and a scrape is over when the server's   *)
(* writeTimeout is. A page need not let a collector return: nothing is     *)
(* assumed of its tier while the tab is open. The updates of the registry  *)
(* are strongly fair, because sync.Mutex hands itself to a waiter that has *)
(* starved for a millisecond, however often it is taken.                   *)
(***************************************************************************)
Fairness ==
  /\ \A w \in Workers :
       /\ WF_vars(\/ WorkerStep(w)
                  \/ TabDone(w) /\ (CollectBrowser(w) \/ CollectVitals(w)))
       /\ SF_vars(CountJob(w) \/ ObserveDuration(w))
       /\ WF_vars(Expire(w))
  /\ WF_vars(ProcessExits)
  /\ WF_vars(WriteDuration /\ UNCHANGED <<mgr, jobs, chrome, pool, tab>>)

FairSpec == Spec /\ Fairness

-----------------------------------------------------------------------------
(* Properties                                                              *)

\* What a request asks for, read off the request: a name that is no tier
\* is asked for as well, and nobody can deliver it.
Asked(r) ==
  IF r.tiers = <<>> THEN {"network"}
  ELSE UNION {IF t = "all" THEN TierNames ELSE {t} : t \in SeqRange(r.tiers)}

\* The tiers that failed in a stored result of the job.
FailedIn(j, i) == {t \in Asked(request[j]) : results[j][i][t] # "data"}

\* Whether these are the tiers that failed, in every stored result of the job.
EveryRun(j, tiers) == \A i \in 1..Len(results[j]) : FailedIn(j, i) = tiers

\* No stored result of the job has anything of a tier nobody asked for.
OnlyAsked(j) ==
  \A i \in 1..Len(results[j]) : \A t \in TierNames \ Asked(request[j]) : results[j][i][t] = "none"

\* The results of the job are what its status says.
StatusFits(j) ==
  /\ Len(results[j]) = IF request[j].runs > 1 THEN request[j].runs ELSE 1
  /\ Asked(request[j]) \subseteq TierNames
  /\ OnlyAsked(j)
  /\ row[j] = IF EveryRun(j, {}) THEN "COMPLETED"
              ELSE IF EveryRun(j, Asked(request[j])) THEN "FAILED"
              ELSE "PARTIAL"

\* The status can be told from the stored results, and the other way round.
\* COMPLETED: as many results as runs were asked for, one at least, each with
\* data of every tier asked for and of no other (validateTiers: "so a typo
\* does not silently produce a COMPLETED job with no results"). FAILED: every
\* run had all its tiers fail. PARTIAL: some measured something, some failed.
\* (validate, hasTier, the collectors, the counters and deriveStatus together)
StatusIsWhatTheTiersDid == \A j \in Jobs : row[j] \in Final => StatusFits(j)

\* A tab belongs to the browser tier a worker is at: whatever made the
\* collection end - the page, the deadline, Stop, the death of the browser -
\* the worker does not go on without closing it, and the browser is closed
\* when the last tab is gone, even if it was started while Stop was waiting.
\* (NewContext, its cancel function, Stop)
NoTabIsLeaked ==
  /\ \A w \in Workers :
       tab[w] # "none" => wpc[w] \in {"collecting", "closing"} /\ chrome \in {"up", "dead"}
  /\ mgr = "down" => chrome \in {"none", "closed"}

Total(series) == series["COMPLETED"] + series["PARTIAL"] + series["FAILED"]

\* An exposition agrees with itself, although two updates are made for each
\* job and the families are written one after the other to a client that may
\* be slow: when the histogram is written, no duration is in it without its
\* job being in the counters already written, no more jobs are without a
\* duration than there are workers, and the buckets are cumulative. (Registry.mu)
ScrapesAgree ==
  scraper = "duration" =>
    /\ duration.count <= Total(page)
    /\ Total(page) <= duration.count + Cardinality(Workers)
    /\ Cumulative(duration)

-----------------------------------------------------------------------------
(* The inductive invariant behind them, in named parts. See TierRunsProofs. *)

Outcomes == {"none", "data", "error"}

TypeOK ==
  /\ mgr \in {"up", "stopping", "down"}
  /\ row \in [Jobs -> {"none", "refused", "PENDING", "RUNNING"} \cup Final]
  /\ request \in [Jobs -> [tiers : Seq(STRING), runs : Int, sound : BOOLEAN]]
  /\ results \in [Jobs -> Seq([TierNames -> Outcomes])]
  /\ chrome \in {"none", "starting", "up", "dead", "failed", "closed"}
  /\ wpc \in [Workers -> {"idle", "tier", "launching", "collecting", "closing",
                          "deriving", "counting", "observing", "exited"}]
  /\ wjob \in [Workers -> Jobs \cup {NoJob}]
  /\ run \in [Workers -> [n : Nat, todo : SUBSET TierNames, rec : [TierNames -> Outcomes],
                          failed : SUBSET TierNames, expired : BOOLEAN]]
  /\ tally \in [Workers -> [clean : Nat, failed : Nat]]
  /\ final \in [Workers -> Final \cup {"none"}]
  /\ tab \in [Workers -> {"none", "open", "dead"}]

\* A worker is inside a run, or has all runs of a job behind it but not the status.
InRun(w)  == wpc[w] \in {"tier", "launching", "collecting", "closing"}
InJob(w)  == InRun(w) \/ wpc[w] = "deriving"

JobShape(j) ==
  /\ row[j] \notin {"none", "refused"} => validate(request[j])
  /\ row[j] \in {"none", "refused", "PENDING"} => results[j] = <<>>
  /\ OnlyAsked(j)

\* A job is in one worker's hands at a time, and RUNNING as long as it is.
HandShape(w) ==
  /\ wpc[w] \in {"idle", "exited"} => tally[w] = NoTally
  /\ wpc[w] \in {"counting", "observing"} => final[w] \in Final
  /\ InJob(w) => wjob[w] \in Jobs /\ row[wjob[w]] = "RUNNING"

OneHand == \A v, w \in Workers : InJob(v) /\ InJob(w) /\ wjob[v] = wjob[w] => v = w

\* What the record of the run says of the tiers that are behind the worker.
RunShape(w) ==
  InRun(w) =>
    LET asked == Asked(request[wjob[w]]) IN
    /\ run[w].n \in 1..Runs(request[wjob[w]])
    /\ run[w].todo \subseteq asked
    /\ run[w].failed = {t \in asked \ run[w].todo : run[w].rec[t] # "data"}
    /\ \A t \in TierNames \ asked : run[w].rec[t] = "none"
    /\ wpc[w] = "collecting" => TabTier(w) \in run[w].todo

\* The counters agree with the results stored so far, while they can be stored:
\* a counter is at its limit when every result is of its kind.
TallyShape(w) ==
  InJob(w) /\ mgr = "up" =>
    LET j == wjob[w] IN
    /\ Len(results[j]) = IF InRun(w) THEN run[w].n - 1 ELSE Runs(request[j])
    /\ tally[w].clean <= Len(results[j])
    /\ tally[w].clean = Len(results[j]) <=> EveryRun(j, {})
    /\ tally[w].failed <= Len(results[j])
    /\ tally[w].failed = Len(results[j]) <=> EveryRun(j, Asked(request[j]))

\* One worker starts the browser; nobody is left when it is closed.
BrowserShape ==
  /\ \A w \in Workers : wpc[w] = "launching" => chrome = "starting"
  /\ \A v, w \in Workers : wpc[v] = "launching" /\ wpc[w] = "launching" => v = w
  /\ mgr = "down" => \A w \in Workers : wpc[w] = "exited"
  /\ chrome = "closed" => mgr = "down"

\* Between the two updates for a job its worker is in between, and an exposition
\* under way has the counters as they are.
RegistryShape ==
  /\ jobsTotal \in [Labels -> Nat]
  /\ duration \in [counts : [1..Buckets -> Nat], count : Nat]
  /\ Cumulative(duration)
  /\ Total(jobsTotal) = duration.count + Cardinality({w \in Workers : wpc[w] = "observing"})
  /\ scraper = "duration" => mu = "scrape" /\ page = jobsTotal

IndInv ==
  /\ TypeOK
  /\ \A j \in Jobs : JobShape(j)
  /\ \A w \in Workers : HandShape(w) /\ RunShape(w) /\ TallyShape(w)
  /\ OneHand
  /\ StatusIsWhatTheTiersDid
  /\ BrowserShape
  /\ NoTabIsLeaked
  /\ RegistryShape

-----------------------------------------------------------------------------
\* Every worker that took a job comes back to its select, and a daemon that is
\* told to stop does: with pages that never finish loading, a browser that
\* cannot be started or dies, and scrapes that are slow and come without end.
\* (the run's context, AfterFunc, startErr, Registry.mu)
WorkersComeBack ==
  /\ \A w \in Workers : []<>(wjob[w] = NoJob)
  /\ []<>(mgr # "stopping")
=============================================================================
