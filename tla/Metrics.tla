------------------------------- MODULE Metrics -------------------------------
(***************************************************************************)
(* The metrics registry of the daemon: a counter with a label, a histogram *)
(* with fixed buckets, and the /metrics handler that renders both for a    *)
(* client which may be slow to read. Every update takes Registry.mu for    *)
(* one step; a scrape keeps it from the first family to the last.          *)
(* Gauges, help texts and the histogram's sum are left out.                *)
(***************************************************************************)
EXTENDS Naturals, FiniteSets

CONSTANTS
  Labels,   \* the values of the label of loadstar_jobs_total
  Buckets,  \* how many buckets the histogram has; bucket i takes values <= i
  Nothing   \* no exposition is being written

ASSUME BucketsAssumption == Buckets \in Nat \ {0}

VARIABLES
  mu,        \* Registry.mu: "free", or "scrape" while an exposition is written
  jobsTotal, \* loadstar_jobs_total, a series for each label
  duration,  \* loadstar_job_duration_seconds: counts per bucket, and the count
  scraper,   \* where the /metrics handler is: "idle", or the family it writes next
  page       \* the counters it has written, while the exposition is not complete

registry == <<jobsTotal, duration>>
scrape   == <<mu, scraper, page>>

MetricsInit ==
  /\ mu = "free"
  /\ jobsTotal = [s \in Labels |-> 0]
  /\ duration = [counts |-> [i \in 1..Buckets |-> 0], count |-> 0]
  /\ scraper = "idle"
  /\ page = Nothing

\* CounterAdd with 1.
CounterInc(s) ==
  /\ mu = "free"
  /\ jobsTotal' = [jobsTotal EXCEPT ![s] = @ + 1]
  /\ UNCHANGED <<duration, scrape>>

\* (Mutant: a value is counted in the bucket it falls into and no other.)
Observe_OneBucket(v) ==
  /\ mu = "free"
  /\ duration' = [counts |-> [i \in 1..Buckets |->
                                duration.counts[i] + IF v = i THEN 1 ELSE 0],
                  count |-> duration.count + 1]
  /\ UNCHANGED <<jobsTotal, scrape>>

\* Every bucket whose bound is not below the value takes it.
Observe(v) ==
  /\ mu = "free"
  /\ duration' = [counts |-> [i \in 1..Buckets |->
                                duration.counts[i] + IF v <= i THEN 1 ELSE 0],
                  count |-> duration.count + 1]
  /\ UNCHANGED <<jobsTotal, scrape>>

\* (Mutant: the lock is taken for each family, not for the exposition.)
WriteTotal_Unlocks ==
  /\ mu = "free"
  /\ scraper = "idle"
  /\ page' = jobsTotal
  /\ scraper' = "duration"
  /\ UNCHANGED <<registry, mu>>

\* Registry.Write takes the lock. The families come in the order in which
\* NewManager registered them: the counters are the first.
WriteTotal ==
  /\ mu = "free"
  /\ scraper = "idle"
  /\ mu' = "scrape"
  /\ page' = jobsTotal
  /\ scraper' = "duration"
  /\ UNCHANGED registry

\* The last family, or a write that fails because the client left or the
\* server's writeTimeout ran out; the deferred Unlock.
WriteDuration ==
  /\ scraper = "duration"
  /\ scraper' = "idle"
  /\ mu' = "free"
  /\ page' = Nothing
  /\ UNCHANGED registry

-----------------------------------------------------------------------------
\* Whether a histogram is cumulative: each bucket has what the one below has,
\* and the count has them all.
Cumulative(h) ==
  \A i \in 1..Buckets :
    h.counts[i] <= IF i = Buckets THEN h.count ELSE h.counts[i + 1]
=============================================================================
