----------------------------- MODULE BudgetGate -----------------------------
(***************************************************************************)
(* A performance budget and its verdict: Validate, the runs with the       *)
(* metrics their tiers delivered, Aggregate, and Evaluate, which goes over *)
(* a Go map and so over the assertions in any order. processJob, the       *)
(* command line and the API use it alike.                                  *)
(***************************************************************************)
EXTENDS Stats, FiniteSets

CONSTANTS
  Metrics,     \* the keys a budget may name
  MetricKeys,  \* metricKeys: those that are known
  MaxAssertions,
  Values,      \* what a metric may measure
  Threshold,   \* the value of every bound
  MaxRuns,     \* bound on the runs of a job
  None         \* a bound that is nil, a metric that was not collected

ASSUME MetricsAssumption == MetricKeys \subseteq Metrics /\ IsFiniteSet(Metrics)
ASSUME ValuesAssumption  == Values \subseteq Int /\ Threshold \in Int /\ None \notin Int
ASSUME RunsAssumption    == MaxRuns \in Nat \ {0} /\ MaxAssertions \in Nat

VARIABLES
  pc,       \* "validate", "collect", "aggregate", "evaluate", "done", "refused"
  budget,   \* budget.Assertions: a function from some metrics to assertions
  runs,     \* one metric map per run
  metrics,  \* Aggregate's result
  left,     \* the assertions the loop has not come to
  results,  \* eval.Assertions
  verdict   \* eval.Status

vars == <<pc, budget, runs, metrics, left, results, verdict>>

Assertions == [max : {Threshold, None}, min : {Threshold, None},
               level : {"", "warn", "error", "critical"}]

-----------------------------------------------------------------------------
Valid(b) ==
  /\ DOMAIN b # {}
  /\ Cardinality(DOMAIN b) <= MaxAssertions
  /\ \A key \in DOMAIN b :
       /\ key \in MetricKeys
       /\ b[key].max # None \/ b[key].min # None
       /\ b[key].level \in {"", "warn", "error"}

Validate ==
  /\ pc = "validate"
  /\ pc' = IF Valid(budget) THEN "collect" ELSE "refused"
  /\ UNCHANGED <<budget, runs, metrics, left, results, verdict>>

\* A run is collected: Flatten has a key for what its tiers delivered.
Collect ==
  /\ pc = "collect"
  /\ Len(runs) < MaxRuns
  /\ \E run \in [DOMAIN budget -> Values \cup {None}] : runs' = Append(runs, run)
  /\ pc' \in {"collect", "aggregate"}
  /\ UNCHANGED <<budget, metrics, left, results, verdict>>

\* The runs that have a key.
Indices(key) == {i \in 1..Len(runs) : runs[i][key] # None}

\* The values of a key, of the runs that have it. Their order is any, for they
\* will be sorted.
Collected(key) ==
  LET places == 1..Cardinality(Indices(key))
      at     == CHOOSE at \in Bijection(places, Indices(key)) : TRUE
  IN [k \in places |-> runs[at[k]][key]]

\* The median per key, in hundredths.
Aggregate ==
  /\ pc = "aggregate"
  /\ metrics' = [key \in DOMAIN budget |->
                   IF Indices(key) = {} THEN None ELSE Median(Collected(key))]
  /\ left' = DOMAIN budget
  /\ pc' = IF left' = {} THEN "done" ELSE "evaluate"
  /\ UNCHANGED <<budget, runs, results, verdict>>

TripStatus(level) == IF level = "warn" THEN "warn" ELSE "fail"

Level(key) == IF budget[key].level = "" THEN "error" ELSE budget[key].level

\* (Mutant: an assertion whose metric was not collected passes.)
Trips_MissingPasses(key, op, threshold) ==
  metrics[key] # None /\ IF op = "max" THEN metrics[key] > 100 * threshold
                                       ELSE metrics[key] < 100 * threshold

Trips(key, op, threshold) ==
  \/ metrics[key] = None
  \/ op = "max" /\ metrics[key] > 100 * threshold
  \/ op = "min" /\ metrics[key] < 100 * threshold

Bounds(key) == {bound \in {<<"max", budget[key].max>>, <<"min", budget[key].min>>} :
                  bound[2] # None}

Results(key) ==
  {[metric |-> key, op |-> bound[1], actual |-> metrics[key],
    status |-> IF Trips(key, bound[1], bound[2]) THEN TripStatus(Level(key)) ELSE "pass"]
     : bound \in Bounds(key)}

\* (Mutant: a warning replaces a failure.)
Worse_Last(status, new) == IF "fail" \in new THEN "fail"
                           ELSE IF "warn" \in new THEN "warn" ELSE status

\* eval.Status after results with the statuses `new`.
Worse(status, new) ==
  CASE "fail" \in new -> "fail"
    [] "fail" \notin new /\ "warn" \in new /\ status = "pass" -> "warn"
    [] OTHER -> status

\* One iteration of Evaluate's loop over the map.
EvaluateKey(key) ==
  /\ pc = "evaluate"
  /\ key \in left
  /\ left' = left \ {key}
  /\ results' = results \cup Results(key)
  /\ verdict' = Worse(verdict, {r.status : r \in Results(key)})
  /\ pc' = IF left' = {} THEN "done" ELSE "evaluate"
  /\ UNCHANGED <<budget, runs, metrics>>

-----------------------------------------------------------------------------
Init ==
  /\ pc = "validate"
  /\ budget \in UNION {[keys -> Assertions] : keys \in SUBSET Metrics}
  /\ runs = <<>>
  /\ metrics = <<>>
  /\ left = {}
  /\ results = {}
  /\ verdict = "pass"

Next ==
  \/ Validate \/ Collect \/ Aggregate
  \/ \E key \in Metrics : EvaluateKey(key)

Spec == Init /\ [][Next]_vars

-----------------------------------------------------------------------------
Within(op, v) == IF op = "max" THEN v <= Threshold ELSE v >= Threshold

Meeting(key, op) == {i \in Indices(key) : Within(op, runs[i][key])}

\* The median is what most runs say: an assertion that more than half of the
\* runs with its metric meet passes, one that more than half break trips at its
\* level, and one that no run has the metric for trips too. (Aggregate:
\* "so a single noisy run does not decide the verdict"; Evaluate: "missing data
\* cannot silently pass a CI gate")
MostRunsDecide ==
  \A r \in results :
    LET all == Cardinality(Indices(r.metric))
        met == Cardinality(Meeting(r.metric, r.op))
    IN /\ 2 * met > all => r.status = "pass"
       /\ 2 * (all - met) > all \/ all = 0
            => r.status = IF budget[r.metric].level = "warn" THEN "warn" ELSE "fail"

\* The overall status does not depend on the order Go's map iteration happens
\* to take: it is the worst of all results, every bound of the budget has one,
\* and a budget that Validate let through has at least one. (Evaluate)
VerdictIsTheWorst ==
  pc = "done" =>
    LET statuses == {r.status : r \in results}
    IN /\ statuses # {}
       /\ verdict = IF "fail" \in statuses THEN "fail"
                    ELSE IF "warn" \in statuses THEN "warn" ELSE "pass"
       /\ \A key \in DOMAIN budget : \A op \in {"max", "min"} :
            budget[key][op] # None <=> \E r \in results : r.metric = key /\ r.op = op

-----------------------------------------------------------------------------
(* The inductive invariant behind both, in named parts. See BudgetProofs.   *)

Statuses == {r.status : r \in results}

LoopShape ==
  /\ pc \in {"validate", "collect", "aggregate", "evaluate", "done", "refused"}
  /\ pc \notin {"validate", "refused"} => Valid(budget)
  /\ pc \notin {"evaluate", "done"} => results = {} /\ verdict = "pass"
  /\ pc = "done" => left = {}
  /\ left \subseteq DOMAIN budget

\* A key the loop has come to has a result for each of its bounds, no other has one.
EveryBoundIsJudged ==
  /\ \A r \in results : /\ r.metric \in DOMAIN budget \ left
                        /\ r.status \in {"pass", "warn", "fail"}
  /\ pc \in {"evaluate", "done"} =>
       \A key \in DOMAIN budget \ left : \A op \in {"max", "min"} :
         budget[key][op] # None <=> \E r \in results : r.metric = key /\ r.op = op

WorstSoFar ==
  verdict = IF "fail" \in Statuses THEN "fail" ELSE IF "warn" \in Statuses THEN "warn" ELSE "pass"

\* What the loop judges: the medians of what the runs measured.
Measured ==
  /\ budget \in UNION {[keys -> Assertions] : keys \in SUBSET Metrics}
  /\ runs \in Seq([DOMAIN budget -> Values \cup {None}])
  /\ pc \in {"evaluate", "done"} =>
       metrics = [key \in DOMAIN budget |->
                    IF Indices(key) = {} THEN None ELSE Median(Collected(key))]

\* Each result is one that its bound gives.
Judged == \A r \in results : r \in Results(r.metric)

IndInv == LoopShape /\ EveryBoundIsJudged /\ WorstSoFar /\ Measured /\ Judged
=============================================================================
