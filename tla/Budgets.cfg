SPECIFICATION Spec
CONSTANTS
  ttfb = ttfb
  lcp = lcp
  bogus = bogus
  Metrics = {ttfb, lcp, bogus}
  MetricKeys = {ttfb, lcp}
  MaxAssertions = 2
  Values = {0, 1, 2}
  Threshold = 1
  MaxRuns = 3
  None = None
INVARIANTS
  MostRunsDecide
  VerdictIsTheWorst
CHECK_DEADLOCK FALSE
