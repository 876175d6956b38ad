-------------------------------- MODULE Stats --------------------------------
(***************************************************************************)
(* The descriptive statistics of internal/stats, over integer samples. The *)
(* code interpolates in float64; here results are exact, in hundredths.    *)
(***************************************************************************)
EXTENDS Integers, Sequences, Functions

\* The rearrangements of the sample in which no value is below the one before.
Sortings(values) ==
  LET places == 1..Len(values)
  IN {p \in Bijection(places, places) :
        \A i, j \in places : i < j => values[p[i]] <= values[p[j]]}

\* A sorted copy. (sort.Float64s, which need not be stable)
Sorted(values) ==
  LET p == CHOOSE p \in Sortings(values) : TRUE
  IN [i \in 1..Len(values) |-> values[p[i]]]

\* Percentile for 0 <= p <= 100: linear interpolation between closest ranks,
\* 0 of an empty sample. At p = 0 and p = 100 the formula gives the first and
\* the last value, which the code returns early.
Percentile(values, p) ==
  LET n      == Len(values)
      sorted == Sorted(values)
      rank   == p * (n - 1)      \* in hundredths, from 0
      lo     == rank \div 100
      frac   == rank % 100
  IN CASE n = 0        -> 0
       [] n # 0 /\ lo + 1 >= n -> 100 * sorted[n]
       [] OTHER        -> 100 * sorted[lo + 1] + frac * (sorted[lo + 2] - sorted[lo + 1])

Median(values) == Percentile(values, 50)
=============================================================================
