---------------------------- MODULE BudgetProofs -----------------------------
(***************************************************************************)
(* The verdict of a budget is what most runs say of each assertion, and    *)
(* the worst of that in whatever order Evaluate comes to the assertions:   *)
(* for any budget, any number of runs and any values. First the median of  *)
(* a sample, then the loop, then what both say of a result.                *)
(***************************************************************************)
EXTENDS BudgetGate, FiniteSetTheorems, TLAPS

-----------------------------------------------------------------------------
(* The median                                                              *)

\* Where the values of f are in A.
Hits(f, A) == {x \in DOMAIN f : f[x] \in A}

\* A part of a finite set is finite, and not larger.
LEMMA PartIsSmaller ==
  ASSUME NEW whole, IsFiniteSet(whole), NEW part, part \subseteq whole
  PROVE  IsFiniteSet(part) /\ Cardinality(part) \in Nat /\ Cardinality(part) <= Cardinality(whole)
<1>1. part \in SUBSET whole
  OBVIOUS
<1>2. IsFiniteSet(part) /\ Cardinality(part) <= Cardinality(whole)
  BY <1>1, FS_Subset
<1> QED
  BY <1>2, FS_CardinalityType

\* A function seen through a bijection has its values in A as often.
LEMMA CountedThrough ==
  ASSUME NEW S, NEW T, NEW p \in Bijection(S, T), NEW f, DOMAIN f = T, NEW A, IsFiniteSet(S)
  PROVE  Cardinality(Hits([x \in S |-> f[p[x]]], A)) = Cardinality(Hits(f, A))
<1> DEFINE from == Hits([x \in S |-> f[p[x]]], A)
           to   == Hits(f, A)
           q    == [x \in from |-> p[x]]
<1>1. /\ p \in [S -> T]
      /\ \A a, b \in S : p[a] = p[b] => a = b
      /\ \A y \in T : \E x \in S : p[x] = y
  BY DEF Bijection, Injection, Surjection, IsInjective
<1>2. /\ from = {x \in S : f[p[x]] \in A}
      /\ to = {y \in T : f[y] \in A}
  BY DEF Hits
<1> HIDE DEF from, to
<1>3. q \in [from -> to]
  BY <1>1, <1>2
<1>4. \A a, b \in from : q[a] = q[b] => a = b
  BY <1>1, <1>2
<1>5. \A y \in to : \E x \in from : q[x] = y
  BY <1>1, <1>2
<1> HIDE DEF q
<1>6. q \in Bijection(from, to)
  BY <1>3, <1>4, <1>5 DEF Bijection, Injection, Surjection, IsInjective
<1>7. IsFiniteSet(from)
  BY <1>2, FS_Subset
<1>8. Cardinality(to) = Cardinality(from)
  BY <1>6, <1>7, FS_Bijection DEF ExistsBijection
<1> QED
  BY <1>8 DEF from, to

\* Every sample can be sorted: the place of a value is how many come before it,
\* the earlier ones first where they are equal.
LEMMA SortingExists ==
  ASSUME NEW n \in Nat, NEW v \in [1..n -> Int]
  PROVE  \E p \in Bijection(1..n, 1..n) : \A i, j \in 1..n : i < j => v[p[i]] <= v[p[j]]
<1> DEFINE before(k, i) == v[k] < v[i] \/ (v[k] = v[i] /\ k < i)
           ahead(i) == {k \in 1..n : before(k, i)}
           place == [i \in 1..n |-> Cardinality(ahead(i)) + 1]
<1>1. IsFiniteSet(1..n) /\ Cardinality(1..n) = n
  BY FS_Interval
<1>2. ASSUME NEW i \in 1..n
      PROVE  /\ IsFiniteSet(ahead(i)) /\ Cardinality(ahead(i)) \in Nat
             /\ Cardinality(ahead(i)) + 1 <= n
  <2>1. ahead(i) \subseteq 1..n /\ i \notin ahead(i) /\ v[i] \in Int
    OBVIOUS
  <2> HIDE DEF ahead
  <2>2. IsFiniteSet(ahead(i)) /\ Cardinality(ahead(i)) \in Nat
    BY <1>1, <2>1, FS_Subset, FS_CardinalityType
  <2>3. Cardinality(ahead(i) \cup {i}) = Cardinality(ahead(i)) + 1
    BY <2>1, <2>2, FS_AddElement
  <2>4. Cardinality(ahead(i) \cup {i}) <= n
    <3>1. ahead(i) \cup {i} \in SUBSET (1..n)
      BY <2>1
    <3> QED
      BY <1>1, <3>1, FS_Subset
  <2> QED
    BY <2>2, <2>3, <2>4
<1>3. ASSUME NEW i \in 1..n, NEW j \in 1..n, before(i, j) PROVE place[i] < place[j]
  <2>1. ahead(i) \cup {i} \subseteq ahead(j)
    BY <1>3
  <2>2. i \notin ahead(i)
    OBVIOUS
  <2>3. place[i] = Cardinality(ahead(i)) + 1 /\ place[j] = Cardinality(ahead(j)) + 1
    OBVIOUS
  <2> HIDE DEF ahead, place
  <2>4. Cardinality(ahead(i) \cup {i}) = Cardinality(ahead(i)) + 1
    BY <1>2, <2>2, FS_AddElement
  <2>5. Cardinality(ahead(i) \cup {i}) <= Cardinality(ahead(j))
    BY <1>2, <2>1, FS_Subset
  <2> QED
    BY <1>2, <2>3, <2>4, <2>5
<1>4. \A i, j \in 1..n : i # j => before(i, j) \/ before(j, i)
  OBVIOUS
<1>5. \A i, j \in 1..n : v[i] < v[j] => before(i, j)
  OBVIOUS
<1>6. place \in [1..n -> 1..n]
  <2>1. \A i \in 1..n : Cardinality(ahead(i)) + 1 \in 1..n
    <3> HIDE DEF ahead
    <3> QED
      BY <1>2
  <2> QED
    BY <2>1
<1>7. place \in Injection(1..n, 1..n)
  <2>1. ASSUME NEW i \in 1..n, NEW j \in 1..n, place[i] = place[j] PROVE i = j
    <3>1. ~ (place[i] < place[j]) /\ ~ (place[j] < place[i])
      <4> HIDE DEF place
      <4> QED
        BY <1>6, <2>1
    <3>2. ~ before(i, j) /\ ~ before(j, i)
      BY ONLY <1>3, <3>1, i \in 1..n, j \in 1..n
    <3> QED
      BY <1>4, <3>2
  <2> HIDE DEF place
  <2> QED
    BY <1>6, <2>1 DEF Injection, IsInjective
<1> HIDE DEF before, place
<1>8. place \in Surjection(1..n, 1..n)
  BY <1>1, <1>7, FS_Injection
<1> DEFINE p == [q \in 1..n |-> CHOOSE i \in 1..n : place[i] = q]
<1>9. \A q \in 1..n : p[q] \in 1..n /\ place[p[q]] = q
  BY <1>8 DEF Surjection
<1>10. \A i \in 1..n : p[place[i]] = i
  BY <1>6, <1>7, <1>9 DEF Injection, IsInjective
<1>11. p \in [1..n -> 1..n]
  BY <1>9
<1> HIDE DEF p
<1>12. p \in Bijection(1..n, 1..n)
  <2>1. \A a, b \in 1..n : p[a] = p[b] => a = b
    BY <1>9
  <2>2. \A i \in 1..n : \E q \in 1..n : p[q] = i
    BY <1>6, <1>10
  <2> QED
    BY <1>11, <2>1, <2>2 DEF Bijection, Injection, Surjection, IsInjective
<1>13. ASSUME NEW i \in 1..n, NEW j \in 1..n, i < j PROVE v[p[i]] <= v[p[j]]
  <2>1. p[i] \in 1..n /\ p[j] \in 1..n /\ ~ (place[p[j]] < place[p[i]])
    BY <1>9, <1>13
  <2>2. ~ before(p[j], p[i])
    BY <1>3, <2>1
  <2>3. ~ (v[p[j]] < v[p[i]])
    BY <1>5, <2>1, <2>2
  <2> QED
    BY <2>1, <2>3
<1> QED
  BY <1>12, <1>13

\* A sorted copy has what the sample has, in order.
LEMMA SortedSample ==
  ASSUME NEW v, v \in Seq(Int)
  PROVE  /\ Sorted(v) \in [1..Len(v) -> Int]
         /\ \A i, j \in 1..Len(v) : i <= j => Sorted(v)[i] <= Sorted(v)[j]
         /\ \A A : Cardinality(Hits(Sorted(v), A)) = Cardinality(Hits(v, A))
<1>0. PICK n \in Nat : n = Len(v)
  OBVIOUS
<1>1. v \in [1..n -> Int]
  BY <1>0
<1>2. PICK p \in Bijection(1..n, 1..n) :
        /\ \A i, j \in 1..n : i < j => v[p[i]] <= v[p[j]]
        /\ Sorted(v) = [i \in 1..n |-> v[p[i]]]
  <2>1. \E p : p \in Sortings(v)
    BY <1>0, <1>1, SortingExists DEF Sortings
  <2>2. (CHOOSE p \in Sortings(v) : TRUE) \in Sortings(v)
    BY <2>1
  <2>3. PICK p \in Sortings(v) : p = (CHOOSE q \in Sortings(v) : TRUE)
    BY <2>2
  <2>4. Sorted(v) = [i \in 1..n |-> v[p[i]]]
    BY <1>0, <2>3 DEF Sorted
  <2> QED
    BY <1>0, <2>3, <2>4 DEF Sortings
<1>3. p \in [1..n -> 1..n]
  BY DEF Bijection, Injection
<1>4. Sorted(v) \in [1..n -> Int]
  BY <1>1, <1>2, <1>3
<1>5. ASSUME NEW i \in 1..n, NEW j \in 1..n, i <= j PROVE Sorted(v)[i] <= Sorted(v)[j]
  <2>1. CASE i = j
    BY <1>4, <2>1
  <2>2. CASE i < j
    BY <1>2, <2>2
  <2> QED
    BY <1>5, <2>1, <2>2
<1>6. ASSUME NEW A PROVE Cardinality(Hits(Sorted(v), A)) = Cardinality(Hits(v, A))
  <2> PICK places : places = 1..n
    OBVIOUS
  <2>1. IsFiniteSet(places)
    BY FS_Interval
  <2>2. DOMAIN v = places /\ p \in Bijection(places, places) /\ Sorted(v) = [i \in places |-> v[p[i]]]
    BY <1>1, <1>2
  <2> QED
    BY ONLY <2>1, <2>2, CountedThrough
<1> QED
  BY <1>0, <1>4, <1>5, <1>6

\* What holds of more than m values of a sorted sample, and of every value below
\* one of which it holds, holds of the one at place m + 1.
LEMMA LowMany ==
  ASSUME NEW n \in Nat, NEW s \in [1..n -> Int], \A i, j \in 1..n : i <= j => s[i] <= s[j],
         NEW A, \A x, y \in Int : x \in A /\ y <= x => y \in A,
         NEW m \in Nat, m < n, Cardinality(Hits(s, A)) > m
  PROVE  s[m + 1] \in A
<1> SUFFICES ASSUME s[m + 1] \notin A PROVE FALSE
  OBVIOUS
<1> DEFINE there == Hits(s, A)
<1>1. there = {i \in 1..n : s[i] \in A}
  BY DEF Hits
<1>2. PICK places : places = 1..m
  OBVIOUS
<1>3. there \subseteq places
  <2> SUFFICES ASSUME NEW i \in 1..n, s[i] \in A, i > m PROVE FALSE
    BY <1>1, <1>2
  <2>1. m + 1 \in 1..n /\ m + 1 <= i
    OBVIOUS
  <2>2. s[m + 1] <= s[i] /\ s[m + 1] \in Int /\ s[i] \in Int
    BY <2>1
  <2> QED
    BY <2>2
<1>4. IsFiniteSet(places) /\ Cardinality(places) = m
  BY FS_Interval, <1>2
<1>5. Cardinality(there) > m
  OBVIOUS
<1> HIDE DEF there
<1>6. Cardinality(there) <= m /\ Cardinality(there) \in Nat
  BY ONLY <1>3, <1>4, PartIsSmaller
<1> QED
  BY ONLY <1>5, <1>6, m \in Nat

\* The same from above: place n - m is the one that m values follow.
LEMMA HighMany ==
  ASSUME NEW n \in Nat, NEW s \in [1..n -> Int], \A i, j \in 1..n : i <= j => s[i] <= s[j],
         NEW A, \A x, y \in Int : x \in A /\ x <= y => y \in A,
         NEW m \in Nat, m < n, Cardinality(Hits(s, A)) > m
  PROVE  s[n - m] \in A
<1> SUFFICES ASSUME s[n - m] \notin A PROVE FALSE
  OBVIOUS
<1> DEFINE there == Hits(s, A)
<1>1. there = {i \in 1..n : s[i] \in A}
  BY DEF Hits
<1>2. PICK places : places = (n - m + 1)..n
  OBVIOUS
<1>3. there \subseteq places
  <2> SUFFICES ASSUME NEW i \in 1..n, s[i] \in A, i <= n - m PROVE FALSE
    BY <1>1, <1>2
  <2>1. n - m \in 1..n
    OBVIOUS
  <2>2. s[i] <= s[n - m] /\ s[n - m] \in Int /\ s[i] \in Int
    BY <2>1
  <2> QED
    BY <2>2
<1>4. IsFiniteSet(places) /\ Cardinality(places) = m
  <2>1. n - m + 1 \in Int /\ n \in Int /\ n - (n - m + 1) + 1 = m
        /\ (n - m + 1 > n <=> m = 0)
    OBVIOUS
  <2> QED
    BY <2>1, FS_Interval, <1>2
<1>5. Cardinality(there) > m
  OBVIOUS
<1> HIDE DEF there
<1>6. Cardinality(there) <= m /\ Cardinality(there) \in Nat
  BY ONLY <1>3, <1>4, PartIsSmaller
<1> QED
  BY ONLY <1>5, <1>6, m \in Nat

\* The median is the middle value, or lies half way between the two.
LEMMA MedianIs ==
  ASSUME NEW v, v \in Seq(Int), Len(v) > 0
  PROVE  \E k \in Nat :
           \/ Len(v) = 2 * k + 1 /\ Median(v) = 100 * Sorted(v)[k + 1]
           \/ Len(v) = 2 * k + 2 /\ Median(v) = 50 * (Sorted(v)[k + 1] + Sorted(v)[k + 2])
<1>0. PICK n \in Nat : n = Len(v) /\ n > 0
  OBVIOUS
<1>1. PICK s : s = Sorted(v) /\ s \in [1..n -> Int]
  BY <1>0, SortedSample
<1> DEFINE rank == 50 * (n - 1)
<1>2. Median(v) = IF (rank \div 100) + 1 >= n THEN 100 * s[n]
                  ELSE 100 * s[(rank \div 100) + 1]
                       + (rank % 100) * (s[(rank \div 100) + 2] - s[(rank \div 100) + 1])
  BY <1>0, <1>1 DEF Median, Percentile
<1>3. PICK k \in Nat : n = 2 * k + 1 \/ n = 2 * k + 2
  <2>1. (n - 1) \div 2 \in Nat
    BY <1>0
  <2>2. n = 2 * ((n - 1) \div 2) + 1 \/ n = 2 * ((n - 1) \div 2) + 2
    BY <1>0
  <2> QED
    BY <2>1, <2>2
<1>4. CASE n = 2 * k + 1
  <2>1. rank \div 100 = k /\ rank % 100 = 0
    BY <1>4
  <2>2. CASE k = 0
    BY <1>0, <1>1, <1>2, <1>4, <2>1, <2>2
  <2>3. CASE k > 0
    <3>1. Median(v) = 100 * s[k + 1] + 0 * (s[k + 2] - s[k + 1])
      BY <1>2, <1>4, <2>1, <2>3
    <3>2. s[k + 1] \in Int /\ s[k + 2] \in Int
      BY <1>1, <1>4, <2>3
    <3> QED
      BY <1>0, <1>1, <1>4, <3>1, <3>2
  <2> QED
    BY <2>2, <2>3
<1>5. CASE n = 2 * k + 2
  <2>1. rank \div 100 = k /\ rank % 100 = 50
    BY <1>5
  <2>2. Median(v) = 100 * s[k + 1] + 50 * (s[k + 2] - s[k + 1])
    BY <1>2, <1>5, <2>1
  <2>3. s[k + 1] \in Int /\ s[k + 2] \in Int
    BY <1>1, <1>5
  <2> QED
    BY <1>0, <1>1, <1>5, <2>2, <2>3
<1> QED
  BY <1>3, <1>4, <1>5

\* What most of a sample say, the median says: to be on one side of a threshold.
LEMMA MedianIsOfMost ==
  ASSUME NEW v, v \in Seq(Int), NEW A \in SUBSET Int,
         \/ \A x, y \in Int : x \in A /\ y <= x => y \in A
         \/ \A x, y \in Int : x \in A /\ x <= y => y \in A,
         2 * Cardinality(Hits(v, A)) > Len(v)
  PROVE  \E x, y \in A : Median(v) = 100 * x \/ Median(v) = 50 * (x + y)
<1>0. PICK n \in Nat : n = Len(v)
  OBVIOUS
<1>1. PICK s : s = Sorted(v)
  OBVIOUS
<1> DEFINE many == Cardinality(Hits(s, A))
<1>2. s \in [1..n -> Int] /\ \A i, j \in 1..n : i <= j => s[i] <= s[j]
  BY <1>0, <1>1, SortedSample
<1>3. many \in Nat /\ many <= n
  <2> PICK places : places = 1..n
    OBVIOUS
  <2>1. IsFiniteSet(places) /\ Cardinality(places) = n
    BY FS_Interval
  <2>2. Hits(s, A) \subseteq places
    BY <1>2 DEF Hits
  <2> QED
    BY ONLY <2>1, <2>2, PartIsSmaller
<1>4. 2 * many > n
  BY <1>0, <1>1, SortedSample
<1>5. Len(v) > 0
  BY <1>0, <1>3, <1>4
<1> HIDE DEF many
<1>6. PICK k \in Nat : \/ n = 2 * k + 1 /\ Median(v) = 100 * s[k + 1]
                       \/ n = 2 * k + 2 /\ Median(v) = 50 * (s[k + 1] + s[k + 2])
  BY <1>0, <1>1, <1>5, MedianIs
<1>7. s[k + 1] \in A /\ (n = 2 * k + 2 => s[k + 2] \in A)
  <2>1. k + 1 \in 1..n /\ (n = 2 * k + 2 => k + 2 \in 1..n)
    BY <1>6
  <2>2. many > k /\ (n = 2 * k + 2 => many > k + 1 /\ k + 1 < n) /\ k < n
    BY <1>3, <1>4, <1>6
  <2>3. CASE \A x, y \in Int : x \in A /\ y <= x => y \in A
    <3>1. s[k + 1] \in A
      BY <1>2, <2>2, <2>3, LowMany DEF many
    <3>2. n = 2 * k + 2 => s[(k + 1) + 1] \in A
      BY <1>2, <2>2, <2>3, LowMany, k + 1 \in Nat DEF many
    <3> QED
      BY <3>1, <3>2
  <2>4. CASE \A x, y \in Int : x \in A /\ x <= y => y \in A
    <3>1. CASE n = 2 * k + 1
      <4>1. s[n - k] \in A
        BY <1>2, <2>2, <2>4, HighMany DEF many
      <4> QED
        BY <3>1, <4>1
    <3>2. CASE n = 2 * k + 2
      <4>0. PICK m \in Nat : m = k + 1 /\ m < n /\ many > m
        BY <2>2, <3>2
      <4>1. s[n - m] \in A
        BY <1>2, <2>4, <4>0, HighMany DEF many
      <4>2. s[n - k] \in A
        BY <1>2, <2>2, <2>4, HighMany DEF many
      <4>3. n - m = k + 1 /\ n - k = k + 2
        BY <3>2, <4>0
      <4> QED
        BY <4>1, <4>2, <4>3
    <3> QED
      BY <1>6, <3>1, <3>2
  <2> QED
    BY <2>3, <2>4
<1> QED
  BY <1>6, <1>7

-----------------------------------------------------------------------------
(* The loop                                                                *)

LEMMA InitInv == Init => IndInv
BY DEF Init, IndInv, LoopShape, EveryBoundIsJudged, WorstSoFar, Statuses, Measured, Judged

\* Before the loop nothing is judged.
LEMMA BeforeTheLoop ==
  ASSUME IndInv, Validate \/ Collect \/ Aggregate
  PROVE  IndInv'
<1>1. results = {} /\ results' = {} /\ verdict' = "pass" /\ budget' = budget
  BY DEF Validate, Collect, Aggregate, IndInv, LoopShape
<1>2. LoopShape'
  <2>1. CASE Validate
    BY <2>1, <1>1 DEF Validate, IndInv, LoopShape, Valid
  <2>2. CASE Collect
    BY <2>2, <1>1 DEF Collect, IndInv, LoopShape, Valid
  <2>3. CASE Aggregate
    <3>1. left' = DOMAIN budget /\ DOMAIN budget # {} /\ pc' = "evaluate" /\ Valid(budget)
      BY <2>3 DEF Aggregate, IndInv, LoopShape, Valid
    <3> QED
      BY <1>1, <3>1 DEF LoopShape, Valid
  <2> QED
    BY <2>1, <2>2, <2>3
<1>3. EveryBoundIsJudged'
  <2>1. pc' \in {"evaluate", "done"} => left' = DOMAIN budget
    BY DEF Validate, Collect, Aggregate
  <2> QED
    BY <1>1, <2>1 DEF EveryBoundIsJudged
<1>4. WorstSoFar'
  BY <1>1 DEF WorstSoFar, Statuses
<1>5. Measured'
  <2>1. /\ budget' \in UNION {[keys -> Assertions] : keys \in SUBSET Metrics}
        /\ runs' \in Seq([DOMAIN budget' -> Values \cup {None}])
    <3> PICK maps : maps = [DOMAIN budget -> Values \cup {None}]
      OBVIOUS
    <3>1. runs \in Seq(maps)
      BY DEF IndInv, Measured
    <3>2. runs' = runs \/ \E run \in maps : runs' = Append(runs, run)
      BY DEF Validate, Collect, Aggregate
    <3>3. runs' \in Seq(maps)
      BY ONLY <3>1, <3>2
    <3> QED
      BY <1>1, <3>3 DEF IndInv, Measured
  <2>2. ASSUME pc' \in {"evaluate", "done"}
        PROVE  metrics' = [key \in DOMAIN budget' |->
                             IF Indices(key)' = {} THEN None ELSE Median(Collected(key)')]
    <3>1. Aggregate
      BY <2>2 DEF Validate, Collect
    <3>2. \A key : Indices(key)' = Indices(key) /\ Collected(key)' = Collected(key)
      BY <3>1 DEF Aggregate, Indices, Collected
    <3> QED
      BY <3>1, <3>2, <1>1 DEF Aggregate
  <2> QED
    BY <2>1, <2>2 DEF Measured
<1>6. Judged'
  BY <1>1 DEF Judged
<1> QED
  BY <1>2, <1>3, <1>4, <1>5, <1>6 DEF IndInv

\* Exactly the bounds that are set have a result, and each status is one of three.
LEMMA ResultsOfKey ==
  ASSUME NEW key
  PROVE  /\ \A r \in Results(key) : r.metric = key /\ r.status \in {"pass", "warn", "fail"}
         /\ \A op \in {"max", "min"} : budget[key][op] # None <=> \E r \in Results(key) : r.op = op
<1>1. Bounds(key) = {bound \in {<<"max", budget[key].max>>, <<"min", budget[key].min>>} :
                       bound[2] # None}
  BY DEF Bounds
<1>2. \A op \in {"max", "min"} : budget[key][op] # None <=> \E bound \in Bounds(key) : bound[1] = op
  <2>1. ASSUME NEW bound
        PROVE  bound \in Bounds(key) <=>
                 \/ bound = <<"max", budget[key]["max"]>> /\ budget[key]["max"] # None
                 \/ bound = <<"min", budget[key]["min"]>> /\ budget[key]["min"] # None
    BY <1>1
  <2>2. ASSUME NEW op \in {"max", "min"}, budget[key][op] # None
        PROVE  \E bound \in Bounds(key) : bound[1] = op
    <3>1. <<op, budget[key][op]>> \in Bounds(key)
      BY <2>1, <2>2
    <3>2. <<op, budget[key][op]>>[1] = op
      OBVIOUS
    <3> QED
      BY <3>1, <3>2
  <2>3. ASSUME NEW op \in {"max", "min"}, NEW bound \in Bounds(key), bound[1] = op
        PROVE  budget[key][op] # None
    <3>1. CASE bound = <<"max", budget[key]["max"]>> /\ budget[key]["max"] # None
      <4>1. bound[1] = "max"
        BY ONLY <3>1
      <4> QED
        BY <2>3, <3>1, <4>1
    <3>2. CASE bound = <<"min", budget[key]["min"]>> /\ budget[key]["min"] # None
      <4>1. bound[1] = "min"
        BY ONLY <3>2
      <4> QED
        BY <2>3, <3>2, <4>1
    <3> QED
      BY <2>1, <3>1, <3>2
  <2> QED
    BY <2>2, <2>3
<1> DEFINE result(bound) ==
             [metric |-> key, op |-> bound[1], actual |-> metrics[key],
              status |-> IF Trips(key, bound[1], bound[2]) THEN TripStatus(Level(key)) ELSE "pass"]
<1>3. Results(key) = {result(bound) : bound \in Bounds(key)}
  BY DEF Results
<1>4. \A bound : /\ result(bound).metric = key /\ result(bound).op = bound[1]
                 /\ result(bound).status \in {"pass", "warn", "fail"}
  BY DEF TripStatus
<1> HIDE DEF result
<1>5. \A r \in Results(key) : r.metric = key /\ r.status \in {"pass", "warn", "fail"}
  BY <1>3, <1>4
<1>6. ASSUME NEW op
      PROVE  (\E r \in Results(key) : r.op = op) <=> \E bound \in Bounds(key) : bound[1] = op
  BY <1>3, <1>4
<1> QED
  BY <1>2, <1>5, <1>6

\* What is judged and how does not change while the budget, the runs and their
\* medians stay.
LEMMA SameJudgement ==
  ASSUME UNCHANGED <<budget, runs, metrics>>
  PROVE  /\ \A key : Results(key)' = Results(key)
         /\ Measured /\ (pc' \in {"evaluate", "done"} => pc \in {"evaluate", "done"}) => Measured'
<1>1. \A key : Results(key)' = Results(key)
  BY DEF Results, Bounds, Trips, Level, TripStatus
<1>2. \A key : Indices(key)' = Indices(key) /\ Collected(key)' = Collected(key)
  BY DEF Indices, Collected
<1> QED
  BY <1>1, <1>2 DEF Measured

\* One turn of the loop, whichever key it is.
LEMMA LoopInv ==
  ASSUME IndInv, NEW key \in Metrics, EvaluateKey(key)
  PROVE  IndInv'
<1>1. /\ pc = "evaluate" /\ key \in left /\ left \subseteq DOMAIN budget
      /\ left' = left \ {key} /\ results' = results \cup Results(key)
      /\ verdict' = Worse(verdict, {r.status : r \in Results(key)})
      /\ pc' = (IF left' = {} THEN "done" ELSE "evaluate") /\ budget' = budget
  BY DEF EvaluateKey, IndInv, LoopShape
<1>2. LoopShape'
  BY <1>1 DEF IndInv, LoopShape, Valid
<1>3. EveryBoundIsJudged'
  <2>1. \A r \in results' : /\ r.metric \in DOMAIN budget' \ left'
                            /\ r.status \in {"pass", "warn", "fail"}
    BY <1>1, ResultsOfKey DEF IndInv, EveryBoundIsJudged
  <2>2. ASSUME NEW k \in DOMAIN budget' \ left', NEW op \in {"max", "min"}
        PROVE  budget'[k][op] # None <=> \E r \in results' : r.metric = k /\ r.op = op
    <3>1. CASE k = key
      <4>1. \A r \in results : r.metric # key
        BY <1>1 DEF IndInv, EveryBoundIsJudged
      <4> QED
        BY <1>1, <3>1, <4>1, ResultsOfKey
    <3>2. CASE k # key
      <4>1. k \in DOMAIN budget \ left
        BY <1>1, <2>2, <3>2
      <4>2. budget[k][op] # None <=> \E r \in results : r.metric = k /\ r.op = op
        BY <1>1, <4>1 DEF IndInv, EveryBoundIsJudged
      <4>3. \A r \in Results(key) : r.metric # k
        BY <3>2, ResultsOfKey
      <4> QED
        BY <1>1, <4>2, <4>3
    <3> QED
      BY <3>1, <3>2
  <2> QED
    BY <2>1, <2>2 DEF EveryBoundIsJudged
<1>4. WorstSoFar'
  <2> DEFINE new == {r.status : r \in Results(key)}
  <2>1. Statuses' = Statuses \cup new
    BY <1>1 DEF Statuses
  <2>2. verdict = IF "fail" \in Statuses THEN "fail"
                  ELSE IF "warn" \in Statuses THEN "warn" ELSE "pass"
    BY DEF IndInv, WorstSoFar
  <2>3. verdict' = Worse(verdict, new)
    BY <1>1
  <2> HIDE DEF new
  <2> QED
    BY <2>1, <2>2, <2>3 DEF Worse, WorstSoFar
<1>5. Measured' /\ \A k : Results(k)' = Results(k)
  <2>1. UNCHANGED <<budget, runs, metrics>>
    BY DEF EvaluateKey
  <2> QED
    BY <1>1, <2>1, SameJudgement DEF IndInv
<1>6. Judged'
  <2>1. \A r \in results : r \in Results(r.metric)
    BY DEF IndInv, Judged
  <2>2. \A r \in Results(key) : r \in Results(r.metric)
    BY ResultsOfKey
  <2> QED
    BY <1>1, <1>5, <2>1, <2>2 DEF Judged
<1> QED
  BY <1>2, <1>3, <1>4, <1>5, <1>6 DEF IndInv

LEMMA StepInv == IndInv /\ [Next]_vars => IndInv'
<1> SUFFICES ASSUME IndInv, [Next]_vars PROVE IndInv'
  OBVIOUS
<1>1. CASE UNCHANGED vars
  <2>1. UNCHANGED <<pc, budget, runs, metrics, left, results, verdict>>
    BY <1>1 DEF vars
  <2>2. LoopShape'
    BY <2>1 DEF IndInv, LoopShape, Valid
  <2>3. EveryBoundIsJudged'
    BY <2>1 DEF IndInv, EveryBoundIsJudged
  <2>4. WorstSoFar'
    BY <2>1 DEF IndInv, WorstSoFar, Statuses
  <2>5. Measured' /\ Judged'
    BY <2>1, SameJudgement DEF IndInv, Judged
  <2> QED
    BY <2>2, <2>3, <2>4, <2>5 DEF IndInv
<1> QED
  BY <1>1, BeforeTheLoop, LoopInv DEF Next

\* When the loop ends there is a key, it has a bound, and the bound has a result.
LEMMA InvSuffices == IndInv => VerdictIsTheWorst
<1> SUFFICES ASSUME IndInv, pc = "done" PROVE VerdictIsTheWorst
  BY DEF VerdictIsTheWorst
<1>1. left = {} /\ Valid(budget)
  BY DEF IndInv, LoopShape
<1>2. \A key \in DOMAIN budget : \A op \in {"max", "min"} :
        budget[key][op] # None <=> \E r \in results : r.metric = key /\ r.op = op
  BY <1>1 DEF IndInv, EveryBoundIsJudged
<1>3. results # {}
  <2>1. PICK key \in DOMAIN budget : budget[key].max # None \/ budget[key].min # None
    BY <1>1 DEF Valid
  <2> QED
    BY <1>2, <2>1
<1>4. {r.status : r \in results} # {}
  BY <1>3
<1> QED
  BY <1>2, <1>4 DEF VerdictIsTheWorst, IndInv, WorstSoFar, Statuses

-----------------------------------------------------------------------------
(* What most runs say                                                      *)

\* What the runs that have the key measured.
Among(key) == [i \in Indices(key) |-> runs[i][key]]

\* Collected has the values of the runs that have the key, each once.
LEMMA CollectedIsAmong ==
  ASSUME NEW key, IsFiniteSet(Indices(key)), \A i \in Indices(key) : runs[i][key] \in Int
  PROVE  /\ Collected(key) \in Seq(Int)
         /\ Len(Collected(key)) = Cardinality(Indices(key))
         /\ \A A : Cardinality(Hits(Collected(key), A)) = Cardinality(Hits(Among(key), A))
<1>1. PICK n, places : n \in Nat /\ n = Cardinality(Indices(key)) /\ places = 1..n
  BY FS_CardinalityType
<1>2. PICK at \in Bijection(places, Indices(key)) :
        Collected(key) = [k \in places |-> runs[at[k]][key]]
  <2>1. \E at : at \in Bijection(places, Indices(key))
    BY <1>1, FS_CardinalityType DEF ExistsBijection
  <2> QED
    BY <1>1, <2>1 DEF Collected
<1>3. at \in [places -> Indices(key)]
  BY DEF Bijection, Injection
<1>4. Collected(key) \in [1..n -> Int]
  BY <1>1, <1>2, <1>3
<1>5. ASSUME NEW A
      PROVE  Cardinality(Hits(Collected(key), A)) = Cardinality(Hits(Among(key), A))
  <2>1. IsFiniteSet(places)
    BY <1>1, FS_Interval
  <2>2. DOMAIN Among(key) = Indices(key)
    BY DEF Among
  <2>3. Collected(key) = [k \in places |-> Among(key)[at[k]]]
    BY <1>2, <1>3 DEF Among
  <2> QED
    BY <2>1, <2>2, <2>3, CountedThrough
<1> QED
  BY <1>1, <1>4, <1>5

\* The values that meet a bound, and those that break it.
Side(op)  == {x \in Int : Within(op, x)}
Other(op) == {x \in Int : ~ Within(op, x)}

\* The median is where most of the runs are.
LEMMA MedianOfRuns ==
  ASSUME NEW key, NEW op \in {"max", "min"}, Threshold \in Int,
         IsFiniteSet(Indices(key)), \A i \in Indices(key) : runs[i][key] \in Int
  PROVE  LET all == Cardinality(Indices(key))
             met == Cardinality(Meeting(key, op))
             med == Median(Collected(key))
         IN /\ 2 * met > all => med \in Int /\ (IF op = "max" THEN med <= 100 * Threshold
                                                ELSE med >= 100 * Threshold)
            /\ 2 * (all - met) > all => med \in Int /\ (IF op = "max" THEN med > 100 * Threshold
                                                        ELSE med < 100 * Threshold)
<1> DEFINE all == Cardinality(Indices(key))
           met == Cardinality(Meeting(key, op))
<1>1. PICK v : v = Collected(key)
  OBVIOUS
<1>2. v \in Seq(Int) /\ Len(v) = all
  BY <1>1, CollectedIsAmong
<1>3. Cardinality(Hits(v, Side(op))) = met
  <2>1. Hits(Among(key), Side(op)) = Meeting(key, op)
    BY DEF Hits, Among, Side, Meeting
  <2> QED
    BY <1>1, <2>1, CollectedIsAmong
<1>4. Cardinality(Hits(v, Other(op))) = all - met
  <2>1. Hits(Among(key), Other(op)) = Indices(key) \ Meeting(key, op)
    BY DEF Hits, Among, Other, Meeting
  <2>2. Indices(key) \cap Meeting(key, op) = Meeting(key, op)
    BY DEF Meeting
  <2>3. Cardinality(Indices(key) \ Meeting(key, op)) = all - met
    BY <2>2, FS_Difference
  <2> QED
    BY <1>1, <2>1, <2>3, CollectedIsAmong
<1> HIDE DEF all, met
<1>5. \A A \in {Side(op), Other(op)} :
        /\ A \in SUBSET Int
        /\ \/ \A x, y \in Int : x \in A /\ y <= x => y \in A
           \/ \A x, y \in Int : x \in A /\ x <= y => y \in A
  BY DEF Side, Other, Within
<1>6. ASSUME 2 * met > all
      PROVE  Median(v) \in Int /\ (IF op = "max" THEN Median(v) <= 100 * Threshold
                                   ELSE Median(v) >= 100 * Threshold)
  <2>1. PICK x \in Side(op), y \in Side(op) : Median(v) = 100 * x \/ Median(v) = 50 * (x + y)
    BY <1>2, <1>3, <1>5, <1>6, MedianIsOfMost
  <2> QED
    BY <2>1 DEF Side, Within
<1>7. ASSUME 2 * (all - met) > all
      PROVE  Median(v) \in Int /\ (IF op = "max" THEN Median(v) > 100 * Threshold
                                   ELSE Median(v) < 100 * Threshold)
  <2>1. PICK x \in Other(op), y \in Other(op) : Median(v) = 100 * x \/ Median(v) = 50 * (x + y)
    BY <1>2, <1>4, <1>5, <1>7, MedianIsOfMost
  <2> QED
    BY <2>1 DEF Other, Within
<1> QED
  BY <1>1, <1>6, <1>7 DEF all, met

\* A result is that of one bound, which compares the median with the threshold.
LEMMA ResultIsOfBound ==
  ASSUME IndInv, NEW r \in results
  PROVE  /\ r.metric \in DOMAIN budget /\ r.op \in {"max", "min"}
         /\ pc \in {"evaluate", "done"}
         /\ r.status = IF Trips(r.metric, r.op, Threshold)
                       THEN (IF budget[r.metric].level = "warn" THEN "warn" ELSE "fail") ELSE "pass"
<1>1. PICK key \in DOMAIN budget : key = r.metric
  BY DEF IndInv, EveryBoundIsJudged
<1>2. pc \in {"evaluate", "done"}
  BY DEF IndInv, LoopShape
<1>3. PICK bound \in Bounds(key) :
        r = [metric |-> key, op |-> bound[1], actual |-> metrics[key],
             status |-> IF Trips(key, bound[1], bound[2]) THEN TripStatus(Level(key)) ELSE "pass"]
  BY <1>1 DEF IndInv, Judged, Results
<1>4. bound[1] \in {"max", "min"} /\ bound[2] = Threshold
  <2>1. budget[key] \in Assertions
    BY DEF IndInv, Measured
  <2>2. budget[key].max \in {Threshold, None} /\ budget[key].min \in {Threshold, None}
    BY <2>1 DEF Assertions
  <2> QED
    BY <2>2 DEF Bounds
<1>5. r.op = bound[1]
      /\ r.status = IF Trips(key, bound[1], bound[2]) THEN TripStatus(Level(key)) ELSE "pass"
  BY <1>3
<1>6. TripStatus(Level(key)) = IF budget[key].level = "warn" THEN "warn" ELSE "fail"
  BY DEF TripStatus, Level
<1> QED
  BY <1>1, <1>2, <1>4, <1>5, <1>6

\* So each result is what most of the runs say.
LEMMA MajoritySuffices == IndInv => MostRunsDecide
<1> SUFFICES ASSUME IndInv, NEW r \in results
             PROVE  LET all == Cardinality(Indices(r.metric))
                        met == Cardinality(Meeting(r.metric, r.op))
                    IN /\ 2 * met > all => r.status = "pass"
                       /\ 2 * (all - met) > all \/ all = 0
                            => r.status = IF budget[r.metric].level = "warn" THEN "warn" ELSE "fail"
  BY DEF MostRunsDecide
<1>1. PICK key, op : key = r.metric /\ op = r.op
  OBVIOUS
<1>2. /\ key \in DOMAIN budget /\ op \in {"max", "min"} /\ pc \in {"evaluate", "done"}
      /\ r.status = IF Trips(key, op, Threshold)
                    THEN (IF budget[key].level = "warn" THEN "warn" ELSE "fail") ELSE "pass"
  BY <1>1, ResultIsOfBound
<1> DEFINE all == Cardinality(Indices(key))
           met == Cardinality(Meeting(key, op))
<1>3. metrics[key] = IF Indices(key) = {} THEN None ELSE Median(Collected(key))
  BY <1>2 DEF IndInv, Measured
<1>4. IsFiniteSet(Indices(key)) /\ \A i \in Indices(key) : runs[i][key] \in Int
  <2> PICK maps : maps = [DOMAIN budget -> Values \cup {None}]
    OBVIOUS
  <2>1. runs \in Seq(maps)
    BY DEF IndInv, Measured
  <2>2. PICK n \in Nat : n = Len(runs)
    BY <2>1
  <2>3. \A i \in 1..n : runs[i] \in maps
    BY <2>1, <2>2
  <2>4. Indices(key) = {i \in 1..n : runs[i][key] # None}
    BY <2>2 DEF Indices
  <2>5. IsFiniteSet(1..n) /\ Indices(key) \subseteq 1..n
    BY <2>4, FS_Interval
  <2>6. IsFiniteSet(Indices(key))
    BY ONLY <2>5, PartIsSmaller
  <2>7. \A i \in Indices(key) : runs[i][key] \in Int
    BY <1>2, <2>3, <2>4, ValuesAssumption
  <2> QED
    BY <2>6, <2>7
<1>5. CASE Indices(key) = {}
  <2>1. all = 0 /\ met = 0
    BY <1>5, FS_EmptySet DEF Meeting
  <2>2. Trips(key, op, Threshold)
    BY <1>3, <1>5 DEF Trips
  <2> QED
    BY <1>1, <1>2, <2>1, <2>2
<1>6. CASE Indices(key) # {}
  <2>1. all # 0
    BY <1>4, <1>6, FS_EmptySet
  <2>2. /\ 2 * met > all => metrics[key] \in Int /\ (IF op = "max" THEN metrics[key] <= 100 * Threshold
                                                     ELSE metrics[key] >= 100 * Threshold)
        /\ 2 * (all - met) > all => metrics[key] \in Int
                                    /\ (IF op = "max" THEN metrics[key] > 100 * Threshold
                                        ELSE metrics[key] < 100 * Threshold)
    BY <1>2, <1>3, <1>4, <1>6, MedianOfRuns, ValuesAssumption
  <2> HIDE DEF all, met
  <2>3. 2 * met > all => ~ Trips(key, op, Threshold)
    BY <1>2, <2>2, ValuesAssumption DEF Trips
  <2>4. 2 * (all - met) > all => Trips(key, op, Threshold)
    BY <1>2, <2>2 DEF Trips
  <2> USE DEF all, met
  <2> QED
    BY <1>1, <1>2, <2>1, <2>3, <2>4
<1> QED
  BY <1>5, <1>6

-----------------------------------------------------------------------------
\* Of every reachable state: the keys the loop has come to are judged, by the
\* medians of what the runs measured, no other is, and the verdict is the worst
\* of the results so far.
THEOREM InvariantHolds == Spec => []IndInv
BY InitInv, StepInv, PTL DEF Spec

\* The verdict is the worst of all results in whatever order Go's map iteration
\* comes to them, and every bound of the budget has one.
THEOREM VerdictIsTheWorstHolds == Spec => []VerdictIsTheWorst
BY InvSuffices, InvariantHolds, PTL

\* The median is what most runs say, however many runs there are, whatever they
\* measure and whatever the threshold: an assertion that more than half of the
\* runs with its metric meet passes, one that more than half break trips at its
\* level, and so does one that no run has the metric for.
THEOREM MostRunsDecideHolds == Spec => []MostRunsDecide
BY MajoritySuffices, InvariantHolds, PTL
=============================================================================
