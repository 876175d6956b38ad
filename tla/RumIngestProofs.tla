--------------------------- MODULE RumIngestProofs ---------------------------
(***************************************************************************)
(* The bound on what the public endpoint may write, for any bucket, any    *)
(* number of handlers and any window.                                      *)
(***************************************************************************)
EXTENDS RumIngest, FiniteSetTheorems, TLAPS

USE BucketAssumption

\* A refill adds at most what the elapsed ticks bring and never spills over.
LEMMA RefillBounds ==
  ASSUME TypeOK
  PROVE  /\ Available \in 0..Burst
         /\ Available <= tokens + idle * Rate
         /\ tokens <= Available
<1>1. idle * Rate \in Nat
  BY DEF TypeOK
<1> DEFINE added == idle * Rate
<1>2. added \in Nat
  BY <1>1
<1>3. Available = IF tokens + added > Burst THEN Burst ELSE tokens + added
  BY DEF Available
<1> HIDE DEF added
<1>4. /\ Available \in 0..Burst
      /\ Available <= tokens + added
      /\ tokens <= Available
  BY <1>2, <1>3 DEF TypeOK
<1> QED
  BY <1>4 DEF added

\* The requests under way are finitely many.
LEMMA InFlightIsFinite ==
  IsFiniteSet(InFlight) /\ Cardinality(InFlight) \in Nat
<1>1. InFlight \subseteq Handlers
  BY DEF InFlight
<1> QED
  BY <1>1, HandlersAssumption, FS_Subset, FS_CardinalityType

\* A handler that is let through is one more under way.
LEMMA OneMore ==
  ASSUME TypeOK, NEW h \in Handlers, pc[h] = "free",
         pc' = [pc EXCEPT ![h] = "allowed"]
  PROVE  Cardinality(InFlight') = Cardinality(InFlight) + 1
<1>1. InFlight' = InFlight \cup {h} /\ h \notin InFlight
  BY DEF InFlight, TypeOK
<1> QED
  BY <1>1, InFlightIsFinite, FS_AddElement

\* A handler that ends is one less.
LEMMA OneLess ==
  ASSUME TypeOK, NEW h \in Handlers, pc[h] = "allowed",
         pc' = [pc EXCEPT ![h] = "free"]
  PROVE  Cardinality(InFlight') = Cardinality(InFlight) - 1
<1>1. InFlight' = InFlight \ {h} /\ h \in InFlight
  BY DEF InFlight, TypeOK
<1> QED
  BY <1>1, InFlightIsFinite, FS_RemoveElement

-----------------------------------------------------------------------------
LEMMA TypeInit == Init => TypeOK
  BY BoundsAssumption DEF Init, TypeOK

LEMMA TypeStep == TypeOK /\ [Next]_vars => TypeOK'
<1> SUFFICES ASSUME TypeOK, [Next]_vars PROVE TypeOK'
  OBVIOUS
<1>1. ASSUME NEW h \in Handlers, Allow(h) PROVE TypeOK'
  <2>1. tokens' \in 0..Burst
    BY <1>1, RefillBounds DEF Allow
  <2> QED
    BY <1>1, <2>1, BoundsAssumption DEF Allow, Watched, TypeOK
<1>2. ASSUME NEW h \in Handlers, Refuse(h) PROVE TypeOK'
  <2>1. tokens' \in 0..Burst
    BY <1>2, RefillBounds DEF Refuse
  <2> QED
    BY <1>2, <2>1, BoundsAssumption DEF Refuse, watch, TypeOK
<1>3. ASSUME NEW h \in Handlers, Store(h) PROVE TypeOK'
  BY <1>3 DEF Store, Watched, bucket, TypeOK
<1>4. ASSUME NEW h \in Handlers, Discard(h) PROVE TypeOK'
  BY <1>4 DEF Discard, bucket, watch, TypeOK
<1>5. CASE StartWatching
  <2>1. Cost * Cardinality(InFlight) \in Nat
    BY InFlightIsFinite
  <2> QED
    BY <1>5, <2>1, BoundsAssumption DEF StartWatching, Observe, bucket, TypeOK
<1>6. CASE Clock
  BY <1>6, BoundsAssumption DEF Clock, StopWatching, Observe, TypeOK
<1>7. CASE Restart
  BY <1>7, BoundsAssumption DEF Restart, StopWatching, Observe, TypeOK
<1>8. CASE UNCHANGED vars
  BY <1>8 DEF vars, bucket, watch, TypeOK
<1> QED
  BY <1>1, <1>2, <1>3, <1>4, <1>5, <1>6, <1>7, <1>8 DEF Next

\* Every variable keeps its type, and the bucket never overflows, in every
\* reachable state. (tokenBucket)
THEOREM TypeOKHolds == Spec => []TypeOK
  BY TypeInit, TypeStep, PTL DEF Spec

-----------------------------------------------------------------------------
\* Tokens: what was spent and what is there never exceed what was given.
LEMMA TokensStep ==
  ASSUME TypeOK, TypeOK', TokensAreSpent, [Next]_vars
  PROVE  TokensAreSpent'
<1> SUFFICES ASSUME observer' = "watching"
             PROVE  spent' + Available' <= Burst * (1 + starts') + Rate * since'
  BY DEF TokensAreSpent
<1>a. /\ Available \in 0..Burst /\ tokens <= Available
      /\ Available <= tokens + idle * Rate
  BY RefillBounds
<1>b. observer = "watching" => spent + Available <= Burst * (1 + starts) + Rate * since
  BY DEF TokensAreSpent
<1>1. ASSUME NEW h \in Handlers, Allow(h) \/ Refuse(h)
      PROVE  spent' + Available' <= Burst * (1 + starts') + Rate * since'
  <2>1. /\ observer = "watching" /\ starts' = starts /\ since' = since
        /\ idle' = 0
    BY <1>1 DEF Allow, Refuse, watch
  <2>2. spent' + tokens' = spent + Available
    <3>1. CASE Allow(h)
      <4>1. tokens' = Available - Cost /\ spent' = spent + Cost
        BY <3>1, <2>1 DEF Allow, Watched
      <4> QED
        BY <4>1, <1>a DEF TypeOK
    <3>2. CASE Refuse(h)
      BY <3>2 DEF Refuse, watch
    <3> QED
      BY <1>1, <3>1, <3>2
  <2>3. tokens' \in 0..Burst /\ spent' \in Nat
    BY DEF TypeOK
  <2>4. idle' * Rate = 0
    BY <2>1
  <2>5. Available' = tokens'
    BY <2>3, <2>4 DEF Available
  <2> QED
    BY <1>b, <2>1, <2>2, <2>5
<1>2. ASSUME NEW h \in Handlers, Store(h) \/ Discard(h)
      PROVE  spent' + Available' <= Burst * (1 + starts') + Rate * since'
  BY <1>2, <1>b DEF Store, Discard, bucket, watch, Available
<1>3. CASE StartWatching
  <2>1. Available' = Available
    BY <1>3 DEF StartWatching, bucket, Available
  <2>2. spent' = 0 /\ starts' = 0 /\ since' = 0
    BY <1>3 DEF StartWatching, Observe
  <2> QED
    BY <1>a, <2>1, <2>2
<1>4. CASE Clock
  <2>1. /\ observer = "watching" /\ starts' = starts /\ since' = since + 1 /\ spent' = spent
        /\ tokens' = tokens /\ idle' \in {idle, idle + 1}
    BY <1>4 DEF Clock, StopWatching, Observe
  <2>2. (idle + 1) * Rate = idle * Rate + Rate
    BY DEF TypeOK
  <2>3. idle' * Rate \in {idle * Rate, idle * Rate + Rate}
    BY <2>1, <2>2
  <2> DEFINE added == idle * Rate
  <2>4. added \in Nat
    BY DEF TypeOK
  <2>5. Available = IF tokens + added > Burst THEN Burst ELSE tokens + added
    BY DEF Available
  <2>6. \E a \in {added, added + Rate} :
          Available' = IF tokens + a > Burst THEN Burst ELSE tokens + a
    BY <2>1, <2>3 DEF Available
  <2> HIDE DEF added
  <2>7. Available' <= Available + Rate /\ Available' \in Int
    BY <2>4, <2>5, <2>6 DEF TypeOK
  <2>8. Rate * since' = Rate * since + Rate /\ Rate * since \in Int
    BY <2>1 DEF TypeOK
  <2>9. Burst * (1 + starts) \in Int /\ spent \in Int
    BY DEF TypeOK
  <2> QED
    BY <1>a, <1>b, <2>1, <2>7, <2>8, <2>9
<1>5. CASE Restart
  <2>1. /\ observer = "watching" /\ starts' = starts + 1 /\ since' = since /\ spent' = spent
        /\ tokens' = Burst /\ idle' = 0
    BY <1>5 DEF Restart, StopWatching, Observe
  <2>2. Available' = Burst
    BY <2>1 DEF Available
  <2>3. Burst * (1 + starts') = Burst * (1 + starts) + Burst
    BY <2>1 DEF TypeOK
  <2>4. Burst * (1 + starts) \in Int /\ Rate * since \in Int /\ spent \in Int
    BY DEF TypeOK
  <2> QED
    BY <1>a, <1>b, <2>1, <2>2, <2>3, <2>4
<1>6. CASE UNCHANGED vars
  BY <1>6, <1>b DEF vars, bucket, watch, Available
<1> QED
  BY <1>1, <1>2, <1>3, <1>4, <1>5, <1>6 DEF Next

\* Events: each one stored or under way has its token.
LEMMA StoredStep ==
  ASSUME TypeOK, TypeOK', StoredWithToken, [Next]_vars
  PROVE  StoredWithToken'
<1> DEFINE n == Cardinality(InFlight)
<1> SUFFICES ASSUME observer' = "watching"
             PROVE  stored' + Cost * n' <= spent' + carried'
  BY DEF StoredWithToken
<1>a. n \in Nat /\ Cost * n \in Int
  BY InFlightIsFinite
<1>b. observer = "watching" => stored + Cost * n <= spent + carried
  BY DEF StoredWithToken
<1>1. ASSUME NEW h \in Handlers, Allow(h)
      PROVE  stored' + Cost * n' <= spent' + carried'
  <2>1. n' = n + 1
    BY <1>1, OneMore DEF Allow
  <2>2. Cost * n' = Cost * n + Cost
    BY <1>a, <2>1
  <2>3. observer = "watching" /\ stored' = stored /\ carried' = carried /\ spent' = spent + Cost
    BY <1>1 DEF Allow, Watched
  <2> QED
    BY <1>a, <1>b, <2>2, <2>3 DEF TypeOK
<1>2. ASSUME NEW h \in Handlers, Refuse(h)
      PROVE  stored' + Cost * n' <= spent' + carried'
  BY <1>2, <1>b DEF Refuse, watch, InFlight
<1>3. ASSUME NEW h \in Handlers, Store(h)
      PROVE  stored' + Cost * n' <= spent' + carried'
  <2>1. n' = n - 1
    BY <1>3, OneLess DEF Store
  <2>2. Cost * n' = Cost * n - Cost
    BY <1>a, <2>1
  <2>3. observer = "watching" /\ stored' = stored + Cost /\ carried' = carried /\ spent' = spent
    BY <1>3 DEF Store, Watched
  <2> QED
    BY <1>a, <1>b, <2>2, <2>3 DEF TypeOK
<1>4. ASSUME NEW h \in Handlers, Discard(h)
      PROVE  stored' + Cost * n' <= spent' + carried'
  <2>1. n' = n - 1
    BY <1>4, OneLess DEF Discard
  <2>2. Cost * n' = Cost * n - Cost
    BY <1>a, <2>1
  <2>3. observer = "watching" /\ stored' = stored /\ carried' = carried /\ spent' = spent
    BY <1>4 DEF Discard, watch
  <2> QED
    BY <1>a, <1>b, <2>2, <2>3 DEF TypeOK
<1>5. CASE StartWatching
  <2>1. n' = n
    BY <1>5 DEF StartWatching, InFlight
  <2>2. stored' = 0 /\ spent' = 0 /\ carried' = Cost * n
    BY <1>5 DEF StartWatching
  <2> QED
    BY <1>a, <2>1, <2>2
<1>6. CASE Clock
  <2>1. n' = n
    BY <1>6 DEF Clock, InFlight
  <2>2. observer = "watching" /\ stored' = stored /\ spent' = spent /\ carried' = carried
    BY <1>6 DEF Clock, StopWatching, Observe
  <2> QED
    BY <1>b, <2>1, <2>2
<1>7. CASE Restart
  <2>1. InFlight' = {}
    BY <1>7 DEF Restart, InFlight
  <2>2. n' = 0
    BY <2>1, FS_EmptySet
  <2>3. observer = "watching" /\ stored' = stored /\ spent' = spent /\ carried' = carried
    BY <1>7 DEF Restart, StopWatching, Observe
  <2>4. Cost * n >= 0
    BY <1>a
  <2> QED
    BY <1>a, <1>b, <2>2, <2>3, <2>4 DEF TypeOK
<1>8. CASE UNCHANGED vars
  BY <1>8, <1>b DEF vars, watch, InFlight
<1> QED
  BY <1>1, <1>2, <1>3, <1>4, <1>5, <1>6, <1>7, <1>8 DEF Next

-----------------------------------------------------------------------------
\* The inductive invariant: types, tokens and events.
THEOREM Inductive == Spec => []IndInv
<1>1. Init => IndInv
  <2> SUFFICES ASSUME Init PROVE IndInv
    OBVIOUS
  <2>1. TypeOK
    BY TypeInit
  <2>2. observer # "watching"
    BY DEF Init
  <2> QED
    BY <2>1, <2>2 DEF IndInv, TokensAreSpent, StoredWithToken
<1>2. IndInv /\ [Next]_vars => IndInv'
  BY TypeStep, TokensStep, StoredStep DEF IndInv
<1> QED
  BY <1>1, <1>2, PTL DEF Spec

\* The events stored in any window are bounded by the bucket, the refill and the
\* requests under way when it began. (allow, handleRUMIngest)
THEOREM WritePressure == Spec => []WritePressureIsBounded
<1>1. IndInv => WritePressureIsBounded
  <2> SUFFICES ASSUME IndInv, observer = "watching"
               PROVE  stored <= Burst * (1 + starts) + Rate * since + carried
    BY DEF WritePressureIsBounded
  <2>1. TypeOK
    BY DEF IndInv
  <2>2. Available \in Nat
    BY <2>1, RefillBounds
  <2>3. Cost * Cardinality(InFlight) \in Nat
    BY InFlightIsFinite
  <2>4. Burst * (1 + starts) \in Int /\ Rate * since \in Int
    BY <2>1 DEF TypeOK
  <2>5. /\ spent + Available <= Burst * (1 + starts) + Rate * since
        /\ stored + Cost * Cardinality(InFlight) <= spent + carried
    BY DEF IndInv, TokensAreSpent, StoredWithToken
  <2> QED
    BY <2>1, <2>2, <2>3, <2>4, <2>5 DEF TypeOK
<1> QED
  BY <1>1, Inductive, PTL
=============================================================================
