------------------------------ MODULE RumIngest ------------------------------
(***************************************************************************)
(* POST /v1/rum: the origin check, the token bucket all requests share,    *)
(* the checks of the event, and its insertion, which may come long after   *)
(* the token was taken. Handlers run concurrently; the bucket's lock makes *)
(* allow() one step. The process may end and start again with a full       *)
(* bucket.                                                                 *)
(*                                                                         *)
(* Tokens are counted in parts, Cost of which make a token, and time in    *)
(* ticks, so that a refill may be less than a token, as in the code.       *)
(***************************************************************************)
EXTENDS Integers, FiniteSets

CONSTANTS
  Handlers,    \* requests that can be served at a time
  Origins,     \* what the Origin header may say
  NoOrigin,    \* ... when there is none
  AnyOrigin,   \* "*"
  rumOrigins,  \* Server.rumOrigins
  Cost,        \* the parts of a token
  Rate,        \* the parts added in a tick: perSecond
  Burst,       \* the parts of a full bucket: max
  FullAfter,   \* ticks after which any bucket is full; more need not be counted
  MaxWindow,   \* bound: an observer watches for at most MaxWindow ticks
  MaxStarts    \* bound: ... and at most MaxStarts restarts

ASSUME HandlersAssumption == IsFiniteSet(Handlers)
ASSUME BucketAssumption   == /\ Cost \in Nat \ {0} /\ Rate \in Nat \ {0}
                             /\ Burst \in Nat /\ Cost <= Burst
ASSUME BoundsAssumption   == /\ FullAfter \in Nat /\ FullAfter * Rate >= Burst
                             /\ MaxWindow \in Nat /\ MaxStarts \in Nat

VARIABLES
  tokens,    \* tokenBucket.tokens
  idle,      \* ticks since tokenBucket.lastRefill, up to FullAfter
  pc,        \* a handler is "free", or its request was "allowed"
  observer,  \* history: "watching" or "away"; since it began, there were
  since,     \*   ... so many ticks,
  starts,    \*   ... so many restarts,
  spent,     \*   ... tokens taken, in parts,
  stored,    \*   ... events stored, times Cost,
  carried    \*   ... and this many requests, times Cost, were under way

bucket == <<tokens, idle>>
watch  == <<observer, since, starts, spent, stored, carried>>
vars   == <<bucket, pc, watch>>

InFlight == {h \in Handlers : pc[h] = "allowed"}

Watched(n) == IF observer = "watching" THEN n ELSE 0

-----------------------------------------------------------------------------
\* A disabled endpoint answers 404, a foreign origin 403; neither takes a token.
rumOriginAllowed(origin) ==
  /\ rumOrigins # {}
  /\ origin = NoOrigin \/ origin \in rumOrigins \/ AnyOrigin \in rumOrigins

\* (Mutant: only whole tokens are added.)
Available_WholeTokens ==
  LET filled == tokens + ((idle * Rate) \div Cost) * Cost
  IN IF filled > Burst THEN Burst ELSE filled

\* The tokens after the refill that allow() begins with.
Available ==
  LET filled == tokens + idle * Rate
  IN IF filled > Burst THEN Burst ELSE filled

\* allow() takes a token.
Allow(h) ==
  /\ pc[h] = "free"
  /\ \E origin \in Origins \cup {NoOrigin} : rumOriginAllowed(origin)
  /\ Available >= Cost
  /\ tokens' = Available - Cost
  /\ idle' = 0
  /\ pc' = [pc EXCEPT ![h] = "allowed"]
  /\ spent' = spent + Watched(Cost)
  /\ UNCHANGED <<observer, since, starts, stored, carried>>

\* (Mutant: lastRefill is set only when a token was taken.)
Refuse_OldRefill(h) ==
  /\ pc[h] = "free"
  /\ \E origin \in Origins \cup {NoOrigin} : rumOriginAllowed(origin)
  /\ Available < Cost
  /\ tokens' = Available
  /\ UNCHANGED <<idle, pc, watch>>

\* allow() refuses: 429. What was refilled is kept.
Refuse(h) ==
  /\ pc[h] = "free"
  /\ \E origin \in Origins \cup {NoOrigin} : rumOriginAllowed(origin)
  /\ Available < Cost
  /\ tokens' = Available
  /\ idle' = 0
  /\ UNCHANGED <<pc, watch>>

\* SaveRUMEvent.
Store(h) ==
  /\ pc[h] = "allowed"
  /\ pc' = [pc EXCEPT ![h] = "free"]
  /\ stored' = stored + Watched(Cost)
  /\ UNCHANGED <<bucket, observer, since, starts, spent, carried>>

\* The body does not come or is too long, the event is not well-formed, or the
\* store refuses it. The token is gone.
Discard(h) ==
  /\ pc[h] = "allowed"
  /\ pc' = [pc EXCEPT ![h] = "free"]
  /\ UNCHANGED <<bucket, watch>>

-----------------------------------------------------------------------------
(* The observer, the clock and the process                                 *)

Observe(w, t, n) ==
  /\ observer' = w /\ since' = t /\ starts' = n

StopWatching ==
  /\ Observe("away", 0, 0)
  /\ spent' = 0 /\ stored' = 0 /\ carried' = 0

StartWatching ==
  /\ observer = "away"
  /\ Observe("watching", 0, 0)
  /\ spent' = 0 /\ stored' = 0 /\ carried' = Cost * Cardinality(InFlight)
  /\ UNCHANGED <<bucket, pc>>

Clock ==
  /\ idle' = IF idle < FullAfter THEN idle + 1 ELSE idle
  /\ \/ /\ observer = "watching" /\ since < MaxWindow
        /\ Observe("watching", since + 1, starts)
        /\ UNCHANGED <<spent, stored, carried>>
     \/ ~(observer = "watching" /\ since < MaxWindow) /\ StopWatching
  /\ UNCHANGED <<tokens, pc>>

\* The process ends, and its requests with it; the next one has a full bucket.
Restart ==
  /\ tokens' = Burst
  /\ idle' = 0
  /\ pc' = [h \in Handlers |-> "free"]
  /\ \/ /\ observer = "watching" /\ starts < MaxStarts
        /\ Observe("watching", since, starts + 1)
        /\ UNCHANGED <<spent, stored, carried>>
     \/ ~(observer = "watching" /\ starts < MaxStarts) /\ StopWatching

-----------------------------------------------------------------------------
Init ==
  /\ tokens = Burst
  /\ idle = 0
  /\ pc = [h \in Handlers |-> "free"]
  /\ observer = "away" /\ since = 0 /\ starts = 0
  /\ spent = 0 /\ stored = 0 /\ carried = 0

Next ==
  \/ \E h \in Handlers : Allow(h) \/ Refuse(h) \/ Store(h) \/ Discard(h)
  \/ StartWatching \/ Clock \/ Restart

Spec == Init /\ [][Next]_vars

\* Fairness: time passes, and a handler ends, at the latest by the server's read
\* timeout. No request is assumed to come.
Fairness ==
  /\ WF_vars(Clock)
  /\ \A h \in Handlers : WF_vars(Store(h) \/ Discard(h))

FairSpec == Spec /\ Fairness

-----------------------------------------------------------------------------
\* The values every variable may take; a bucket is never fuller than full.
TypeOK ==
  /\ tokens \in 0..Burst
  /\ idle \in 0..FullAfter
  /\ pc \in [Handlers -> {"free", "allowed"}]
  /\ observer \in {"watching", "away"}
  /\ since \in 0..MaxWindow /\ starts \in 0..MaxStarts
  /\ spent \in Nat /\ stored \in Nat /\ carried \in Nat

\* What the limiter is for: from whatever moment one counts, the events stored
\* are at most a full bucket, for each process, plus what was refilled meanwhile
\* plus the requests then under way, however the handlers interleave and however
\* long a body takes. (allow; "the goal is just to bound write pressure on the
\* store")
WritePressureIsBounded ==
  observer = "watching" => stored <= Burst * (1 + starts) + Rate * since + carried

\* What makes it inductive: no token is spent that was not there, and nothing is
\* stored without one.
TokensAreSpent ==
  observer = "watching" => spent + Available <= Burst * (1 + starts) + Rate * since

StoredWithToken ==
  observer = "watching" => stored + Cost * Cardinality(InFlight) <= spent + carried

IndInv == TypeOK /\ TokensAreSpent /\ StoredWithToken

\* A flood is served: while requests keep coming, some are let through again and
\* again, although refused ones touch the bucket too and a refill may be less
\* than a token. (allow)
FloodIsServed ==
  []<><<\E h \in Handlers : Allow(h) \/ Refuse(h)>>_vars
    => []<><<\E h \in Handlers : Allow(h)>>_vars
=============================================================================
