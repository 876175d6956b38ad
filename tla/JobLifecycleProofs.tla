------------------------- MODULE JobLifecycleProofs -------------------------
(***************************************************************************)
(* Proofs about JobLifecycle for any jobs, any pool and any queue depth.   *)
(* First the types and who holds a job; then what the rows say, that it is *)
(* true and stays true, and that they live as JobRows promises: through    *)
(* stops, crashes, deletions and failing store calls.                      *)
(***************************************************************************)
EXTENDS JobLifecycle, SequenceTheorems, TLAPS

TypeInv == TypeOK /\ HolderShape /\ DownShape /\ PayloadShape

LEMMA NoTallyType == NoTally \in Tallies
BY DEF NoTally, Tallies

LEMMA CountType ==
  ASSUME NEW t \in Tallies, NEW outcome
  PROVE  Count(t, outcome) \in Tallies
BY DEF Count, Tallies

LEMMA TypeInvInit == Init => TypeInv
BY NoTallyType, PoolAssumption DEF Init, TypeInv, TypeOK, HolderShape, DownShape, PayloadShape,
   WorkerPcs, Answered

LEMMA DeleteTypes ==
  ASSUME TypeInv, NEW j \in Jobs, DeleteStep(j)
  PROVE  (TypeOK /\ HolderShape /\ DownShape)'
<1> USE DEF TypeInv, TypeOK, HolderShape, DownShape, Answered, DeleteGoto, mem, db, handlers, pool
<1>1. CASE DeleteLookup(j)
  BY <1>1 DEF DeleteLookup
<1>2. CASE CancelJob(j)
  <2>1. UNCHANGED <<mgr, delivery, jobQueue, submit, pool>>
    BY <1>2 DEF CancelJob
  <2>2. mgr # "down"
    BY <1>2 DEF CancelJob
  <2>3. pendingJobs' \subseteq Jobs /\ cancelled' \subseteq Jobs
    BY <1>2 DEF CancelJob
  <2>4. delete' \in [Jobs -> {"idle", "cancel", "hooks", "row"}]
    BY <1>2 DEF CancelJob
  <2>5. /\ status' \in [Jobs -> Final \cup Open \cup {"none"}]
        /\ saved' \in [Jobs -> SUBSET Nat]
        /\ verdict' \in [Jobs -> BOOLEAN]
    BY <1>2 DEF CancelJob, DeleteJobRow
  <2> QED
    BY <2>1, <2>2, <2>3, <2>4, <2>5
<1>3. CASE DeleteDeliveries(j)
  BY <1>3 DEF DeleteDeliveries
<1>4. CASE DeleteRow(j)
  BY <1>4 DEF DeleteRow, DeleteJobRow
<1> QED
  BY <1>1, <1>2, <1>3, <1>4 DEF DeleteStep

LEMMA WorkerTypes ==
  ASSUME TypeInv, NEW w \in Workers, WorkerStep(w)
  PROVE  (TypeOK /\ HolderShape /\ DownShape)'
<1> USE DEF TypeInv, TypeOK, HolderShape, DownShape, Goto, mem, db, handlers, pool
<1>1. CASE Pop(w)
  BY <1>1, JobsAssumption DEF Pop, WorkerPcs
<1>2. CASE Claim(w)
  BY <1>2, NoTallyType DEF Claim, Release, WorkerPcs
<1>3. CASE MarkRunning(w)
  BY <1>3, NoTallyType DEF MarkRunning, Release, UpdateJobStatus, WorkerPcs, Open
<1>4. CASE RunOnce(w)
  <2>1. tally[w] \in Tallies /\ tally[w].done \in Nat
    BY DEF Tallies
  <2>2. saved' \in [Jobs -> SUBSET Nat]
    BY <1>4, <2>1 DEF RunOnce, SaveResult
  <2>3. tally' \in [Workers -> Tallies]
    BY <1>4, <2>1, CountType DEF RunOnce
  <2>4. wpc[w] = "collecting" /\ \E pc \in {"deriving", "collecting"} : Goto(w, pc)
    BY <1>4 DEF RunOnce
  <2>5. UNCHANGED <<mgr, status, verdict, delivery, mem, handlers, wjob, payload, cancelled>>
    BY <1>4 DEF RunOnce
  <2> QED
    BY <2>2, <2>3, <2>4, <2>5 DEF WorkerPcs
<1>5. CASE Panic(w)
  BY <1>5 DEF Panic, WorkerPcs
<1>6. CASE FailPanicked(w)
  BY <1>6, NoTallyType DEF FailPanicked, Release, UpdateJobStatus, WorkerPcs, Final
<1>7. CASE WriteFinalStatus(w)
  BY <1>7, NoTallyType DEF WriteFinalStatus, AfterFinishing, AfterJudging, deriveStatus, Release,
              UpdateJobStatus, WorkerPcs, Final
<1>8. CASE JudgeBudget(w)
  <2>1. verdict' \in [Jobs -> BOOLEAN]
    BY <1>8 DEF JudgeBudget, SetJobBudgetResult
  <2>2. wpc[w] = "judging" /\ AfterJudging(w, wjob[w])
    BY <1>8 DEF JudgeBudget
  <2>3. UNCHANGED <<mgr, status, saved, delivery, mem, handlers, cancelled>>
    BY <1>8 DEF JudgeBudget
  <2> QED
    BY <2>1, <2>2, <2>3, NoTallyType DEF AfterJudging, Release, WorkerPcs
<1>9. CASE ReadJob(w)
  <2>1. wjob[w] \in Jobs /\ wpc[w] = "reading"
    BY <1>9 DEF ReadJob
  <2>2. UNCHANGED <<mgr, db, mem, handlers, cancelled>>
    BY <1>9 DEF ReadJob
  <2>3. CASE Release(w)
    BY <2>1, <2>2, <2>3, NoTallyType DEF Release, WorkerPcs
  <2>4. CASE ~Release(w)
    <3>1. payload' = [payload EXCEPT ![w] =
            [status |-> status[wjob[w]], judged |-> verdict[wjob[w]], results |-> {}]]
      BY <1>9, <2>4 DEF ReadJob
    <3>2. status[wjob[w]] # "none" /\ Goto(w, "gathering") /\ UNCHANGED <<wjob, tally>>
      BY <1>9, <2>4 DEF ReadJob
    <3>3. verdict[wjob[w]] \in BOOLEAN /\ status[wjob[w]] \in Final \cup Open
      BY <2>1, <3>2
    <3>4. [status |-> status[wjob[w]], judged |-> verdict[wjob[w]], results |-> {}] \in Payloads
      BY <3>3 DEF Payloads
    <3>5. payload' \in [Workers -> Payloads \cup {NoPayload}]
      BY <3>1, <3>4
    <3> QED
      BY <2>1, <2>2, <3>2, <3>5 DEF WorkerPcs
  <2> QED
    BY <2>3, <2>4
<1>10. CASE ReadResults(w)
  <2>1. wjob[w] \in Jobs /\ wpc[w] = "gathering" /\ Goto(w, "enqueueing")
    BY <1>10 DEF ReadResults
  <2>2. UNCHANGED <<mgr, db, mem, handlers, wjob, tally, cancelled>>
    BY <1>10 DEF ReadResults
  <2>3. PICK k \in 0..Runs[wjob[w]] :
          payload' = [payload EXCEPT ![w] = [@ EXCEPT !.results = saved[wjob[w]] \cap 1..k]]
    BY <1>10 DEF ReadResults
  <2>4. payload[w] \in Payloads
    BY <2>1 DEF PayloadShape
  <2>5. saved[wjob[w]] \cap 1..k \in SUBSET Nat
    BY <2>1
  <2>6. [payload[w] EXCEPT !.results = saved[wjob[w]] \cap 1..k] \in Payloads
    BY <2>4, <2>5 DEF Payloads
  <2>7. payload' \in [Workers -> Payloads \cup {NoPayload}]
    BY <2>3, <2>6
  <2> QED
    BY <2>1, <2>2, <2>7 DEF WorkerPcs
<1>11. CASE EnqueueWebhook(w)
  BY <1>11, NoTallyType DEF EnqueueWebhook, Release, WorkerPcs
<1>12. CASE WorkerExit(w)
  BY <1>12 DEF WorkerExit, ManagerCtxDone, WorkerPcs
<1> QED
  BY <1>1, <1>2, <1>3, <1>4, <1>5, <1>6, <1>7, <1>8, <1>9, <1>10, <1>11,
     <1>12 DEF WorkerStep

LEMMA ProcessTypes ==
  ASSUME TypeInv, Stop \/ ProcessExits \/ Crash \/ Restart
  PROVE  (TypeOK /\ HolderShape /\ DownShape)'
<1> USE DEF TypeInv, TypeOK, HolderShape, DownShape, mem, db, handlers, pool
<1>1. CASE Stop
  BY <1>1 DEF Stop
<1>2. CASE ProcessEnds
  BY <1>2, NoTallyType DEF ProcessEnds, Answered, WorkerPcs
<1>3. CASE Restart
  BY <1>3 DEF Restart, WorkerPcs, Final
<1> QED
  BY <1>1, <1>2, <1>3 DEF ProcessExits, Crash

LEMMA SubmitTypes ==
  ASSUME TypeInv, NEW j \in Jobs, SubmitStep(j)
  PROVE  (TypeOK /\ HolderShape /\ DownShape)'
<1> USE DEF TypeInv, TypeOK, HolderShape, DownShape, Answered, SubmitGoto, mem, db, handlers, pool
<1>1. CASE CreateJob(j)
  BY <1>1 DEF CreateJob, Open
<1>2. CASE CreateJobFails(j)
  BY <1>2 DEF CreateJobFails
<1>3. CASE RegisterPending(j)
  BY <1>3 DEF RegisterPending
<1>4. CASE CheckManager(j)
  BY <1>4 DEF CheckManager
<1>5. CASE Enqueue(j)
  <2>1. mgr # "down"
    BY <1>5 DEF Enqueue
  <2>2. jobQueue' \in Seq(Jobs)
    <3>1. jobQueue' = Append(jobQueue, j) \/ jobQueue' = jobQueue
      BY <1>5 DEF Enqueue
    <3>2. Append(jobQueue, j) \in Seq(Jobs)
      BY AppendProperties
    <3> QED
      BY <3>1, <3>2
  <2>3. \E pc \in {"accepted", "rejecting"} : SubmitGoto(j, pc)
    BY <1>5 DEF Enqueue
  <2>4. UNCHANGED <<mgr, db, pendingJobs, delete, pool, cancelled>>
    BY <1>5 DEF Enqueue
  <2> QED
    BY <2>1, <2>2, <2>3, <2>4
<1>6. CASE EnqueueFailed(j)
  BY <1>6 DEF EnqueueFailed
<1>7. CASE DeleteRejected(j)
  <2>1. /\ submit[j] = "cleaning" /\ SubmitGoto(j, "refused")
        /\ UNCHANGED <<mgr, delivery, mem, delete, pool, cancelled>>
    BY <1>7 DEF DeleteRejected
  <2>2. /\ status' \in [Jobs -> Final \cup Open \cup {"none"}]
        /\ saved' \in [Jobs -> SUBSET Nat]
        /\ verdict' \in [Jobs -> BOOLEAN]
    BY <1>7 DEF DeleteRejected, DeleteJobRow
  <2> QED
    BY <2>1, <2>2
<1> QED
  BY <1>1, <1>2, <1>3, <1>4, <1>5, <1>6, <1>7 DEF SubmitStep

\* A worker starts to gather results with the payload it has just begun.
LEMMA PayloadStep == TypeInv /\ [Next]_vars => PayloadShape'
<1> SUFFICES ASSUME TypeInv, [Next]_vars, NEW w \in Workers, wpc'[w] = "gathering"
             PROVE  payload'[w] \in Payloads
  BY DEF PayloadShape
<1> USE DEF mem, db, handlers, pool
<1>0. wpc \in [Workers -> WorkerPcs] /\ wjob \in [Workers -> Jobs \cup {NoJob}]
      /\ payload \in [Workers -> Payloads \cup {NoPayload}]
  BY DEF TypeInv, TypeOK
<1>1. CASE wpc'[w] = wpc[w] /\ payload'[w] = payload[w]
  BY <1>1 DEF TypeInv, PayloadShape
<1>2. CASE ReadJob(w) /\ ~Release(w)
  <2>1. wjob[w] \in Jobs /\ status[wjob[w]] # "none"
        /\ payload'[w] = [status |-> status[wjob[w]], judged |-> verdict[wjob[w]], results |-> {}]
    BY <1>0, <1>2 DEF ReadJob, TypeInv, HolderShape
  <2>2. status[wjob[w]] \in Final \cup Open /\ verdict[wjob[w]] \in BOOLEAN
    BY <2>1 DEF TypeInv, TypeOK
  <2> QED
    BY <2>1, <2>2 DEF Payloads
<1>3. CASE wpc'[w] # "gathering"
  BY <1>3
<1>4. ASSUME NEW pc, pc # "gathering", Goto(w, pc) PROVE wpc'[w] # "gathering"
  BY <1>0, <1>4 DEF Goto
<1>5. CASE \E j \in Jobs : SubmitStep(j) \/ DeleteStep(j)
  <2>1. UNCHANGED <<wpc, payload>>
    BY <1>5 DEF SubmitStep, CreateJob, CreateJobFails, RegisterPending, CheckManager, Enqueue,
       EnqueueFailed, DeleteRejected, DeleteStep, DeleteLookup, CancelJob, DeleteDeliveries,
       DeleteRow
  <2> QED
    BY <1>1, <2>1
<1>6. CASE WorkerStep(w)
  <2>1. \/ ReadJob(w) /\ ~Release(w)
        \/ Release(w)
        \/ \E pc \in WorkerPcs \ {"gathering"} : Goto(w, pc)
    BY <1>6 DEF WorkerStep, Pop, Claim, MarkRunning, RunOnce, Panic, FailPanicked,
       WriteFinalStatus, AfterFinishing, AfterJudging, JudgeBudget, ReadJob, ReadResults,
       EnqueueWebhook, WorkerExit, WorkerPcs
  <2> QED
    BY <1>2, <1>3, <1>4, <2>1 DEF Release
<1>7. CASE \E v \in Workers \ {w} : WorkerStep(v)
  <2>1. PICK v \in Workers \ {w} : WorkerStep(v)
    BY <1>7
  <2>2. /\ \E pc : Goto(v, pc)
        /\ \/ UNCHANGED payload
           \/ \E p : payload' = [payload EXCEPT ![v] = p]
    BY <2>1 DEF WorkerStep, Pop, Claim, MarkRunning, RunOnce, Panic, FailPanicked,
       WriteFinalStatus, AfterFinishing, AfterJudging, JudgeBudget, ReadJob, ReadResults,
       EnqueueWebhook, WorkerExit, Release
  <2>3. wpc'[w] = wpc[w] /\ payload'[w] = payload[w]
    BY <1>0, <2>2 DEF Goto
  <2> QED
    BY <1>1, <2>3
<1>8. CASE Stop \/ ProcessExits \/ Crash \/ Restart
  BY <1>1, <1>8 DEF Stop, ProcessExits, Crash, ProcessEnds, Restart
<1>9. CASE UNCHANGED vars
  BY <1>1, <1>9 DEF vars
<1> QED
  BY <1>5, <1>6, <1>7, <1>8, <1>9 DEF Next

LEMMA TypeInvStep == TypeInv /\ [Next]_vars => TypeInv'
<1> SUFFICES ASSUME TypeInv, [Next]_vars PROVE (TypeOK /\ HolderShape /\ DownShape)'
  BY PayloadStep DEF TypeInv
<1>1. CASE \E j \in Jobs : SubmitStep(j) \/ DeleteStep(j)
  BY <1>1, SubmitTypes, DeleteTypes
<1>2. CASE \E w \in Workers : WorkerStep(w)
  BY <1>2, WorkerTypes
<1>3. CASE Stop \/ ProcessExits \/ Crash \/ Restart
  BY <1>3, ProcessTypes
<1>4. CASE UNCHANGED vars
  BY <1>4 DEF vars, db, mem, handlers, pool, TypeInv, TypeOK, HolderShape, DownShape
<1> QED
  BY <1>1, <1>2, <1>3, <1>4 DEF Next

\* Every variable keeps its type, a worker holds a job exactly between
\* receiving and releasing it, and nothing outlives the process in memory.
THEOREM TypeCorrect == Spec => []TypeInv
BY TypeInvInit, TypeInvStep, PTL DEF Spec

\* The type invariant that the runs check.
THEOREM TypeOKHolds == Spec => []TypeOK
<1>1. TypeInv => TypeOK
  BY DEF TypeInv
<1> QED
  BY <1>1, TypeCorrect, PTL

-----------------------------------------------------------------------------
(* Who holds a job: the parts of IndInv beside the types                   *)

Holding ==
  /\ OneHolder /\ PendingIsTracked
  /\ QueuedAccepted /\ HeldAccepted
  /\ PendingShape /\ CancelledShape /\ ClaimedShape /\ SavedShape

LEMMA HoldingInit == Init => Holding
<1> SUFFICES ASSUME Init PROVE Holding
  OBVIOUS
<1>1. /\ pendingJobs = {} /\ cancelled = {} /\ jobQueue = <<>> /\ Len(jobQueue) = 0
      /\ \A w \in Workers : wjob[w] = NoJob /\ wpc[w] = "idle"
      /\ \A j \in Jobs : saved[j] = {}
  BY DEF Init
<1>2. OneHolder
  BY <1>1, PoolAssumption DEF OneHolder
<1>3. QueuedAccepted
  BY <1>1 DEF QueuedAccepted
<1>4. PendingIsTracked /\ HeldAccepted /\ PendingShape /\ CancelledShape /\ ClaimedShape
  BY <1>1 DEF PendingIsTracked, HeldAccepted, PendingShape, CancelledShape, ClaimedShape
<1>5. SavedShape
  BY <1>1 DEF SavedShape
<1> QED
  BY <1>2, <1>3, <1>4, <1>5 DEF Holding

\* What the holding invariant reads; most actions leave it alone.
Untouched == UNCHANGED <<saved, pendingJobs, jobQueue, submit, wpc, wjob, cancelled>>

LEMMA UntouchedHolding ==
  ASSUME Holding, Untouched
  PROVE  Holding'
BY DEF Untouched, Holding, OneHolder, PendingIsTracked, QueuedAccepted, HeldAccepted,
       PendingShape, CancelledShape, ClaimedShape, SavedShape, Queued, Popped

\* When neither the channel nor the pool moves, nobody's hands change.
LEMMA SameHands ==
  ASSUME Holding, UNCHANGED <<jobQueue, wpc, wjob>>
  PROVE  /\ OneHolder'
         /\ \A k : (Queued(k)' <=> Queued(k)) /\ (Popped(k)' <=> Popped(k))
BY DEF Holding, OneHolder, Queued, Popped

\* A submission that has not been accepted yet: nobody holds its job.
LEMMA UnansweredIsFree ==
  ASSUME Holding, NEW j \in Jobs, submit[j] # "accepted"
  PROVE  /\ ~Queued(j) /\ \A w \in Workers : wjob[w] # j \/ wjob[w] = NoJob
         /\ saved[j] = {}
BY DEF Holding, QueuedAccepted, HeldAccepted, SavedShape, Queued

\* The submission of j moves on without touching the channel, and j stays in
\* or out of pendingJobs as its new place allows.
LEMMA SubmitMoves ==
  ASSUME TypeInv, Holding, NEW j \in Jobs, NEW pc,
         submit[j] # "accepted", pc \notin {"new", "created"} \/ j \notin cancelled,
         SubmitGoto(j, pc), UNCHANGED <<jobQueue, wpc, wjob, cancelled>>,
         \/ pendingJobs' = pendingJobs \cup {j} /\ submit[j] = "created" /\ pc = "registered"
         \/ pendingJobs' = pendingJobs /\ (j \in pendingJobs => pc \in {"checked", "rejecting"})
         \/ pendingJobs' = pendingJobs \ {j},
         \A k \in Jobs : saved'[k] = saved[k] \/ saved'[k] = {}
  PROVE  Holding'
<1>1. /\ submit'[j] = pc
      /\ \A k \in Jobs \ {j} : submit'[k] = submit[k]
      /\ \A k \in Jobs \ {j} : k \in pendingJobs' <=> k \in pendingJobs
  BY DEF TypeInv, TypeOK, SubmitGoto
<1>2. /\ OneHolder'
      /\ \A k : (Queued(k)' <=> Queued(k)) /\ (Popped(k)' <=> Popped(k))
  BY SameHands
<1>3. ~Queued(j) /\ saved[j] = {} /\ \A w \in Workers : wjob[w] # j
  BY UnansweredIsFree, JobsAssumption
<1>4. j \in pendingJobs' => pc \in {"registered", "checked", "rejecting"}
  OBVIOUS
<1>5. pendingJobs' \subseteq Jobs
  BY DEF TypeInv, TypeOK
<1>6. PendingIsTracked' /\ PendingShape'
  BY <1>1, <1>2, <1>4, <1>5 DEF Holding, PendingIsTracked, PendingShape
<1>7. QueuedAccepted'
  <2> SUFFICES ASSUME NEW i \in 1..Len(jobQueue) PROVE submit'[jobQueue[i]] = "accepted"
    BY DEF QueuedAccepted
  <2>1. jobQueue[i] \in Jobs \ {j}
    BY <1>3 DEF Queued, TypeInv, TypeOK
  <2> QED
    BY <1>1, <2>1 DEF Holding, QueuedAccepted
<1>8. HeldAccepted'
  BY <1>1, <1>3 DEF TypeInv, TypeOK, Holding, HeldAccepted
<1>9. CancelledShape'
  <2> SUFFICES ASSUME NEW k \in cancelled
               PROVE  k \notin pendingJobs' /\ submit'[k] \notin {"new", "created"}
    BY DEF CancelledShape
  <2>1. k \in Jobs /\ k \notin pendingJobs /\ submit[k] \notin {"new", "created"}
    BY DEF TypeInv, TypeOK, Holding, CancelledShape
  <2> QED
    BY <1>1, <2>1
<1>10. ClaimedShape'
  <2> SUFFICES ASSUME NEW w \in Workers, wpc[w] \notin {"idle", "popped", "exited"}
               PROVE  wjob[w] \notin pendingJobs' \cup cancelled
    BY DEF ClaimedShape
  <2>1. wjob[w] \notin pendingJobs \cup cancelled /\ wjob[w] # j
    BY <1>3 DEF Holding, ClaimedShape
  <2> QED
    BY <2>1
<1>11. SavedShape'
  <2> SUFFICES ASSUME NEW k \in Jobs, saved'[k] # {}
               PROVE  /\ submit'[k] = "accepted"
                      /\ k \notin pendingJobs' \cup cancelled
                      /\ ~Queued(k) /\ ~Popped(k)
    BY <1>2 DEF SavedShape
  <2>1. saved[k] # {} /\ k # j
    BY <1>3
  <2> QED
    BY <1>1, <2>1 DEF Holding, SavedShape
<1> QED
  BY <1>2, <1>6, <1>7, <1>8, <1>9, <1>10, <1>11 DEF Holding

\* Sending j puts it into the channel, behind the others.
LEMMA SendQueues ==
  ASSUME TypeInv, NEW j \in Jobs, jobQueue' = Append(jobQueue, j)
  PROVE  \A k : Queued(k)' <=> Queued(k) \/ k = j
<1>1. /\ Len(jobQueue') = Len(jobQueue) + 1 /\ Len(jobQueue) \in Nat
      /\ \A i \in 1..Len(jobQueue) : jobQueue'[i] = jobQueue[i]
      /\ jobQueue'[Len(jobQueue) + 1] = j
  BY AppendProperties, LenProperties DEF TypeInv, TypeOK
<1> QED
  BY <1>1 DEF Queued

\* j enters the channel and its submission is answered.
LEMMA EnqueueAccepts ==
  ASSUME TypeInv, Holding, NEW j \in Jobs, submit[j] = "checked", Len(jobQueue) < QueueDepth,
         jobQueue' = Append(jobQueue, j), SubmitGoto(j, "accepted"),
         UNCHANGED <<saved, pendingJobs, wpc, wjob, cancelled>>
  PROVE  Holding'
<1>1. /\ submit'[j] = "accepted"
      /\ \A k \in Jobs \ {j} : submit'[k] = submit[k]
  BY DEF TypeInv, TypeOK, SubmitGoto
<1>2. /\ Len(jobQueue') = Len(jobQueue) + 1
      /\ \A i \in 1..Len(jobQueue) : jobQueue'[i] = jobQueue[i]
      /\ jobQueue'[Len(jobQueue) + 1] = j
  BY AppendProperties DEF TypeInv, TypeOK
<1>3. ~Queued(j) /\ saved[j] = {} /\ \A w \in Workers : wjob[w] # j
  BY UnansweredIsFree, JobsAssumption
<1>4. Len(jobQueue) \in Nat /\ QueueDepth \in Nat
  BY LenProperties, PoolAssumption DEF TypeInv, TypeOK
<1>5. \A k : (Queued(k)' <=> Queued(k) \/ k = j) /\ (Popped(k)' <=> Popped(k))
  BY SendQueues DEF Popped
<1>6. \A i, k \in 1..Len(jobQueue') : i # k => jobQueue'[i] # jobQueue'[k]
  BY <1>2, <1>3, <1>4 DEF Queued, Holding, OneHolder
<1>7. OneHolder'
  <2>1. Len(jobQueue') <= QueueDepth
    BY <1>2, <1>4
  <2>2. \A w \in Workers : wjob[w] # NoJob => ~Queued(wjob[w])'
    BY <1>3, <1>5 DEF Holding, OneHolder
  <2> QED
    BY <1>6, <2>1, <2>2 DEF Holding, OneHolder
<1>8. PendingIsTracked' /\ PendingShape'
  <2> SUFFICES ASSUME NEW k \in pendingJobs
               PROVE  /\ \/ submit'[k] \in {"registered", "checked", "rejecting"}
                         \/ Queued(k)' \/ Popped(k)'
                      /\ submit'[k] \in {"registered", "checked", "rejecting", "accepted"}
    BY DEF PendingIsTracked, PendingShape
  <2>1. k \in Jobs
    BY DEF TypeInv, TypeOK
  <2> QED
    BY <1>1, <1>5, <2>1 DEF Holding, PendingIsTracked, PendingShape
<1>9. QueuedAccepted'
  <2> SUFFICES ASSUME NEW i \in 1..Len(jobQueue') PROVE submit'[jobQueue'[i]] = "accepted"
    BY DEF QueuedAccepted
  <2>1. CASE i \in 1..Len(jobQueue)
    <3>1. jobQueue[i] \in Jobs \ {j} /\ jobQueue'[i] = jobQueue[i]
      BY <1>2, <1>3, <2>1 DEF Queued, TypeInv, TypeOK
    <3> QED
      BY <1>1, <2>1, <3>1 DEF Holding, QueuedAccepted
  <2>2. CASE i = Len(jobQueue) + 1
    BY <1>1, <1>2, <2>2
  <2> QED
    BY <1>2, <1>4, <2>1, <2>2
<1>10. HeldAccepted'
  BY <1>1, <1>3 DEF TypeInv, TypeOK, Holding, HeldAccepted
<1>11. CancelledShape'
  BY <1>1 DEF TypeInv, TypeOK, Holding, CancelledShape
<1>12. ClaimedShape'
  BY DEF Holding, ClaimedShape
<1>13. SavedShape'
  BY <1>1, <1>3, <1>5 DEF Holding, SavedShape
<1> QED
  BY <1>7, <1>8, <1>9, <1>10, <1>11, <1>12, <1>13 DEF Holding

LEMMA SubmitHolding ==
  ASSUME TypeInv, Holding, NEW j \in Jobs, SubmitStep(j)
  PROVE  Holding'
<1> USE DEF mem, db, handlers, pool
<1>0. /\ j \in pendingJobs => submit[j] \in {"registered", "checked", "rejecting", "accepted"}
      /\ submit[j] \in {"new", "created"} => j \notin cancelled
      /\ saved \in [Jobs -> SUBSET Nat]
  BY DEF Holding, PendingShape, CancelledShape, TypeInv, TypeOK
<1>1. CASE CreateJob(j)
  BY <1>0, <1>1, SubmitMoves DEF CreateJob
<1>2. CASE CreateJobFails(j)
  BY <1>0, <1>2, SubmitMoves DEF CreateJobFails
<1>3. CASE RegisterPending(j)
  BY <1>0, <1>3, SubmitMoves DEF RegisterPending
<1>4. CASE CheckManager(j)
  <2>1. \E pc \in {"rejecting", "checked"} : SubmitGoto(j, pc)
    BY <1>4 DEF CheckManager
  <2> QED
    BY <1>4, <2>1, SubmitMoves DEF CheckManager
<1>5. CASE Enqueue(j)
  <2>1. CASE Len(jobQueue) < QueueDepth
    BY <1>5, <2>1, EnqueueAccepts DEF Enqueue
  <2>2. CASE ~(Len(jobQueue) < QueueDepth)
    BY <1>5, <2>2, SubmitMoves DEF Enqueue
  <2> QED
    BY <2>1, <2>2
<1>6. CASE EnqueueFailed(j)
  BY <1>0, <1>6, SubmitMoves DEF EnqueueFailed
<1>7. CASE DeleteRejected(j)
  <2>1. \A k \in Jobs : saved'[k] = saved[k] \/ saved'[k] = {}
    BY <1>0, <1>7 DEF DeleteRejected, DeleteJobRow
  <2>2. submit[j] = "cleaning" /\ j \notin pendingJobs
    BY <1>0, <1>7 DEF DeleteRejected
  <2> QED
    BY <1>7, <2>1, <2>2, SubmitMoves DEF DeleteRejected
<1> QED
  BY <1>1, <1>2, <1>3, <1>4, <1>5, <1>6, <1>7 DEF SubmitStep

\* Results may go away at any time.
LEMMA ResultsGo ==
  ASSUME Holding, UNCHANGED <<pendingJobs, jobQueue, submit, wpc, wjob, cancelled>>,
         \A k \in Jobs : saved'[k] = saved[k] \/ saved'[k] = {}
  PROVE  Holding'
<1>1. /\ OneHolder'
      /\ \A k : (Queued(k)' <=> Queued(k)) /\ (Popped(k)' <=> Popped(k))
  BY SameHands
<1>2. SavedShape'
  BY <1>1 DEF Holding, SavedShape
<1>3. PendingIsTracked' /\ QueuedAccepted' /\ HeldAccepted' /\ PendingShape'
  BY <1>1 DEF Holding, PendingIsTracked, QueuedAccepted, HeldAccepted, PendingShape
<1>4. CancelledShape' /\ ClaimedShape'
  BY DEF Holding, CancelledShape, ClaimedShape
<1> QED
  BY <1>1, <1>2, <1>3, <1>4 DEF Holding

\* CancelJob: a job in pendingJobs has not been claimed and has no results.
LEMMA CancelTakesOut ==
  ASSUME TypeInv, Holding, NEW j \in pendingJobs,
         pendingJobs' = pendingJobs \ {j}, cancelled' = cancelled \cup {j},
         UNCHANGED <<jobQueue, submit, wpc, wjob>>,
         \A k \in Jobs : saved'[k] = saved[k] \/ saved'[k] = {}
  PROVE  Holding'
<1>1. /\ OneHolder'
      /\ \A k : (Queued(k)' <=> Queued(k)) /\ (Popped(k)' <=> Popped(k))
  BY SameHands
<1>2. PendingIsTracked' /\ QueuedAccepted' /\ HeldAccepted' /\ PendingShape'
  BY <1>1 DEF Holding, PendingIsTracked, QueuedAccepted, HeldAccepted, PendingShape
<1>3. CancelledShape'
  BY DEF Holding, CancelledShape, PendingShape
<1>4. ClaimedShape'
  BY DEF Holding, ClaimedShape
<1>5. SavedShape'
  BY <1>1 DEF Holding, SavedShape
<1> QED
  BY <1>1, <1>2, <1>3, <1>4, <1>5 DEF Holding

LEMMA DeleteHolding ==
  ASSUME TypeInv, Holding, NEW j \in Jobs, DeleteStep(j)
  PROVE  Holding'
<1> USE DEF mem, db, handlers, pool
<1>0. saved \in [Jobs -> SUBSET Nat]
  BY DEF TypeInv, TypeOK
<1>1. CASE DeleteLookup(j)
  BY <1>1, UntouchedHolding DEF DeleteLookup, Untouched
<1>2. CASE CancelJob(j)
  <2>1. \A k \in Jobs : saved'[k] = saved[k] \/ saved'[k] = {}
    BY <1>0, <1>2 DEF CancelJob, DeleteJobRow
  <2>2. CASE j \in pendingJobs
    BY <1>2, <2>1, <2>2, CancelTakesOut DEF CancelJob
  <2>3. CASE j \notin pendingJobs
    BY <1>2, <2>1, <2>3, ResultsGo DEF CancelJob
  <2> QED
    BY <2>2, <2>3
<1>3. CASE DeleteDeliveries(j)
  BY <1>3, UntouchedHolding DEF DeleteDeliveries, Untouched
<1>4. CASE DeleteRow(j)
  <2>1. \A k \in Jobs : saved'[k] = saved[k] \/ saved'[k] = {}
    BY <1>0, <1>4 DEF DeleteRow, DeleteJobRow
  <2> QED
    BY <1>4, <2>1, ResultsGo DEF DeleteRow
<1> QED
  BY <1>1, <1>2, <1>3, <1>4 DEF DeleteStep

\* The head of the channel is in one worker's hands and no longer in the
\* channel; nothing else moves.
LEMMA PopHands ==
  ASSUME TypeInv, Holding, NEW w \in Workers, Pop(w), NEW head, head = Head(jobQueue)
  PROVE  /\ wpc[w] = "idle" /\ wjob[w] = NoJob
         /\ head \in Jobs /\ wjob'[w] = head /\ wpc'[w] = "popped"
         /\ \A v \in Workers \ {w} : wpc'[v] = wpc[v] /\ wjob'[v] = wjob[v]
         /\ Queued(head) /\ ~Queued(head)' /\ Popped(head)'
         /\ \A k : k # head =>
              (Queued(k)' <=> Queued(k)) /\ (Popped(k)' <=> Popped(k))
<1>1. /\ wpc[w] = "idle" /\ wjob[w] = NoJob /\ jobQueue # <<>> /\ jobQueue \in Seq(Jobs)
      /\ UNCHANGED <<saved, pendingJobs, submit, cancelled>>
  BY DEF Pop, db, handlers, TypeInv, TypeOK, HolderShape
<1>2. /\ head = jobQueue[1] /\ head \in Jobs
      /\ Len(jobQueue) \in Nat \ {0}
      /\ Len(jobQueue') = Len(jobQueue) - 1
      /\ \A i \in 1..Len(jobQueue') : jobQueue'[i] = jobQueue[i + 1]
  BY <1>1, HeadTailProperties, EmptySeq, LenProperties DEF Pop
<1>3. /\ wpc'[w] = "popped" /\ wjob'[w] = head
      /\ \A v \in Workers \ {w} : wpc'[v] = wpc[v] /\ wjob'[v] = wjob[v]
  BY DEF Pop, Goto, TypeInv, TypeOK
<1>4. \A i \in 1..Len(jobQueue') : i + 1 \in 1..Len(jobQueue) /\ i + 1 # 1
  BY <1>2
<1>5. Queued(head) /\ ~Queued(head)'
  BY <1>2, <1>4 DEF Queued, Holding, OneHolder
<1>6. \A k : k # head => (Queued(k)' <=> Queued(k))
  <2> SUFFICES ASSUME NEW k, k # head PROVE Queued(k)' <=> Queued(k)
    OBVIOUS
  <2>1. ASSUME Queued(k) PROVE Queued(k)'
    <3>1. PICK i \in 1..Len(jobQueue) : jobQueue[i] = k
      BY <2>1 DEF Queued
    <3>2. i - 1 \in 1..Len(jobQueue') /\ (i - 1) + 1 = i
      BY <1>2, <3>1
    <3> QED
      BY <1>2, <3>1, <3>2 DEF Queued
  <2>2. ASSUME Queued(k)' PROVE Queued(k)
    BY <1>2, <1>4, <2>2 DEF Queued
  <2> QED
    BY <2>1, <2>2
<1>7. Popped(head)' /\ \A k : k # head => (Popped(k)' <=> Popped(k))
  BY <1>1, <1>3 DEF Popped
<1> QED
  BY <1>1, <1>2, <1>3, <1>5, <1>6, <1>7

\* A worker receives the head of the channel.
LEMMA PopHolding ==
  ASSUME TypeInv, Holding, NEW w \in Workers, Pop(w)
  PROVE  Holding'
<1>0. PICK head : head = Head(jobQueue)
  OBVIOUS
<1>1. /\ wpc[w] = "idle" /\ wjob[w] = NoJob /\ jobQueue # <<>> /\ jobQueue \in Seq(Jobs)
      /\ UNCHANGED <<saved, pendingJobs, submit, cancelled>>
  BY DEF Pop, db, handlers, TypeInv, TypeOK, HolderShape
<1>2. /\ head = jobQueue[1] /\ head \in Jobs
      /\ Len(jobQueue) \in Nat \ {0}
      /\ Len(jobQueue') = Len(jobQueue) - 1
      /\ \A i \in 1..Len(jobQueue') : jobQueue'[i] = jobQueue[i + 1]
  BY <1>0, <1>1, HeadTailProperties, EmptySeq, LenProperties DEF Pop
<1>3. /\ wpc'[w] = "popped" /\ wjob'[w] = head
      /\ \A v \in Workers \ {w} : wpc'[v] = wpc[v] /\ wjob'[v] = wjob[v]
  BY <1>0 DEF Pop, Goto, TypeInv, TypeOK
<1>4. \A i \in 1..Len(jobQueue') : i + 1 \in 1..Len(jobQueue) /\ i + 1 # 1
  BY <1>2
<1>5. Queued(head) /\ ~Queued(head)'
  BY <1>0, PopHands
<1>6. \A k : k # head => (Queued(k)' <=> Queued(k))
  BY <1>0, PopHands
<1>7. Popped(head)' /\ \A k : k # head => (Popped(k)' <=> Popped(k))
  BY <1>0, PopHands
<1>8. \A v \in Workers : wjob[v] # NoJob => wjob[v] # head
  BY <1>5 DEF Holding, OneHolder
<1>9. OneHolder'
  <2>1. Len(jobQueue') <= QueueDepth
    BY <1>2, PoolAssumption DEF Holding, OneHolder
  <2>2. \A i, k \in 1..Len(jobQueue') : i # k => jobQueue'[i] # jobQueue'[k]
    BY <1>2, <1>4 DEF Holding, OneHolder
  <2>3. \A v \in Workers : (wjob[v] # NoJob => ~Queued(wjob[v]))'
    <3> SUFFICES ASSUME NEW v \in Workers, wjob'[v] # NoJob,
                        NEW k, k = wjob'[v]
                 PROVE  ~Queued(k)'
      BY DEF Queued
    <3>1. CASE v = w
      BY <1>3, <1>5, <3>1
    <3>2. CASE v # w
      BY <1>3, <1>6, <1>8, <3>2 DEF Holding, OneHolder
    <3> QED
      BY <3>1, <3>2
  <2>4. \A u, v \in Workers : u # v /\ wjob'[u] # NoJob => wjob'[u] # wjob'[v]
    BY <1>2, <1>3, <1>8, JobsAssumption DEF Holding, OneHolder
  <2> QED
    BY <2>1, <2>2, <2>3, <2>4 DEF OneHolder
<1>10. PendingIsTracked' /\ PendingShape'
  BY <1>1, <1>6, <1>7 DEF Holding, PendingIsTracked, PendingShape
<1>11. QueuedAccepted'
  BY <1>1, <1>2, <1>4 DEF Holding, QueuedAccepted
<1>12. HeldAccepted'
  BY <1>1, <1>2, <1>3 DEF Holding, QueuedAccepted, HeldAccepted
<1>13. CancelledShape' /\ ClaimedShape'
  BY <1>1, <1>3 DEF Holding, CancelledShape, ClaimedShape
<1>14. SavedShape'
  BY <1>1, <1>5, <1>6, <1>7 DEF Holding, SavedShape
<1> QED
  BY <1>9, <1>10, <1>11, <1>12, <1>13, <1>14 DEF Holding

\* The worker goes on with a job it has claimed.
Unclaimed == {"idle", "popped", "exited"}

LEMMA AdvanceHolding ==
  ASSUME TypeInv, Holding, NEW w \in Workers, NEW pc, pc \notin Unclaimed,
         wpc[w] \notin Unclaimed, Goto(w, pc),
         UNCHANGED <<pendingJobs, jobQueue, submit, wjob, cancelled>>,
         \A k \in Jobs : saved'[k] = saved[k] \/ k = wjob[w]
  PROVE  Holding'
<1>1. wpc'[w] = pc /\ \A v \in Workers \ {w} : wpc'[v] = wpc[v]
  BY DEF Goto, TypeInv, TypeOK
<1>2. \A k : (Queued(k)' <=> Queued(k)) /\ (Popped(k)' <=> Popped(k))
  BY <1>1 DEF Queued, Popped, Unclaimed
<1>3. wjob[w] \in Jobs /\ ~Queued(wjob[w]) /\ ~Popped(wjob[w])
  BY DEF TypeInv, TypeOK, HolderShape, Holding, OneHolder, Popped, Unclaimed
<1>4. submit[wjob[w]] = "accepted" /\ wjob[w] \notin pendingJobs \cup cancelled
  BY <1>3, JobsAssumption DEF Holding, HeldAccepted, ClaimedShape, Unclaimed
<1>5. OneHolder'
  BY <1>2 DEF Holding, OneHolder
<1>6. PendingIsTracked' /\ QueuedAccepted' /\ HeldAccepted' /\ PendingShape' /\ CancelledShape'
  BY <1>2 DEF Holding, PendingIsTracked, QueuedAccepted, HeldAccepted, PendingShape,
              CancelledShape
<1>7. ClaimedShape'
  BY <1>1, <1>4 DEF Holding, ClaimedShape
<1>8. SavedShape'
  BY <1>2, <1>3, <1>4 DEF Holding, SavedShape
<1> QED
  BY <1>5, <1>6, <1>7, <1>8 DEF Holding

\* The worker lets go of its job; if it had not claimed it, the job is out of
\* pendingJobs.
LEMMA ReleaseHolding ==
  ASSUME TypeInv, Holding, NEW w \in Workers, Release(w), wpc[w] \notin {"idle", "exited"},
         wjob[w] \notin pendingJobs, UNCHANGED <<pendingJobs, saved, jobQueue, submit, cancelled>>
  PROVE  Holding'
<1>1. /\ wpc'[w] = "idle" /\ wjob'[w] = NoJob
      /\ \A v \in Workers \ {w} : wpc'[v] = wpc[v] /\ wjob'[v] = wjob[v]
  BY DEF Release, Goto, TypeInv, TypeOK
<1>2. \A k : /\ Queued(k)' <=> Queued(k)
             /\ Popped(k)' => Popped(k)
             /\ k # wjob[w] => (Popped(k)' <=> Popped(k))
  BY <1>1 DEF Queued, Popped
<1>3. OneHolder'
  <2>1. \A v \in Workers : (wjob[v] # NoJob => ~Queued(wjob[v]))'
    <3> SUFFICES ASSUME NEW v \in Workers, wjob'[v] # NoJob PROVE ~Queued(wjob[v])'
      OBVIOUS
    <3>1. v # w /\ wjob'[v] = wjob[v] /\ ~Queued(wjob[v])
      BY <1>1 DEF Holding, OneHolder
    <3> QED
      BY <3>1 DEF Queued
  <2>2. \A u, v \in Workers : u # v /\ wjob'[u] # NoJob => wjob'[u] # wjob'[v]
    BY <1>1 DEF Holding, OneHolder
  <2> QED
    BY <2>1, <2>2 DEF Holding, OneHolder
<1>4. PendingIsTracked'
  BY <1>2 DEF Holding, PendingIsTracked
<1>5. QueuedAccepted' /\ PendingShape' /\ CancelledShape'
  BY DEF Holding, QueuedAccepted, PendingShape, CancelledShape
<1>6. HeldAccepted' /\ ClaimedShape'
  BY <1>1 DEF Holding, HeldAccepted, ClaimedShape
<1>7. SavedShape'
  BY <1>2 DEF Holding, SavedShape
<1> QED
  BY <1>3, <1>4, <1>5, <1>6, <1>7 DEF Holding

\* A claimed job is not in pendingJobs.
LEMMA ReleaseClaimed ==
  ASSUME TypeInv, Holding, NEW w \in Workers, Release(w), wpc[w] \notin Unclaimed,
         UNCHANGED <<pendingJobs, saved, jobQueue, submit, cancelled>>
  PROVE  Holding'
<1>1. wjob[w] \notin pendingJobs
  BY DEF Holding, ClaimedShape, Unclaimed
<1> QED
  BY <1>1, ReleaseHolding DEF Unclaimed

\* The job leaves pendingJobs, or had left it and is dropped.
LEMMA ClaimHolding ==
  ASSUME TypeInv, Holding, NEW w \in Workers, Claim(w)
  PROVE  Holding'
<1>1. /\ wpc[w] = "popped" /\ wjob[w] \in Jobs
      /\ pendingJobs' = pendingJobs \ {wjob[w]}
      /\ UNCHANGED <<saved, jobQueue, submit, cancelled>>
  BY DEF Claim, db, handlers, TypeInv, TypeOK, HolderShape
<1>2. CASE wjob[w] \notin pendingJobs
  BY <1>1, <1>2, ReleaseHolding DEF Claim
<1>3. CASE wjob[w] \in pendingJobs
  <2>1. /\ wpc'[w] = "claimed" /\ UNCHANGED wjob
        /\ \A v \in Workers \ {w} : wpc'[v] = wpc[v]
    BY <1>1, <1>3 DEF Claim, Goto, TypeInv, TypeOK
  <2>2. \A k : /\ Queued(k)' <=> Queued(k)
               /\ Popped(k)' => Popped(k)
               /\ k # wjob[w] => (Popped(k)' <=> Popped(k))
    BY <2>1, <1>1 DEF Queued, Popped
  <2>3. wjob[w] \notin cancelled
    BY <1>3 DEF Holding, CancelledShape
  <2>4. OneHolder'
    BY <1>1, <2>1, <2>2 DEF Holding, OneHolder
  <2>5. PendingIsTracked' /\ PendingShape' /\ CancelledShape'
    BY <1>1, <2>2 DEF Holding, PendingIsTracked, PendingShape, CancelledShape
  <2>6. QueuedAccepted' /\ HeldAccepted'
    BY <1>1, <2>1 DEF Holding, QueuedAccepted, HeldAccepted
  <2>7. ClaimedShape'
    BY <1>1, <2>1, <2>3 DEF Holding, ClaimedShape
  <2>8. SavedShape'
    BY <1>1, <2>2 DEF Holding, SavedShape
  <2> QED
    BY <2>4, <2>5, <2>6, <2>7, <2>8 DEF Holding
<1> QED
  BY <1>2, <1>3

LEMMA WorkerHolding ==
  ASSUME TypeInv, Holding, NEW w \in Workers, WorkerStep(w)
  PROVE  Holding'
<1> USE DEF mem, db, handlers, Unclaimed
<1>1. CASE Pop(w)
  BY <1>1, PopHolding
<1>2. CASE Claim(w)
  BY <1>2, ClaimHolding
<1>3. CASE MarkRunning(w)
  BY <1>3, AdvanceHolding, ReleaseClaimed DEF MarkRunning
<1>4. CASE RunOnce(w)
  <2>1. \E pc \in {"deriving", "collecting"} : Goto(w, pc)
    BY <1>4 DEF RunOnce
  <2>2. \A k \in Jobs : saved'[k] = saved[k] \/ k = wjob[w]
    BY <1>4 DEF RunOnce, SaveResult, TypeInv, TypeOK
  <2> QED
    BY <1>4, <2>1, <2>2, AdvanceHolding DEF RunOnce
<1>5. CASE Panic(w)
  BY <1>5, AdvanceHolding DEF Panic
<1>6. CASE FailPanicked(w)
  BY <1>6, ReleaseClaimed DEF FailPanicked
<1>7. CASE WriteFinalStatus(w)
  BY <1>7, AdvanceHolding, ReleaseClaimed DEF WriteFinalStatus, AfterFinishing, AfterJudging
<1>8. CASE JudgeBudget(w)
  BY <1>8, AdvanceHolding, ReleaseClaimed DEF JudgeBudget, AfterJudging
<1>9. CASE ReadJob(w)
  <2>1. wpc[w] = "reading" /\ UNCHANGED <<pendingJobs, saved, jobQueue, submit, cancelled>>
    BY <1>9 DEF ReadJob
  <2>2. Release(w) \/ (Goto(w, "gathering") /\ UNCHANGED wjob)
    BY <1>9 DEF ReadJob
  <2> QED
    BY <2>1, <2>2, AdvanceHolding, ReleaseClaimed
<1>10. CASE ReadResults(w)
  <2>1. /\ wpc[w] = "gathering" /\ Goto(w, "enqueueing")
        /\ UNCHANGED <<pendingJobs, saved, jobQueue, submit, wjob, cancelled>>
    BY <1>10 DEF ReadResults
  <2> QED
    BY <2>1, AdvanceHolding
<1>11. CASE EnqueueWebhook(w)
  BY <1>11, ReleaseClaimed DEF EnqueueWebhook
<1>12. CASE WorkerExit(w)
  <2>1. wpc'[w] = "exited" /\ \A v \in Workers \ {w} : wpc'[v] = wpc[v]
    BY <1>12 DEF WorkerExit, Goto, TypeInv, TypeOK
  <2>2. wpc[w] = "idle" /\ UNCHANGED <<saved, pendingJobs, jobQueue, submit, wjob, cancelled>>
    BY <1>12 DEF WorkerExit
  <2>3. \A k : (Queued(k)' <=> Queued(k)) /\ (Popped(k)' <=> Popped(k))
    BY <2>1, <2>2 DEF Queued, Popped
  <2>4. OneHolder' /\ PendingIsTracked' /\ SavedShape'
    BY <2>2, <2>3 DEF Holding, OneHolder, PendingIsTracked, SavedShape
  <2>5. QueuedAccepted' /\ HeldAccepted' /\ PendingShape' /\ CancelledShape'
    BY <2>2 DEF Holding, QueuedAccepted, HeldAccepted, PendingShape, CancelledShape
  <2>6. ClaimedShape'
    BY <2>1, <2>2 DEF Holding, ClaimedShape
  <2> QED
    BY <2>4, <2>5, <2>6 DEF Holding
<1> QED
  BY <1>1, <1>2, <1>3, <1>4, <1>5, <1>6, <1>7, <1>8, <1>9, <1>10, <1>11,
     <1>12 DEF WorkerStep

LEMMA ProcessEndsHolding ==
  ASSUME TypeInv, Holding, ProcessEnds
  PROVE  Holding'
<1>1. /\ pendingJobs' = {} /\ jobQueue' = <<>> /\ Len(jobQueue') = 0
      /\ \A w \in Workers : wpc'[w] = "exited" /\ wjob'[w] = NoJob
      /\ UNCHANGED <<saved, cancelled>>
  BY DEF ProcessEnds, db
<1>2. \A j \in Jobs : /\ submit[j] = "accepted" => submit'[j] = "accepted"
                      /\ submit[j] \notin {"new", "created"} => submit'[j] \notin {"new", "created"}
  BY DEF ProcessEnds, Answered
<1>3. \A k : ~Queued(k)'
  BY <1>1 DEF Queued
<1>4. \A k : ~Popped(k)'
  BY <1>1 DEF Popped
<1>5. OneHolder'
  BY <1>1, <1>3, PoolAssumption DEF OneHolder
<1>6. PendingIsTracked' /\ HeldAccepted' /\ PendingShape' /\ ClaimedShape'
  BY <1>1 DEF PendingIsTracked, HeldAccepted, PendingShape, ClaimedShape
<1>7. QueuedAccepted'
  BY <1>1 DEF QueuedAccepted
<1>8. CancelledShape'
  BY <1>1, <1>2 DEF Holding, CancelledShape, TypeInv, TypeOK
<1>9. SavedShape'
  BY <1>1, <1>2, <1>3, <1>4 DEF Holding, SavedShape
<1> QED
  BY <1>5, <1>6, <1>7, <1>8, <1>9 DEF Holding

LEMMA ProcessHolding ==
  ASSUME TypeInv, Holding, Stop \/ ProcessExits \/ Crash \/ Restart
  PROVE  Holding'
<1>1. CASE Stop
  BY <1>1, UntouchedHolding DEF Stop, Untouched, db, mem, handlers, pool
<1>2. CASE ProcessEnds
  BY <1>2, ProcessEndsHolding
<1>3. CASE Restart
  <2>1. /\ \A w \in Workers : wpc'[w] = "idle" /\ wpc[w] = "exited" /\ wjob'[w] = NoJob
        /\ UNCHANGED <<saved, pendingJobs, jobQueue, submit, wjob, cancelled>>
    BY <1>3 DEF Restart, mem, handlers, TypeInv, HolderShape, DownShape
  <2>2. \A k : (Queued(k)' <=> Queued(k)) /\ (Popped(k)' <=> Popped(k))
    BY <2>1 DEF Queued, Popped
  <2>3. OneHolder' /\ PendingIsTracked' /\ SavedShape'
    BY <2>1, <2>2 DEF Holding, OneHolder, PendingIsTracked, SavedShape
  <2>4. QueuedAccepted' /\ HeldAccepted' /\ PendingShape' /\ CancelledShape'
    BY <2>1 DEF Holding, QueuedAccepted, HeldAccepted, PendingShape, CancelledShape
  <2>5. ClaimedShape'
    BY <2>1 DEF ClaimedShape
  <2> QED
    BY <2>3, <2>4, <2>5 DEF Holding
<1> QED
  BY <1>1, <1>2, <1>3 DEF ProcessExits, Crash

LEMMA HoldingStep == TypeInv /\ Holding /\ [Next]_vars => Holding'
<1> SUFFICES ASSUME TypeInv, Holding, [Next]_vars PROVE Holding'
  OBVIOUS
<1>1. CASE \E j \in Jobs : SubmitStep(j) \/ DeleteStep(j)
  BY <1>1, SubmitHolding, DeleteHolding
<1>2. CASE \E w \in Workers : WorkerStep(w)
  BY <1>2, WorkerHolding
<1>3. CASE Stop \/ ProcessExits \/ Crash \/ Restart
  BY <1>3, ProcessHolding
<1>4. CASE UNCHANGED vars
  BY <1>4, UntouchedHolding DEF Untouched, vars, db, mem, handlers, pool
<1> QED
  BY <1>1, <1>2, <1>3, <1>4 DEF Next

LEMMA HoldingAlways == Spec => [](TypeInv /\ Holding)
<1>1. Init => TypeInv /\ Holding
  BY TypeInvInit, HoldingInit
<1>2. TypeInv /\ Holding /\ [Next]_vars => (TypeInv /\ Holding)'
  BY TypeInvStep, HoldingStep
<1> QED
  BY <1>1, <1>2, PTL DEF Spec

\* Every job is at most once in the channel or in one worker's hands, whatever
\* the size of the pool and of the queue: no job is ever run twice at a time.
THEOREM NoJobRunsTwice == Spec => []OneHolder
<1>1. Holding => OneHolder
  BY DEF Holding
<1> QED
  BY <1>1, HoldingAlways, PTL

\* pendingJobs does not grow beyond the submissions under way and the channel.
THEOREM PendingDoesNotLeak == Spec => []PendingIsTracked
<1>1. Holding => PendingIsTracked
  BY DEF Holding
<1> QED
  BY <1>1, HoldingAlways, PTL

\* A job CancelJob took out of pendingJobs is never claimed, and no result is
\* ever stored for it.
THEOREM CancelWins == Spec => []CancelledNeverRuns
<1>1. TypeInv /\ Holding => CancelledNeverRuns
  <2> SUFFICES ASSUME TypeInv, Holding, NEW j \in cancelled
               PROVE  /\ saved[j] = {}
                      /\ \A w \in Workers : wjob[w] = j => wpc[w] = "popped"
    BY DEF CancelledNeverRuns
  <2>1. j \in Jobs
    BY DEF TypeInv, TypeOK
  <2>2. saved[j] = {}
    BY <2>1 DEF Holding, SavedShape
  <2>3. \A w \in Workers : wjob[w] = j => wpc[w] = "popped"
    BY <2>1, JobsAssumption DEF Holding, ClaimedShape, TypeInv, HolderShape
  <2> QED
    BY <2>2, <2>3
<1> QED
  BY <1>1, HoldingAlways, PTL

-----------------------------------------------------------------------------
(* The rows                                                                *)

USE JobsAssumption, RunsAssumption, KindsAssumption

Known == TypeInv /\ Holding /\ RowInv

\* What RowInv says of one job.
JobPart(j) ==
  /\ RowShape(j)
  /\ j \in Reliable =>
       /\ UnrunShape(j)
       /\ \A w \in Workers : wjob[w] = j => InHands(w, j)
       /\ mgr = "up" => HasOwner(j)
       /\ status[j] \in {"COMPLETED", "PARTIAL"} => saved[j] = 1..Runs[j]
       /\ delivery[j] # NoPayload => TellsFinal(j, delivery[j])

LEMMA RowInvByJob ==
  /\ RowInv <=> TallyShape /\ \A j \in Jobs : JobPart(j)
  /\ RowInv' <=> TallyShape' /\ \A j \in Jobs : JobPart(j)'
<1>1. Reliable \subseteq Jobs /\ Reliable' = Reliable
  BY DEF Reliable
<1> QED
  BY <1>1 DEF RowInv, JobPart, OpenRowHasOwner, FinishedHasAllRuns, PayloadIsFinal

\* A step that leaves alone everything JobPart(k) reads.
SameRow(k) ==
  /\ status'[k] = status[k] /\ saved'[k] = saved[k] /\ verdict'[k] = verdict[k]
  /\ delivery'[k] = delivery[k] /\ submit'[k] = submit[k]
SameHolder(k) ==
  /\ k \in pendingJobs' <=> k \in pendingJobs
  /\ Queued(k)' <=> Queued(k)
  /\ \A w \in Workers :
       wjob[w] = k \/ wjob'[w] = k =>
         /\ wjob'[w] = wjob[w] /\ wpc'[w] = wpc[w]
         /\ tally'[w] = tally[w] /\ payload'[w] = payload[w]

LEMMA SameJob ==
  ASSUME NEW k \in Jobs, JobPart(k), SameRow(k), SameHolder(k), mgr' = mgr \/ mgr' # "up"
  PROVE  JobPart(k)'
<1>1. RowShape(k)'
  BY DEF JobPart, RowShape, SameRow
<1> SUFFICES ASSUME k \in Reliable
             PROVE  /\ UnrunShape(k)'
                    /\ \A w \in Workers : wjob'[w] = k => InHands(w, k)'
                    /\ mgr' = "up" => HasOwner(k)'
                    /\ status'[k] \in {"COMPLETED", "PARTIAL"} => saved'[k] = 1..Runs[k]
                    /\ delivery'[k] # NoPayload => TellsFinal(k, delivery[k])'
  BY <1>1 DEF JobPart, Reliable
<1>2. UnrunShape(k)'
  BY DEF JobPart, UnrunShape, SameRow, SameHolder
<1>3. ASSUME NEW w \in Workers, wjob'[w] = k PROVE InHands(w, k)'
  BY <1>3 DEF JobPart, InHands, TellsFinal, TellsStatus, SameRow, SameHolder
<1>4. ASSUME mgr' = "up" PROVE HasOwner(k)'
  BY <1>4 DEF JobPart, HasOwner, Popped, SameRow, SameHolder
<1>5. /\ status'[k] \in {"COMPLETED", "PARTIAL"} => saved'[k] = 1..Runs[k]
      /\ delivery'[k] # NoPayload => TellsFinal(k, delivery[k])'
  BY DEF JobPart, TellsFinal, TellsStatus, SameRow
<1> QED
  BY <1>2, <1>3, <1>4, <1>5

\* A step about one job.
LEMMA OneJobMoves ==
  ASSUME RowInv, NEW j \in Jobs, JobPart(j)', TallyShape', UNCHANGED mgr,
         \A k \in Jobs \ {j} : SameRow(k) /\ SameHolder(k)
  PROVE  RowInv'
<1>1. \A k \in Jobs : JobPart(k)
  BY RowInvByJob
<1>2. \A k \in Jobs : JobPart(k)'
  BY <1>1, SameJob
<1> QED
  BY <1>2, RowInvByJob

-----------------------------------------------------------------------------
(* Submissions and deletions                                               *)

SamePool == UNCHANGED <<wpc, wjob, tally, payload>>

LEMMA SamePoolTally == ASSUME TallyShape, SamePool PROVE TallyShape'
BY DEF TallyShape, SamePool

\* The row of j is deleted.
LEMMA RowGoes ==
  ASSUME NEW j \in Jobs, JobPart(j), DeleteJobRow(j), TypeInv,
         UNCHANGED <<mgr, delivery>>, SamePool,
         submit'[j] = submit[j] \/ submit'[j] = "refused",
         j \in pendingJobs' => j \in pendingJobs
  PROVE  JobPart(j)'
<1>1. status'[j] = "none" /\ saved'[j] = {} /\ verdict'[j] = FALSE
  BY DEF DeleteJobRow, TypeInv, TypeOK
<1>2. RowShape(j)'
  BY <1>1 DEF JobPart, RowShape
<1>3. j \in Reliable => UnrunShape(j)' /\ HasOwner(j)'
  BY <1>1 DEF UnrunShape, HasOwner
<1>4. ASSUME j \in Reliable, NEW w \in Workers, wjob'[w] = j PROVE InHands(w, j)'
  BY <1>1, <1>4 DEF JobPart, InHands, TellsFinal, TellsStatus, SamePool
<1>5. j \in Reliable /\ delivery'[j] # NoPayload => TellsFinal(j, delivery[j])'
  BY <1>1 DEF JobPart, TellsFinal, TellsStatus
<1> QED
  BY <1>1, <1>2, <1>3, <1>4, <1>5 DEF JobPart

\* No worker holds a job whose submission has not been accepted.
LEMMA NoHandsYet ==
  ASSUME Holding, NEW j \in Jobs, submit[j] # "accepted", UNCHANGED wjob
  PROVE  \A w \in Workers : wjob[w] # j /\ wjob'[w] # j
BY UnansweredIsFree

\* A submission or a deletion of j touches nothing of another job.
LEMMA RequestMovesRow ==
  ASSUME Known, NEW j \in Jobs, SamePool, UNCHANGED mgr,
         UNCHANGED submit \/ \E pc : SubmitGoto(j, pc),
         JobPart(j)', \A k \in Jobs \ {j} : Queued(k)' <=> Queued(k),
         pendingJobs' = pendingJobs \/ pendingJobs' = pendingJobs \cup {j}
           \/ pendingJobs' = pendingJobs \ {j},
         \A k \in Jobs \ {j} : /\ status'[k] = status[k] /\ saved'[k] = saved[k]
                               /\ verdict'[k] = verdict[k] /\ delivery'[k] = delivery[k]
  PROVE  RowInv'
<1>1. \A k \in Jobs \ {j} : submit'[k] = submit[k]
  BY DEF SubmitGoto, Known, TypeInv, TypeOK
<1>2. \A k \in Jobs \ {j} : SameRow(k) /\ SameHolder(k)
  BY <1>1 DEF SameRow, SameHolder, SamePool
<1>3. TallyShape'
  BY SamePoolTally DEF Known, RowInv
<1> QED
  BY <1>2, <1>3, OneJobMoves DEF Known

LEMMA SubmitRows ==
  ASSUME Known, NEW j \in Jobs, SubmitStep(j)
  PROVE  RowInv'
<1> USE DEF mem, db, handlers, pool, SamePool
<1>0. /\ JobPart(j) /\ submit = [k \in Jobs |-> submit[k]]
      /\ status \in [Jobs -> Final \cup Open \cup {"none"}]
      /\ saved \in [Jobs -> SUBSET Nat] /\ verdict \in [Jobs -> BOOLEAN]
  BY RowInvByJob DEF Known, TypeInv, TypeOK
<1>1. CASE CreateJob(j)
  <2>1. /\ submit'[j] = "created" /\ submit[j] = "new" /\ status'[j] = "PENDING"
        /\ status[j] = "none" /\ saved'[j] = {} /\ ~verdict'[j] /\ delivery'[j] = NoPayload
        /\ pendingJobs' = pendingJobs /\ jobQueue' = jobQueue
    BY <1>0, <1>1 DEF CreateJob, SubmitGoto, JobPart, RowShape
  <2>2. \A w \in Workers : wjob'[w] # j
    BY <1>1, <2>1, NoHandsYet DEF CreateJob, Known
  <2>3. JobPart(j)'
    BY <2>1, <2>2 DEF JobPart, RowShape, UnrunShape, HasOwner
  <2> QED
    BY <1>0, <1>1, <2>3, RequestMovesRow DEF CreateJob, Queued
<1>2. CASE CreateJobFails(j)
  <2>1. /\ submit'[j] = "refused" /\ submit[j] = "new" /\ status'[j] = "none"
        /\ saved'[j] = {} /\ ~verdict'[j] /\ delivery'[j] = NoPayload
        /\ pendingJobs' = pendingJobs /\ jobQueue' = jobQueue
    BY <1>0, <1>2 DEF CreateJobFails, SubmitGoto, JobPart, RowShape
  <2>2. \A w \in Workers : wjob'[w] # j
    BY <1>2, <2>1, NoHandsYet DEF CreateJobFails, Known
  <2>3. JobPart(j)'
    BY <2>1, <2>2 DEF JobPart, RowShape, UnrunShape, HasOwner
  <2> QED
    BY <1>0, <1>2, <2>3, RequestMovesRow DEF CreateJobFails, Queued
<1>3. CASE RegisterPending(j)
  <2>1. /\ submit'[j] = "registered" /\ submit[j] = "created" /\ j \in pendingJobs'
        /\ UNCHANGED <<mgr, status, saved, verdict, delivery, jobQueue, wjob>>
    BY <1>0, <1>3 DEF RegisterPending, SubmitGoto
  <2>2. \A w \in Workers : wjob'[w] # j
    BY <2>1, NoHandsYet DEF Known
  <2>3. JobPart(j)'
    BY <1>0, <2>1, <2>2 DEF JobPart, RowShape, UnrunShape, HasOwner, TellsFinal, TellsStatus
  <2> QED
    BY <1>0, <1>3, <2>3, RequestMovesRow DEF RegisterPending, Queued
<1>4. CASE CheckManager(j)
  <2>1. /\ submit[j] = "registered"
        /\ UNCHANGED <<mgr, status, saved, verdict, delivery, pendingJobs, jobQueue, wjob>>
    BY <1>4 DEF CheckManager
  <2>2. PICK pc \in {"checked", "rejecting"} : SubmitGoto(j, pc)
    BY <1>4 DEF CheckManager
  <2>3. submit'[j] = pc /\ \A w \in Workers : wjob'[w] # j
    BY <1>0, <2>1, <2>2, NoHandsYet DEF SubmitGoto, Known
  <2>4. JobPart(j)'
    BY <1>0, <2>1, <2>3 DEF JobPart, RowShape, UnrunShape, HasOwner, TellsFinal, TellsStatus
  <2> QED
    BY <1>4, <2>1, <2>2, <2>4, RequestMovesRow DEF CheckManager, Queued
<1>5. CASE Enqueue(j)
  <2>1. /\ submit[j] = "checked"
        /\ UNCHANGED <<mgr, status, saved, verdict, delivery, pendingJobs, wjob>>
    BY <1>5 DEF Enqueue
  <2>2. \A w \in Workers : wjob'[w] # j
    BY <2>1, NoHandsYet DEF Known
  <2>3. CASE jobQueue' = Append(jobQueue, j) /\ SubmitGoto(j, "accepted")
    <3>1. \A k : Queued(k)' <=> Queued(k) \/ k = j
      BY <2>3, SendQueues DEF Known
    <3>2. submit'[j] = "accepted" /\ Queued(j)'
      BY <1>0, <2>3, <3>1 DEF SubmitGoto
    <3>3. JobPart(j)'
      BY <1>0, <2>1, <2>2, <3>2 DEF JobPart, RowShape, UnrunShape, HasOwner, TellsFinal,
         TellsStatus
    <3> QED
      BY <1>5, <2>1, <2>3, <3>1, <3>3, RequestMovesRow DEF Enqueue
  <2>4. CASE jobQueue' = jobQueue /\ SubmitGoto(j, "rejecting")
    <3>1. submit'[j] = "rejecting"
      BY <1>0, <2>4 DEF SubmitGoto
    <3>2. JobPart(j)'
      BY <1>0, <2>1, <2>2, <3>1 DEF JobPart, RowShape, UnrunShape, HasOwner, TellsFinal,
         TellsStatus
    <3> QED
      BY <1>5, <2>1, <2>4, <3>2, RequestMovesRow DEF Enqueue, Queued
  <2> QED
    BY <1>5, <2>3, <2>4 DEF Enqueue
<1>6. CASE EnqueueFailed(j)
  <2>1. /\ submit[j] = "rejecting" /\ submit'[j] = "cleaning"
        /\ pendingJobs' = pendingJobs \ {j}
        /\ UNCHANGED <<mgr, status, saved, verdict, delivery, jobQueue, wjob>>
    BY <1>0, <1>6 DEF EnqueueFailed, SubmitGoto
  <2>2. \A w \in Workers : wjob'[w] # j
    BY <2>1, NoHandsYet DEF Known
  <2>3. JobPart(j)'
    BY <1>0, <2>1, <2>2 DEF JobPart, RowShape, UnrunShape, HasOwner, TellsFinal, TellsStatus
  <2> QED
    BY <1>6, <2>1, <2>3, RequestMovesRow DEF EnqueueFailed, Queued
<1>7. CASE DeleteRejected(j)
  <2>1. /\ submit[j] = "cleaning" /\ submit'[j] = "refused"
        /\ UNCHANGED <<mgr, delivery, pendingJobs, jobQueue, wjob>>
    BY <1>0, <1>7 DEF DeleteRejected, SubmitGoto
  <2>2. \A w \in Workers : wjob[w] # j /\ wjob'[w] # j
    BY <2>1, NoHandsYet DEF Known
  <2>3. CASE DeleteJobRow(j)
    <3>1. JobPart(j)'
      BY <1>0, <1>7, <2>1, <2>3, RowGoes DEF DeleteRejected, Known
    <3> QED
      BY <1>0, <1>7, <2>1, <2>3, <3>1, RequestMovesRow DEF DeleteRejected, DeleteJobRow, Queued
  <2>4. CASE StoreFails(j, SubmitCtxDone(j)) /\ UNCHANGED <<status, saved, verdict>>
    <3>1. j \in Flaky \/ (j \in Scheduled /\ mgr' = "stopping")
      BY <2>1, <2>4 DEF StoreFails, SubmitCtxDone, ManagerCtxDone
    <3>2. JobPart(j)'
      BY <1>0, <2>1, <2>2, <2>4, <3>1
         DEF JobPart, RowShape, UnrunShape, TellsFinal, TellsStatus, Reliable
    <3> QED
      BY <1>7, <2>1, <2>4, <3>2, RequestMovesRow DEF DeleteRejected, Queued
  <2> QED
    BY <1>7, <2>3, <2>4 DEF DeleteRejected
<1> QED
  BY <1>1, <1>2, <1>3, <1>4, <1>5, <1>6, <1>7 DEF SubmitStep

LEMMA DeleteRows ==
  ASSUME Known, NEW j \in Jobs, DeleteStep(j)
  PROVE  RowInv'
<1> USE DEF mem, db, handlers, pool, SamePool
<1>0. /\ JobPart(j) /\ delivery \in [Jobs -> Payloads \cup {NoPayload}]
      /\ TypeInv /\ UNCHANGED <<mgr, submit, jobQueue>> /\ SamePool
  BY RowInvByJob DEF Known, TypeInv, TypeOK, DeleteStep, DeleteLookup, CancelJob,
     DeleteDeliveries, DeleteRow
<1>1. ASSUME DeleteJobRow(j), UNCHANGED delivery,
             pendingJobs' = pendingJobs \/ pendingJobs' = pendingJobs \ {j}
      PROVE  RowInv'
  <2>1. JobPart(j)'
    BY <1>0, <1>1, RowGoes
  <2> QED
    BY <1>0, <1>1, <2>1, RequestMovesRow DEF DeleteJobRow, TypeInv, TypeOK, Queued
<1>2. ASSUME UNCHANGED <<status, saved, verdict, delivery>>,
             pendingJobs' = pendingJobs \/ (pendingJobs' = pendingJobs \ {j} /\ j \in Flaky)
      PROVE  RowInv'
  <2>1. JobPart(j)'
    BY <1>0, <1>2 DEF JobPart, RowShape, UnrunShape, InHands, HasOwner, TellsFinal, TellsStatus,
       Popped,
       Queued, Reliable
  <2> QED
    BY <1>0, <1>2, <2>1, RequestMovesRow DEF Queued
<1>3. ASSUME UNCHANGED <<status, saved, verdict, pendingJobs>>,
             delivery' = [delivery EXCEPT ![j] = NoPayload]
      PROVE  RowInv'
  <2>1. delivery'[j] = NoPayload /\ \A k \in Jobs \ {j} : delivery'[k] = delivery[k]
    BY <1>0, <1>3
  <2>2. JobPart(j)'
    BY <1>0, <1>3, <2>1 DEF JobPart, RowShape, UnrunShape, InHands, HasOwner, TellsFinal,
       TellsStatus,
       Popped, Queued
  <2> QED
    BY <1>0, <1>3, <2>1, <2>2, RequestMovesRow DEF Queued
<1>4. CASE DeleteLookup(j)
  BY <1>2, <1>4 DEF DeleteLookup
<1>5. CASE CancelJob(j)
  BY <1>1, <1>2, <1>5 DEF CancelJob, StoreFails
<1>6. CASE DeleteDeliveries(j)
  BY <1>2, <1>3, <1>6 DEF DeleteDeliveries
<1>7. CASE DeleteRow(j)
  BY <1>1, <1>2, <1>7 DEF DeleteRow
<1> QED
  BY <1>4, <1>5, <1>6, <1>7 DEF DeleteStep

-----------------------------------------------------------------------------
(* Workers                                                                 *)

\* What TallyShape says of one worker.
TallyOf(w) ==
  /\ wpc[w] \in {"idle", "popped", "claimed", "exited"} => tally[w].done = 0
  /\ wpc[w] = "collecting" => tally[w].done < Runs[wjob[w]]
  /\ wpc[w] = "deriving" => tally[w].done = Runs[wjob[w]]

\* A step of w touches only w and the job it holds, which it may let go.
OtherWorkers(w) ==
  \A v \in Workers \ {w} : /\ wpc'[v] = wpc[v] /\ wjob'[v] = wjob[v]
                           /\ tally'[v] = tally[v] /\ payload'[v] = payload[v]
OwnJobOnly(w) ==
  /\ OtherWorkers(w) /\ UNCHANGED <<mgr, jobQueue, submit>>
  /\ wjob'[w] = wjob[w] \/ wjob'[w] = NoJob
  /\ \A k \in Jobs \ {wjob[w]} :
       /\ status'[k] = status[k] /\ saved'[k] = saved[k]
       /\ verdict'[k] = verdict[k] /\ delivery'[k] = delivery[k]
       /\ k \in pendingJobs' <=> k \in pendingJobs

\* What a step of w must leave true of its job.
OwnPart(w, j) ==
  /\ UnrunShape(j)
  /\ wjob[w] = j => InHands(w, j)
  /\ mgr = "up" => HasOwner(j)
  /\ status[j] \in {"COMPLETED", "PARTIAL"} => saved[j] = 1..Runs[j]
  /\ delivery[j] # NoPayload => TellsFinal(j, delivery[j])

LEMMA OthersTally ==
  ASSUME TallyShape, NEW w \in Workers, OtherWorkers(w), TallyOf(w)'
  PROVE  TallyShape'
BY DEF TallyShape, TallyOf, OtherWorkers

LEMMA WorkerMovesRow ==
  ASSUME Known, NEW w \in Workers, NEW j \in Jobs, wjob[w] = j, OwnJobOnly(w),
         TallyOf(w)', status'[j] = "none" => saved'[j] = {} /\ ~verdict'[j],
         j \in Reliable => OwnPart(w, j)'
  PROVE  RowInv'
<1>1. \A v \in Workers \ {w} : wjob[v] # j /\ wjob'[v] # j
  BY DEF Known, Holding, OneHolder, OwnJobOnly, OtherWorkers
<1>2. submit'[j] = "accepted"
  BY DEF Known, Holding, HeldAccepted, OwnJobOnly
<1>3. JobPart(j)'
  <2>1. RowShape(j)'
    BY <1>2 DEF RowShape
  <2>2. j \in Reliable => \A v \in Workers : wjob'[v] = j => InHands(v, j)'
    BY <1>1 DEF OwnPart
  <2> QED
    BY <2>1, <2>2 DEF JobPart, OwnPart, Reliable
<1>4. \A k \in Jobs \ {j} : SameRow(k) /\ SameHolder(k)
  <2> SUFFICES ASSUME NEW k \in Jobs \ {j} PROVE SameRow(k) /\ SameHolder(k)
    OBVIOUS
  <2>1. wjob[w] # k /\ wjob'[w] # k
    BY DEF OwnJobOnly
  <2> QED
    BY <2>1 DEF SameRow, SameHolder, OwnJobOnly, OtherWorkers, Queued
<1>5. TallyShape'
  BY OthersTally DEF Known, RowInv, OwnJobOnly
<1> QED
  BY <1>3, <1>4, <1>5, OneJobMoves DEF Known, OwnJobOnly

\* What w knows of the job it has claimed.
LEMMA Claimed ==
  ASSUME Known, NEW w \in Workers, wpc[w] \notin Unclaimed
  PROVE  /\ wjob[w] \in Jobs /\ submit[wjob[w]] = "accepted" /\ wjob[w] \notin pendingJobs
         /\ mgr \in {"up", "stopping"}
         /\ JobPart(wjob[w]) /\ TallyOf(w)
         /\ wjob[w] \in Reliable => OwnPart(w, wjob[w])
<1>1. wjob[w] \in Jobs /\ wjob[w] # NoJob
  BY DEF Known, TypeInv, TypeOK, HolderShape, Unclaimed
<1>2. submit[wjob[w]] = "accepted" /\ wjob[w] \notin pendingJobs
  BY <1>1 DEF Known, Holding, HeldAccepted, ClaimedShape, Unclaimed
<1>3. JobPart(wjob[w]) /\ TallyOf(w)
  BY <1>1, RowInvByJob DEF Known, TallyShape, TallyOf
<1>4. mgr \in {"up", "stopping"}
  BY DEF Known, TypeInv, TypeOK, DownShape, Unclaimed
<1> QED
  BY <1>1, <1>2, <1>3, <1>4 DEF JobPart, OwnPart

\* The worker goes on, or lets its job go.
LEMMA WorkerGoes ==
  ASSUME TypeInv, NEW w \in Workers, NEW pc, Goto(w, pc), UNCHANGED <<wjob, tally, payload>>
  PROVE  /\ OtherWorkers(w) /\ wpc'[w] = pc /\ wjob'[w] = wjob[w]
         /\ tally'[w] = tally[w] /\ payload'[w] = payload[w]
BY DEF TypeInv, TypeOK, Goto, OtherWorkers

LEMMA WorkerReleases ==
  ASSUME TypeInv, NEW w \in Workers, Release(w)
  PROVE  /\ OtherWorkers(w) /\ wpc'[w] = "idle" /\ wjob'[w] = NoJob /\ TallyOf(w)'
BY DEF TypeInv, TypeOK, Goto, Release, NoTally, OtherWorkers, TallyOf

LEMMA PopRows ==
  ASSUME Known, NEW w \in Workers, Pop(w)
  PROVE  RowInv'
<1> USE DEF mem, db, handlers
<1>0. PICK j : j = Head(jobQueue)
  OBVIOUS
<1>1. /\ wpc[w] = "idle" /\ wjob[w] = NoJob /\ j \in Jobs /\ wjob'[w] = j /\ wpc'[w] = "popped"
      /\ \A v \in Workers \ {w} : wpc'[v] = wpc[v] /\ wjob'[v] = wjob[v]
      /\ Queued(j) /\ Popped(j)'
      /\ \A k : k # j => (Queued(k)' <=> Queued(k))
  BY <1>0, PopHands DEF Known
<1>2. /\ UNCHANGED <<mgr, status, saved, verdict, delivery, pendingJobs, submit, tally, payload>>
  BY DEF Pop
<1>3. \A v \in Workers : wjob[v] # j
  BY <1>1, JobsAssumption DEF Known, Holding, OneHolder
<1>4. JobPart(j)
  BY <1>1, RowInvByJob DEF Known
<1>5. \A v \in Workers : wjob'[v] = j => wpc'[v] = "popped"
  BY <1>1, <1>3
<1>6. JobPart(j)'
  BY <1>1, <1>2, <1>3, <1>4, <1>5 DEF JobPart, RowShape, UnrunShape, InHands, HasOwner,
     TellsFinal, TellsStatus, Executing
<1>7. \A k \in Jobs \ {j} : SameRow(k) /\ SameHolder(k)
  BY <1>1, <1>2 DEF SameRow, SameHolder
<1>8. TallyShape'
  BY <1>1, <1>2 DEF Known, RowInv, TallyShape
<1> QED
  BY <1>1, <1>2, <1>6, <1>7, <1>8, OneJobMoves DEF Known

LEMMA ClaimRows ==
  ASSUME Known, NEW w \in Workers, Claim(w)
  PROVE  RowInv'
<1> USE DEF mem, db, handlers
<1>1. PICK j \in Jobs : j = wjob[w] /\ wpc[w] = "popped"
  BY DEF Claim, Known, TypeInv, TypeOK, HolderShape
<1>2. /\ pendingJobs' = pendingJobs \ {j}
      /\ UNCHANGED <<mgr, status, saved, verdict, delivery, jobQueue, submit>>
  BY <1>1 DEF Claim
<1>3. /\ submit[j] = "accepted" /\ JobPart(j) /\ TallyOf(w) /\ ~Queued(j)
      /\ \A v \in Workers \ {w} : wjob[v] # j
  BY <1>1, RowInvByJob DEF Known, Holding, HeldAccepted, OneHolder, TallyShape, TallyOf
<1>4. CASE j \in pendingJobs
  <2>1. /\ OtherWorkers(w) /\ wpc'[w] = "claimed" /\ wjob'[w] = j
        /\ tally'[w] = tally[w] /\ payload'[w] = payload[w]
    BY <1>1, <1>4, WorkerGoes DEF Claim, Known
  <2>2. OwnJobOnly(w)
    BY <1>1, <1>2, <2>1 DEF OwnJobOnly
  <2>3. j \in Reliable => OwnPart(w, j)'
    BY <1>2, <1>3, <1>4, <2>1 DEF OwnPart, JobPart, UnrunShape, InHands, HasOwner, TellsFinal,
       TellsStatus, Executing
  <2>4. TallyOf(w)'
    BY <1>1, <1>3, <2>1 DEF TallyOf
  <2> QED
    BY <1>1, <1>2, <1>3, <2>2, <2>3, <2>4, WorkerMovesRow DEF JobPart, RowShape
<1>5. CASE j \notin pendingJobs
  <2>1. OtherWorkers(w) /\ wpc'[w] = "idle" /\ wjob'[w] = NoJob /\ TallyOf(w)'
    BY <1>1, <1>5, WorkerReleases DEF Claim, Known
  <2>2. OwnJobOnly(w)
    BY <1>1, <1>2, <2>1 DEF OwnJobOnly
  <2>3. mgr = "up" /\ j \in Reliable => status[j] \notin Open
    BY <1>1, <1>3, <1>5 DEF JobPart, HasOwner, Open, Executing
  <2>4. j \in Reliable => OwnPart(w, j)'
    BY <1>1, <1>2, <1>3, <2>1, <2>3 DEF OwnPart, JobPart, UnrunShape, HasOwner, TellsFinal,
       TellsStatus, Open
  <2> QED
    BY <1>1, <1>2, <1>3, <2>1, <2>2, <2>4, WorkerMovesRow DEF JobPart, RowShape
<1> QED
  BY <1>4, <1>5

\* The row of a claimed job j, as w leaves it.
LEMMA ClaimedMovesRow ==
  ASSUME Known, NEW w \in Workers, wpc[w] \notin Unclaimed, NEW j, j = wjob[w],
         OtherWorkers(w), wjob'[w] = j \/ wjob'[w] = NoJob,
         UNCHANGED <<mgr, jobQueue, submit, pendingJobs>>,
         \A k \in Jobs \ {j} : /\ status'[k] = status[k] /\ saved'[k] = saved[k]
                               /\ verdict'[k] = verdict[k] /\ delivery'[k] = delivery[k],
         TallyOf(w)', status'[j] = "none" => saved'[j] = {} /\ ~verdict'[j],
         j \in Reliable =>
           /\ status'[j] # "PENDING" \/ (status'[j] = status[j] /\ saved'[j] = saved[j])
           /\ verdict'[j] => status'[j] \in Final
           /\ wjob'[w] = j => InHands(w, j)'
           /\ mgr = "up" => HasOwner(j)'
           /\ status'[j] \in {"COMPLETED", "PARTIAL"} => saved'[j] = 1..Runs[j]
           /\ delivery'[j] # NoPayload => TellsFinal(j, delivery[j])'
  PROVE  RowInv'
<1>1. /\ j \in Jobs /\ submit[j] = "accepted" /\ j \notin pendingJobs
      /\ j \in Reliable => UnrunShape(j)
  BY Claimed DEF OwnPart
<1>2. OwnJobOnly(w)
  BY DEF OwnJobOnly
<1>3. j \in Reliable => UnrunShape(j)'
  BY <1>1 DEF UnrunShape
<1>4. j \in Reliable => OwnPart(w, j)'
  BY <1>3 DEF OwnPart
<1> QED
  BY <1>1, <1>2, <1>4, WorkerMovesRow

\* A row that the worker leaves alone because the store refuses the write.
LEMMA RefusedWrite ==
  ASSUME NEW j \in Reliable, StoreFails(j, ManagerCtxDone)
  PROVE  mgr # "up"
BY DEF StoreFails, ManagerCtxDone, Reliable

LEMMA MarkRunningRows ==
  ASSUME Known, NEW w \in Workers, MarkRunning(w)
  PROVE  RowInv'
<1> USE DEF mem, db, handlers
<1>0. PICK j : j = wjob[w]
  OBVIOUS
<1>1. /\ j \in Jobs /\ JobPart(j) /\ tally[w].done = 0 /\ wpc[w] = "claimed"
      /\ wpc[w] \notin Unclaimed
      /\ j \in Reliable => OwnPart(w, j)
  BY <1>0, Claimed DEF MarkRunning, Unclaimed, TallyOf
<1>2. UNCHANGED <<mgr, saved, verdict, delivery, jobQueue, submit, pendingJobs>>
  BY DEF MarkRunning
<1>3. CASE UpdateJobStatus(j, "RUNNING") /\ Goto(w, "collecting") /\ UNCHANGED <<wjob, tally, payload>>
  <2>1. /\ status'[j] = IF status[j] = "none" THEN "none" ELSE "RUNNING"
        /\ \A k \in Jobs \ {j} : status'[k] = status[k]
    BY <1>0, <1>1, <1>3 DEF UpdateJobStatus, Known, TypeInv, TypeOK
  <2>2. /\ OtherWorkers(w) /\ wpc'[w] = "collecting" /\ wjob'[w] = j /\ tally'[w] = tally[w]
    BY <1>0, <1>3, WorkerGoes DEF Known
  <2>3. Runs[j] \in Nat \ {0}
    BY <1>1
  <2>4. TallyOf(w)'
    BY <1>0, <1>1, <2>2, <2>3 DEF TallyOf
  <2>5. status'[j] = "none" => saved'[j] = {} /\ ~verdict'[j]
    BY <1>1, <1>2, <2>1 DEF JobPart, RowShape
  <2>6. ASSUME j \in Reliable
        PROVE  /\ status'[j] \in {"RUNNING", "none"} /\ ~verdict'[j]
               /\ InHands(w, j)' /\ HasOwner(j)'
               /\ delivery'[j] # NoPayload => TellsFinal(j, delivery[j])'
    <3>1. status[j] \in {"PENDING", "none"} /\ (status[j] = "PENDING" => saved[j] = {}) /\ ~verdict[j]
      BY <1>0, <1>1, <2>6 DEF OwnPart, InHands, UnrunShape, JobPart, RowShape, Final
    <3>2. status'[j] \in {"RUNNING", "none"} /\ saved'[j] = {} /\ ~verdict'[j]
      BY <1>1, <1>2, <2>1, <3>1 DEF JobPart, RowShape
    <3>3. InHands(w, j)'
      BY <1>1, <2>2, <3>2 DEF InHands
    <3>4. HasOwner(j)'
      BY <2>2, <3>2 DEF HasOwner, Executing
    <3>5. delivery[j] = NoPayload \/ status[j] = "none"
      BY <1>0, <1>1, <2>6, <3>1 DEF OwnPart, TellsFinal, TellsStatus, Final
    <3> QED
      BY <1>0, <1>1, <1>2, <2>1, <2>6, <3>2, <3>3, <3>4, <3>5 DEF OwnPart, TellsFinal, TellsStatus
  <2> QED
    BY <1>0, <1>1, <1>2, <2>1, <2>2, <2>4, <2>5, <2>6, ClaimedMovesRow
<1>4. CASE StoreFails(j, ManagerCtxDone) /\ UNCHANGED status /\ Release(w)
  <2>1. OtherWorkers(w) /\ wjob'[w] = NoJob /\ TallyOf(w)'
    BY <1>0, <1>4, WorkerReleases DEF Known
  <2>2. j \in Reliable => mgr # "up" /\ UnrunShape(j)
    BY <1>0, <1>1, <1>4, RefusedWrite DEF OwnPart
  <2> QED
    BY <1>0, <1>1, <1>2, <1>4, <2>1, <2>2, ClaimedMovesRow, JobsAssumption
       DEF JobPart, RowShape, UnrunShape, OwnPart, TellsFinal, TellsStatus
<1> QED
  BY <1>0, <1>3, <1>4 DEF MarkRunning

LEMMA RunOnceRows ==
  ASSUME Known, NEW w \in Workers, RunOnce(w)
  PROVE  RowInv'
<1> USE DEF mem, db, handlers
<1> DEFINE n == tally[w].done
<1>0. PICK j : j = wjob[w]
  OBVIOUS
<1>1. /\ j \in Jobs /\ JobPart(j) /\ TallyOf(w) /\ wpc[w] = "collecting"
      /\ wpc[w] \notin Unclaimed
      /\ j \in Reliable => OwnPart(w, j)
  BY <1>0, Claimed DEF RunOnce, Unclaimed
<1>2. /\ UNCHANGED <<mgr, status, verdict, delivery, jobQueue, submit, pendingJobs, wjob, payload>>
  BY DEF RunOnce
<1>3. n \in Nat /\ Runs[j] \in Nat \ {0} /\ n < Runs[j]
  BY <1>0, <1>1 DEF TallyOf, Known, TypeInv, TypeOK, Tallies
<1>4. /\ tally'[w].done = n + 1
      /\ \A v \in Workers \ {w} : tally'[v] = tally[v]
  BY DEF RunOnce, Count, Known, TypeInv, TypeOK
<1>5. PICK pc \in {"collecting", "deriving"} :
        Goto(w, pc) /\ (pc = "deriving" <=> n + 1 = Runs[j])
  BY <1>0 DEF RunOnce, LastRun
<1>6. OtherWorkers(w) /\ wpc'[w] = pc /\ wjob'[w] = j
  BY <1>0, <1>2, <1>4, <1>5 DEF Goto, OtherWorkers, Known, TypeInv, TypeOK
<1>7. TallyOf(w)'
  BY <1>0, <1>3, <1>4, <1>5, <1>6 DEF TallyOf
<1>8. /\ saved'[j] = saved[j] \cup {n + 1} \/ saved'[j] = saved[j]
      /\ \A k \in Jobs \ {j} : saved'[k] = saved[k]
      /\ status[j] = "none" => saved'[j] = saved[j]
      /\ j \in Reliable /\ mgr = "up" /\ status[j] # "none" => saved'[j] = saved[j] \cup {n + 1}
  BY <1>0, <1>1, RefusedWrite DEF RunOnce, SaveResult, Known, TypeInv, TypeOK
<1>9. status'[j] = "none" => saved'[j] = {} /\ ~verdict'[j]
  BY <1>1, <1>2, <1>8 DEF JobPart, RowShape
<1>10. 1..n + 1 = (1..n) \cup {n + 1}
  BY <1>3
<1>11. ASSUME j \in Reliable
       PROVE  /\ status[j] \in {"RUNNING", "none"} /\ ~verdict[j]
              /\ InHands(w, j)' /\ HasOwner(j)'
  <2>1. /\ status[j] \in {"RUNNING", "none"} /\ ~verdict[j]
        /\ status[j] = "RUNNING" => /\ saved[j] \subseteq 1..n
                                    /\ mgr = "up" => saved[j] = 1..n
    BY <1>0, <1>1, <1>11 DEF OwnPart, UnrunShape, InHands, Executing, JobPart, RowShape, Final
  <2>2. InHands(w, j)'
    BY <1>2, <1>4, <1>5, <1>6, <1>8, <1>10, <1>11, <2>1 DEF InHands
  <2>3. HasOwner(j)'
    BY <1>2, <1>5, <1>6, <2>1 DEF HasOwner, Executing
  <2> QED
    BY <2>1, <2>2, <2>3
<1>12. j \in Reliable /\ delivery'[j] # NoPayload => TellsFinal(j, delivery[j])'
  BY <1>0, <1>1, <1>2 DEF OwnPart, TellsFinal, TellsStatus
<1>13. \A k \in Jobs \ {j} : /\ status'[k] = status[k] /\ saved'[k] = saved[k]
                              /\ verdict'[k] = verdict[k] /\ delivery'[k] = delivery[k]
  BY <1>2, <1>8
<1>14. j \in Reliable =>
         /\ status'[j] \in {"RUNNING", "none"} /\ ~verdict'[j]
         /\ InHands(w, j)' /\ HasOwner(j)'
  BY <1>2, <1>11
<1>15. ASSUME j \in Reliable
       PROVE  /\ status'[j] # "PENDING" \/ (status'[j] = status[j] /\ saved'[j] = saved[j])
              /\ verdict'[j] => status'[j] \in Final
              /\ wjob'[w] = j => InHands(w, j)'
              /\ mgr = "up" => HasOwner(j)'
              /\ status'[j] \in {"COMPLETED", "PARTIAL"} => saved'[j] = 1..Runs[j]
              /\ delivery'[j] # NoPayload => TellsFinal(j, delivery[j])'
  <2>1. status'[j] \in {"RUNNING", "none"} /\ ~verdict'[j]
    BY <1>14, <1>15
  <2>2. InHands(w, j)' /\ HasOwner(j)'
    BY <1>14, <1>15
  <2>3. delivery'[j] # NoPayload => TellsFinal(j, delivery[j])'
    BY <1>12, <1>15
  <2> QED
    BY <2>1, <2>2, <2>3
<1>16. UNCHANGED <<mgr, jobQueue, submit, pendingJobs>>
  BY <1>2
<1> QED
  <2>1. /\ Known /\ wpc[w] \notin Unclaimed /\ j = wjob[w] /\ OtherWorkers(w)
        /\ wjob'[w] = j
    BY <1>0, <1>1, <1>6
  <2>2. \A k \in Jobs \ {j} : /\ status'[k] = status[k] /\ saved'[k] = saved[k]
                               /\ verdict'[k] = verdict[k] /\ delivery'[k] = delivery[k]
    BY <1>13
  <2> HIDE DEF n
  <2> QED
    BY <2>1, <2>2, <1>7, <1>9, <1>15, <1>16, ClaimedMovesRow

LEMMA PanicRows ==
  ASSUME Known, NEW w \in Workers, Panic(w) \/ FailPanicked(w)
  PROVE  RowInv'
<1> USE DEF mem, db, handlers
<1>0. PICK j : j = wjob[w]
  OBVIOUS
<1>1. /\ j \in Jobs /\ JobPart(j) /\ wpc[w] \in {"collecting", "panicked"}
      /\ wpc[w] \notin Unclaimed
      /\ j \in Reliable => OwnPart(w, j)
  BY <1>0, Claimed DEF Panic, FailPanicked, Unclaimed
<1>2. /\ UNCHANGED <<mgr, saved, verdict, delivery, jobQueue, submit, pendingJobs>>
  BY DEF Panic, FailPanicked
<1>3. j \in Reliable =>
        /\ status[j] \in {"RUNNING", "none"} /\ ~verdict[j]
        /\ delivery[j] # NoPayload => TellsFinal(j, delivery[j])
  BY <1>0, <1>1 DEF OwnPart, UnrunShape, InHands, Executing, JobPart, RowShape, Final
<1>4. CASE Panic(w)
  <2>1. OtherWorkers(w) /\ wpc'[w] = "panicked" /\ wjob'[w] = j /\ tally'[w] = tally[w]
    BY <1>0, <1>4, WorkerGoes DEF Panic, Known
  <2>2. UNCHANGED status /\ wpc[w] = "collecting"
    BY <1>4 DEF Panic
  <2>3. TallyOf(w)'
    BY <1>0, <2>1 DEF TallyOf
  <2>4. j \in Reliable => InHands(w, j)' /\ HasOwner(j)'
    BY <1>0, <1>1, <1>2, <1>3, <2>1, <2>2 DEF OwnPart, InHands, HasOwner, Executing
  <2>5. j \in Reliable /\ delivery'[j] # NoPayload => TellsFinal(j, delivery[j])'
    BY <1>0, <1>1, <1>2, <2>2 DEF OwnPart, TellsFinal, TellsStatus
  <2> QED
    BY <1>0, <1>1, <1>2, <1>3, <2>1, <2>2, <2>3, <2>4, <2>5, ClaimedMovesRow DEF JobPart, RowShape
<1>5. CASE FailPanicked(w)
  <2>1. OtherWorkers(w) /\ wjob'[w] = NoJob /\ TallyOf(w)'
    BY <1>0, <1>5, WorkerReleases DEF FailPanicked, Known
  <2>2. /\ \/ status'[j] = IF status[j] = "none" THEN "none" ELSE "FAILED"
           \/ status'[j] = status[j] /\ (j \in Reliable => mgr # "up")
        /\ \A k \in Jobs \ {j} : status'[k] = status[k]
    BY <1>0, <1>1, <1>5, RefusedWrite DEF FailPanicked, UpdateJobStatus, Known, TypeInv, TypeOK
  <2>3. j \in Reliable /\ mgr = "up" => HasOwner(j)'
    BY <1>3, <2>2 DEF HasOwner
  <2>4. j \in Reliable /\ delivery'[j] # NoPayload => TellsFinal(j, delivery[j])'
    BY <1>2, <1>3, <2>2 DEF TellsFinal, TellsStatus, Final
  <2> QED
    BY <1>0, <1>1, <1>2, <1>3, <2>1, <2>2, <2>3, <2>4, ClaimedMovesRow, JobsAssumption
       DEF JobPart, RowShape
<1> QED
  BY <1>4, <1>5

LEMMA AfterJudgingGoes ==
  ASSUME TypeInv, NEW w \in Workers, NEW j, AfterJudging(w, j)
  PROVE  /\ OtherWorkers(w) /\ TallyOf(w)'
         /\ wjob'[w] = NoJob \/ (wjob'[w] = wjob[w] /\ wpc'[w] = "reading")
<1>1. CASE Goto(w, "reading") /\ UNCHANGED <<wjob, tally, payload>>
  BY <1>1, WorkerGoes DEF TallyOf
<1>2. CASE Release(w)
  BY <1>2, WorkerReleases
<1> QED
  BY <1>1, <1>2 DEF AfterJudging

LEMMA AfterFinishingGoes ==
  ASSUME TypeInv, NEW w \in Workers, NEW j, AfterFinishing(w, j)
  PROVE  /\ OtherWorkers(w) /\ TallyOf(w)'
         /\ \/ wjob'[w] = NoJob
            \/ wjob'[w] = wjob[w] /\ wpc'[w] = "reading" /\ j \notin Budgeted
            \/ wjob'[w] = wjob[w] /\ wpc'[w] = "judging" /\ j \in Budgeted
<1>1. CASE j \in Budgeted /\ Goto(w, "judging") /\ UNCHANGED <<wjob, tally, payload>>
  BY <1>1, WorkerGoes DEF TallyOf
<1>2. CASE j \notin Budgeted /\ AfterJudging(w, j)
  BY <1>2, AfterJudgingGoes
<1> QED
  BY <1>1, <1>2 DEF AfterFinishing

LEMMA WriteFinalStatusRows ==
  ASSUME Known, NEW w \in Workers, WriteFinalStatus(w)
  PROVE  RowInv'
<1> USE DEF mem, db, handlers
<1>0. PICK j : j = wjob[w]
  OBVIOUS
<1>1. /\ j \in Jobs /\ JobPart(j) /\ wpc[w] = "deriving" /\ wpc[w] \notin Unclaimed
      /\ tally[w].done = Runs[j] /\ mgr \in {"up", "stopping"}
      /\ j \in Reliable => OwnPart(w, j)
  BY <1>0, Claimed DEF WriteFinalStatus, Unclaimed, TallyOf
<1>2. UNCHANGED <<mgr, saved, verdict, delivery, jobQueue, submit, pendingJobs>>
  BY DEF WriteFinalStatus
<1>3. /\ OtherWorkers(w) /\ TallyOf(w)'
      /\ \/ wjob'[w] = NoJob
         \/ wjob'[w] = j /\ wpc'[w] = "reading" /\ j \notin Budgeted
         \/ wjob'[w] = j /\ wpc'[w] = "judging" /\ j \in Budgeted
  BY <1>0, AfterFinishingGoes DEF WriteFinalStatus, Known
<1>4. PICK s \in Final :
        \/ ~ManagerCtxDone /\ status' = [status EXCEPT ![j] = IF @ = "none" THEN @ ELSE s]
        \/ status' = status /\ StoreFails(j, ManagerCtxDone)
  BY <1>0 DEF WriteFinalStatus, UpdateJobStatus, deriveStatus, Final
<1>5. /\ \A k \in Jobs \ {j} : status'[k] = status[k]
      /\ \/ status[j] = "none" /\ status'[j] = "none"
         \/ status[j] # "none" /\ status'[j] = s /\ mgr = "up"
         \/ status'[j] = status[j] /\ (j \in Reliable => mgr # "up")
  BY <1>1, <1>4, RefusedWrite DEF ManagerCtxDone, Known, TypeInv, TypeOK
<1>6. status'[j] = "none" => saved'[j] = {} /\ ~verdict'[j]
  BY <1>1, <1>2, <1>5 DEF JobPart, RowShape, Final
<1>7. ASSUME j \in Reliable
      PROVE  /\ status'[j] # "PENDING" /\ ~verdict'[j]
             /\ wjob'[w] = j => InHands(w, j)'
             /\ mgr = "up" => HasOwner(j)'
             /\ status'[j] \in {"COMPLETED", "PARTIAL"} => saved'[j] = 1..Runs[j]
             /\ delivery'[j] # NoPayload => TellsFinal(j, delivery[j])'
  <2>1. /\ status[j] \in {"RUNNING", "none"} /\ verdict[j] = FALSE
        /\ status[j] = "RUNNING" /\ mgr = "up" => saved[j] = 1..Runs[j]
    BY <1>0, <1>1, <1>7 DEF OwnPart, UnrunShape, InHands, Executing, Final, Known, TypeInv, TypeOK
  <2>2. /\ status'[j] \in {"RUNNING", "none"} \cup Final /\ verdict'[j] = FALSE
        /\ mgr = "up" /\ status'[j] # "none" => status'[j] \in Final /\ saved'[j] = 1..Runs[j]
    <3>1. saved'[j] = saved[j] /\ verdict'[j] = verdict[j]
      BY <1>2
    <3>2. CASE status[j] = "none" /\ status'[j] = "none"
      BY <2>1, <3>1, <3>2
    <3>3. CASE status[j] # "none" /\ status'[j] = s /\ mgr = "up"
      <4>1. status[j] = "RUNNING"
        BY <2>1, <3>3
      <4> QED
        BY <2>1, <3>1, <3>3, <4>1
    <3>4. CASE status'[j] = status[j] /\ mgr # "up"
      BY <2>1, <3>1, <3>4
    <3> QED
      BY <1>5, <1>7, <3>2, <3>3, <3>4
  <2>3. ASSUME wjob'[w] = j PROVE InHands(w, j)'
    <3>1. \/ wpc'[w] = "reading" /\ j \notin Budgeted
          \/ wpc'[w] = "judging" /\ j \in Budgeted
      BY <1>1, <1>3, <2>3, JobsAssumption
    <3>2. ASSUME wpc'[w] = "reading" PROVE verdict'[j] = (j \in Budgeted)
      <4>1. j \notin Budgeted
        BY <3>1, <3>2
      <4>2. verdict'[j] \in BOOLEAN /\ ~verdict'[j]
        BY <2>2
      <4> QED
        BY <4>1, <4>2
    <3>3. mgr' = "up" /\ status'[j] # "none" => status'[j] \in Final /\ saved'[j] = 1..Runs[j]
      BY <1>2, <2>2
    <3> QED
      BY <2>2, <3>1, <3>2, <3>3 DEF InHands, Executing
  <2>4. mgr = "up" => HasOwner(j)'
    BY <2>2 DEF HasOwner, Final
  <2>5. status'[j] \in {"COMPLETED", "PARTIAL"} => saved'[j] = 1..Runs[j]
    <3>1. status'[j] \in {"COMPLETED", "PARTIAL"} => mgr = "up"
      BY <1>5, <2>1
    <3> QED
      BY <2>2, <3>1
  <2>6. delivery[j] # NoPayload => status[j] = "none" /\ TellsFinal(j, delivery[j])
    BY <1>1, <1>7, <2>1 DEF OwnPart, TellsFinal, TellsStatus, Final
  <2>7. delivery'[j] # NoPayload => TellsFinal(j, delivery[j])'
    BY <1>2, <1>5, <2>6 DEF TellsFinal, TellsStatus
  <2> QED
    BY <2>2, <2>3, <2>4, <2>5, <2>7 DEF Final
<1> QED
  BY <1>0, <1>1, <1>2, <1>3, <1>5, <1>6, <1>7, ClaimedMovesRow

LEMMA JudgeBudgetRows ==
  ASSUME Known, NEW w \in Workers, JudgeBudget(w)
  PROVE  RowInv'
<1> USE DEF mem, db, handlers
<1>0. PICK j : j = wjob[w]
  OBVIOUS
<1>1. /\ j \in Jobs /\ JobPart(j) /\ wpc[w] = "judging" /\ wpc[w] \notin Unclaimed
      /\ mgr \in {"up", "stopping"}
      /\ j \in Reliable => OwnPart(w, j)
  BY <1>0, Claimed DEF JudgeBudget, Unclaimed
<1>2. UNCHANGED <<mgr, status, saved, delivery, jobQueue, submit, pendingJobs>>
  BY DEF JudgeBudget
<1>3. /\ OtherWorkers(w) /\ TallyOf(w)'
      /\ wjob'[w] = NoJob \/ (wjob'[w] = j /\ wpc'[w] = "reading")
  BY <1>0, AfterJudgingGoes DEF JudgeBudget, Known
<1>4. /\ \A k \in Jobs \ {j} : verdict'[k] = verdict[k]
      /\ verdict'[j] = verdict[j] \/ verdict'[j] = (status[j] # "none")
      /\ j \in Reliable => verdict'[j] = (IF mgr = "up" THEN status[j] # "none" ELSE verdict[j])
  BY <1>0, <1>1, RefusedWrite
     DEF JudgeBudget, SetJobBudgetResult, ManagerCtxDone, Known, TypeInv, TypeOK
<1>5. status'[j] = "none" => saved'[j] = {} /\ ~verdict'[j]
  BY <1>1, <1>2, <1>4 DEF JobPart, RowShape
<1>6. ASSUME j \in Reliable
      PROVE  /\ status'[j] # "PENDING" \/ (status'[j] = status[j] /\ saved'[j] = saved[j])
             /\ verdict'[j] => status'[j] \in Final
             /\ wjob'[w] = j => InHands(w, j)'
             /\ mgr = "up" => HasOwner(j)'
             /\ status'[j] \in {"COMPLETED", "PARTIAL"} => saved'[j] = 1..Runs[j]
             /\ delivery'[j] # NoPayload => TellsFinal(j, delivery[j])'
  <2>1. /\ verdict[j] = FALSE
        /\ mgr = "up" /\ status[j] # "none" => status[j] \in Final /\ saved[j] = 1..Runs[j]
    BY <1>0, <1>1, <1>6 DEF OwnPart, InHands, Known, TypeInv, TypeOK
  <2>2. verdict'[j] => status'[j] \in Final
    BY <1>2, <1>4, <1>6, <2>1
  <2>3. wjob'[w] = j => InHands(w, j)'
    <3> SUFFICES ASSUME wjob'[w] = j PROVE InHands(w, j)'
      OBVIOUS
    <3>1. wpc'[w] = "reading"
      BY <1>1, <1>3, JobsAssumption
    <3>2. j \in Budgeted
      BY <1>0, <1>1, <1>6 DEF OwnPart, InHands
    <3> QED
      BY <1>2, <1>4, <1>6, <2>1, <3>1, <3>2 DEF InHands, Executing
  <2>4. mgr = "up" => HasOwner(j)'
    BY <1>2, <2>1 DEF HasOwner, Final
  <2>5. /\ status'[j] \in {"COMPLETED", "PARTIAL"} => saved'[j] = 1..Runs[j]
        /\ delivery'[j] # NoPayload => TellsFinal(j, delivery[j])'
    BY <1>0, <1>1, <1>2, <1>6 DEF OwnPart, TellsFinal, TellsStatus
  <2> QED
    BY <1>2, <2>2, <2>3, <2>4, <2>5
<1> QED
  BY <1>0, <1>1, <1>2, <1>3, <1>4, <1>5, <1>6, ClaimedMovesRow

\* A step of sendWebhook that writes nothing.
LEMMA HookReads ==
  ASSUME Known, NEW w \in Workers, wpc[w] \notin Unclaimed, NEW j, j = wjob[w],
         UNCHANGED <<mgr, status, saved, verdict, delivery, jobQueue, submit, pendingJobs>>,
         OtherWorkers(w), wjob'[w] = j \/ wjob'[w] = NoJob, TallyOf(w)',
         j \in Reliable =>
           /\ wjob'[w] = j => InHands(w, j)'
           /\ mgr = "up" /\ status[j] # "none" => status[j] \in Final
  PROVE  RowInv'
<1>1. /\ j \in Jobs /\ JobPart(j)
      /\ j \in Reliable => OwnPart(w, j)
  BY Claimed
<1>2. /\ status'[j] = "none" => saved'[j] = {} /\ ~verdict'[j]
      /\ j \in Reliable =>
           /\ verdict'[j] => status'[j] \in Final
           /\ status'[j] \in {"COMPLETED", "PARTIAL"} => saved'[j] = 1..Runs[j]
           /\ delivery'[j] # NoPayload => TellsFinal(j, delivery[j])'
  BY <1>1 DEF JobPart, RowShape, OwnPart, UnrunShape, TellsFinal, TellsStatus
<1>3. j \in Reliable /\ mgr = "up" => HasOwner(j)'
  BY DEF HasOwner, Final
<1> QED
  BY <1>1, <1>2, <1>3, ClaimedMovesRow

LEMMA ReadJobRows ==
  ASSUME Known, NEW w \in Workers, ReadJob(w)
  PROVE  RowInv'
<1> USE DEF mem, db, handlers
<1>0. PICK j : j = wjob[w]
  OBVIOUS
<1>1. /\ j \in Jobs /\ JobPart(j) /\ wpc[w] = "reading" /\ wpc[w] \notin Unclaimed
      /\ mgr \in {"up", "stopping"}
      /\ j \in Reliable => OwnPart(w, j)
  BY <1>0, Claimed DEF ReadJob, Unclaimed
<1>2. UNCHANGED <<mgr, status, saved, verdict, delivery, jobQueue, submit, pendingJobs>>
  BY DEF ReadJob
<1>3. ASSUME j \in Reliable, mgr = "up", status[j] # "none"
      PROVE  status[j] \in Final /\ saved[j] = 1..Runs[j] /\ verdict[j] = (j \in Budgeted)
  BY <1>0, <1>1, <1>3 DEF OwnPart, InHands
<1>4. CASE Release(w)
  <2>1. OtherWorkers(w) /\ wjob'[w] = NoJob /\ TallyOf(w)'
    BY <1>4, WorkerReleases DEF Known
  <2> QED
    BY <1>0, <1>1, <1>2, <1>3, <2>1, HookReads, JobsAssumption
<1>5. CASE ~Release(w)
  <2>1. /\ mgr = "up" /\ status[j] # "none"
        /\ Goto(w, "gathering") /\ UNCHANGED <<wjob, tally>>
        /\ payload' = [payload EXCEPT ![w] =
             [status |-> status[j], judged |-> verdict[j], results |-> {}]]
    BY <1>0, <1>1, <1>5 DEF ReadJob, ManagerCtxDone
  <2>2. /\ OtherWorkers(w) /\ wjob'[w] = j /\ wpc'[w] = "gathering"
        /\ payload'[w] = [status |-> status[j], judged |-> verdict[j], results |-> {}]
    BY <1>0, <2>1 DEF Goto, OtherWorkers, Known, TypeInv, TypeOK
  <2>3. ASSUME j \in Reliable PROVE InHands(w, j)'
    <3>1. TellsStatus(j, payload[w])' /\ saved'[j] = 1..Runs[j]
      BY <1>2, <1>3, <2>1, <2>2, <2>3 DEF TellsStatus
    <3> QED
      BY <2>2, <3>1 DEF InHands, Executing
  <2>4. TallyOf(w)'
    BY <2>2 DEF TallyOf
  <2> QED
    BY <1>0, <1>1, <1>2, <1>3, <2>2, <2>3, <2>4, HookReads
<1> QED
  BY <1>4, <1>5

\* The results are those of every run, or none because the row has gone since.
LEMMA ReadResultsRows ==
  ASSUME Known, NEW w \in Workers, ReadResults(w)
  PROVE  RowInv'
<1> USE DEF mem, db, handlers
<1>0. PICK j : j = wjob[w]
  OBVIOUS
<1>1. /\ j \in Jobs /\ JobPart(j) /\ wpc[w] = "gathering" /\ wpc[w] \notin Unclaimed
      /\ j \in Reliable => OwnPart(w, j)
  BY <1>0, Claimed DEF ReadResults, Unclaimed
<1>2. /\ UNCHANGED <<mgr, status, saved, verdict, delivery, jobQueue, submit, pendingJobs>>
      /\ Goto(w, "enqueueing") /\ UNCHANGED <<wjob, tally>>
  BY DEF ReadResults
<1>3. PICK k \in 0..Runs[j] :
        /\ (k = Runs[j] /\ ~ManagerCtxDone) \/ StoreFails(j, ManagerCtxDone)
        /\ payload' = [payload EXCEPT ![w] = [@ EXCEPT !.results = saved[j] \cap 1..k]]
  BY <1>0 DEF ReadResults
<1>4. payload[w] \in Payloads
  BY <1>1 DEF Known, TypeInv, PayloadShape
<1>5. /\ OtherWorkers(w) /\ wjob'[w] = j /\ wpc'[w] = "enqueueing"
      /\ payload'[w].status = payload[w].status /\ payload'[w].judged = payload[w].judged
      /\ payload'[w].results = saved[j] \cap 1..k
  BY <1>0, <1>2, <1>3, <1>4 DEF Goto, OtherWorkers, Known, TypeInv, TypeOK, Payloads
<1>6. ASSUME j \in Reliable
      PROVE  TellsStatus(j, payload[w]) /\ (status[j] # "none" => saved[j] = 1..Runs[j])
  BY <1>0, <1>1, <1>6 DEF OwnPart, InHands
<1>7. ASSUME j \in Reliable PROVE InHands(w, j)'
  <2>1. ASSUME mgr = "up" PROVE TellsFinal(j, payload[w])'
    <3>1. k = Runs[j]
      BY <1>3, <1>7, <2>1, RefusedWrite
    <3>2. \/ saved[j] = 1..Runs[j]
          \/ saved[j] = {} /\ status[j] = "none"
      BY <1>1, <1>6, <1>7 DEF JobPart, RowShape
    <3>3. payload'[w].results = 1..Runs[j] \/ (payload'[w].results = {} /\ status'[j] = "none")
      BY <1>2, <1>5, <3>1, <3>2
    <3>4. TellsStatus(j, payload[w])'
      BY <1>2, <1>5, <1>6, <1>7 DEF TellsStatus
    <3> QED
      BY <3>3, <3>4 DEF TellsFinal
  <2> QED
    BY <1>2, <1>5, <2>1 DEF InHands, Executing
<1>8. TallyOf(w)'
  BY <1>5 DEF TallyOf
<1>9. j \in Reliable /\ status[j] # "none" => status[j] \in Final
  BY <1>6 DEF TellsStatus
<1> QED
  BY <1>0, <1>1, <1>2, <1>5, <1>7, <1>8, <1>9, HookReads

LEMMA EnqueueWebhookRows ==
  ASSUME Known, NEW w \in Workers, EnqueueWebhook(w)
  PROVE  RowInv'
<1> USE DEF mem, db, handlers
<1>0. PICK j : j = wjob[w]
  OBVIOUS
<1>1. /\ j \in Jobs /\ JobPart(j) /\ wpc[w] = "enqueueing" /\ wpc[w] \notin Unclaimed
      /\ mgr \in {"up", "stopping"}
      /\ j \in Reliable => OwnPart(w, j)
  BY <1>0, Claimed DEF EnqueueWebhook, Unclaimed
<1>2. UNCHANGED <<mgr, status, saved, verdict, jobQueue, submit, pendingJobs>>
  BY DEF EnqueueWebhook
<1>3. /\ delivery'[j] = delivery[j] \/ (delivery'[j] = payload[w] /\ ~ManagerCtxDone)
      /\ \A k \in Jobs \ {j} : delivery'[k] = delivery[k]
  BY <1>0, <1>1 DEF EnqueueWebhook, Known, TypeInv, TypeOK
<1>4. OtherWorkers(w) /\ wjob'[w] = NoJob /\ TallyOf(w)'
  BY WorkerReleases DEF EnqueueWebhook, Known
<1>5. /\ status'[j] = "none" => saved'[j] = {} /\ ~verdict'[j]
      /\ j \in Reliable =>
           /\ verdict'[j] => status'[j] \in Final
           /\ status'[j] \in {"COMPLETED", "PARTIAL"} => saved'[j] = 1..Runs[j]
  BY <1>0, <1>1, <1>2 DEF JobPart, RowShape, OwnPart, UnrunShape
<1>6. j \in Reliable /\ mgr = "up" => TellsFinal(j, payload[w])
  BY <1>0, <1>1 DEF OwnPart, InHands
<1>7. j \in Reliable /\ delivery'[j] # NoPayload => TellsFinal(j, delivery[j])'
  BY <1>1, <1>2, <1>3, <1>6 DEF OwnPart, ManagerCtxDone, TellsFinal, TellsStatus
<1>8. j \in Reliable /\ mgr = "up" => HasOwner(j)'
  BY <1>2, <1>6 DEF TellsFinal, TellsStatus, HasOwner, Final
<1> QED
  BY <1>0, <1>1, <1>2, <1>3, <1>4, <1>5, <1>7, <1>8, ClaimedMovesRow, JobsAssumption

LEMMA WorkerRows ==
  ASSUME Known, NEW w \in Workers, WorkerStep(w)
  PROVE  RowInv'
<1>1. CASE WorkerExit(w)
  <2> USE DEF mem, db, handlers
  <2>1. /\ wpc'[w] = "exited" /\ wpc[w] = "idle"
        /\ \A v \in Workers \ {w} : wpc'[v] = wpc[v]
        /\ UNCHANGED <<mgr, status, saved, verdict, delivery, pendingJobs, jobQueue, submit,
                       wjob, tally, payload>>
    BY <1>1 DEF WorkerExit, Goto, Known, TypeInv, TypeOK
  <2>2. wjob[w] \notin Jobs
    BY <2>1, JobsAssumption DEF Known, TypeInv, HolderShape
  <2>3. \A k \in Jobs : SameRow(k) /\ SameHolder(k)
    BY <2>1, <2>2 DEF SameRow, SameHolder, Queued
  <2>4. \A k \in Jobs : JobPart(k)'
    BY <2>1, <2>3, RowInvByJob, SameJob DEF Known
  <2>5. TallyShape'
    BY <2>1 DEF Known, RowInv, TallyShape
  <2> QED
    BY <2>4, <2>5, RowInvByJob
<1> QED
  BY <1>1, PopRows, ClaimRows, MarkRunningRows, RunOnceRows, PanicRows, WriteFinalStatusRows,
     JudgeBudgetRows, ReadJobRows, ReadResultsRows, EnqueueWebhookRows DEF WorkerStep

-----------------------------------------------------------------------------
(* The process                                                             *)

LEMMA ProcessRows ==
  ASSUME Known, Stop \/ ProcessExits \/ Crash \/ Restart
  PROVE  RowInv'
<1> USE DEF mem, db, handlers, pool
<1>0. \A k \in Jobs : JobPart(k)
  BY RowInvByJob DEF Known
<1>1. CASE Stop
  <2>1. \A k \in Jobs : SameRow(k) /\ SameHolder(k)
    BY <1>1 DEF Stop, SameRow, SameHolder, Queued
  <2>2. \A k \in Jobs : JobPart(k)'
    BY <1>0, <1>1, <2>1, SameJob DEF Stop
  <2>3. TallyShape'
    BY <1>1, SamePoolTally DEF Stop, SamePool, Known, RowInv
  <2> QED
    BY <2>2, <2>3, RowInvByJob
<1>2. CASE ProcessEnds
  <2>1. /\ mgr' = "down" /\ pendingJobs' = {}
        /\ UNCHANGED <<status, saved, verdict, delivery>>
        /\ \A w \in Workers : wpc'[w] = "exited" /\ wjob'[w] = NoJob /\ tally'[w].done = 0
        /\ \A k \in Jobs : /\ submit'[k] \in Answered \cup {"new", "lost"}
                           /\ submit'[k] = submit[k] \/ submit'[k] = "lost"
    BY <1>2 DEF ProcessEnds, NoTally, Answered
  <2>2. ASSUME NEW k \in Jobs PROVE JobPart(k)'
    BY <1>0, <2>1, <2>2 DEF JobPart, RowShape, UnrunShape, TellsFinal, TellsStatus, Answered
  <2>3. TallyShape'
    BY <2>1 DEF TallyShape
  <2> QED
    BY <2>2, <2>3, RowInvByJob
<1>3. CASE Restart
  <2>1. /\ mgr = "down" /\ \A w \in Workers : wpc[w] = "exited" /\ wjob[w] = NoJob
        /\ \A k \in Jobs : submit[k] \in Answered \cup {"new", "lost"}
        /\ UNCHANGED <<saved, verdict, delivery, pendingJobs, submit, wjob, tally>>
    BY <1>3 DEF Restart, Known, TypeInv, HolderShape, DownShape
  <2>2. pendingJobs = {}
    <3>1. jobQueue = <<>> /\ Len(jobQueue) = 0
      BY <2>1 DEF Known, TypeInv, DownShape
    <3>2. ASSUME NEW k \in pendingJobs PROVE FALSE
      <4>1. ~Queued(k) /\ ~Popped(k)
        BY <2>1, <3>1 DEF Queued, Popped
      <4>2. k \in Jobs /\ submit[k] \in {"registered", "checked", "rejecting"}
        BY <4>1 DEF Known, TypeInv, TypeOK, Holding, PendingIsTracked
      <4> QED
        BY <2>1, <4>2 DEF Answered
    <3> QED
      BY <3>2
  <2>3. \A w \in Workers : wpc'[w] = "idle" /\ wjob'[w] = NoJob /\ tally'[w].done = 0
    BY <1>3, <2>1 DEF Restart, Known, RowInv, TallyShape
  <2>4. \A k \in Jobs : /\ status'[k] = status[k] \/ (status[k] \in Open /\ status'[k] = "FAILED")
                        /\ k \in Reliable => status'[k] \notin Open
    BY <1>3 DEF Restart, Interrupted, Reliable, Open, Known, TypeInv, TypeOK
  <2>5. ASSUME NEW k \in Jobs PROVE JobPart(k)'
    <3>1. RowShape(k)'
      BY <1>0, <2>1, <2>4 DEF JobPart, RowShape, Answered, Open
    <3>2. ASSUME k \in Reliable
          PROVE  UnrunShape(k)' /\ HasOwner(k)'
                 /\ (status'[k] \in {"COMPLETED", "PARTIAL"} => saved'[k] = 1..Runs[k])
                 /\ (delivery'[k] # NoPayload => TellsFinal(k, delivery[k])')
      <4>1. UnrunShape(k)' /\ HasOwner(k)'
        BY <1>0, <2>1, <2>2, <2>4, <3>2 DEF JobPart, UnrunShape, HasOwner, Answered, Open, Final
      <4>2. status'[k] \in {"COMPLETED", "PARTIAL"} => saved'[k] = 1..Runs[k]
        BY <1>0, <2>1, <2>4, <3>2 DEF JobPart
      <4>3. status'[k] = status[k] \/ status[k] \in Open
        BY <2>4
      <4>4. delivery'[k] # NoPayload => TellsFinal(k, delivery[k])'
        BY <1>0, <2>1, <3>2, <4>3 DEF JobPart, TellsFinal, TellsStatus, Open, Final
      <4> QED
        BY <4>1, <4>2, <4>4
    <3> QED
      BY <2>3, <3>1, <3>2, JobsAssumption DEF JobPart
  <2>6. TallyShape'
    BY <2>3 DEF TallyShape
  <2> QED
    BY <2>5, <2>6, RowInvByJob
<1> QED
  BY <1>1, <1>2, <1>3 DEF ProcessExits, Crash

LEMMA RowInvInit == Init => RowInv
<1> SUFFICES ASSUME Init PROVE RowInv
  OBVIOUS
<1>1. \A k \in Jobs : JobPart(k)
  BY JobsAssumption DEF Init, JobPart, RowShape, UnrunShape, HasOwner, Reliable
<1>2. TallyShape
  BY DEF Init, TallyShape, NoTally
<1> QED
  BY <1>1, <1>2, RowInvByJob

LEMMA RowInvStep == Known /\ [Next]_vars => RowInv'
<1> SUFFICES ASSUME Known, [Next]_vars PROVE RowInv'
  OBVIOUS
<1>1. CASE UNCHANGED vars
  <2> USE DEF vars, mem, db, handlers, pool
  <2>1. \A k \in Jobs : SameRow(k) /\ SameHolder(k)
    BY <1>1 DEF SameRow, SameHolder, Queued
  <2>2. \A k \in Jobs : JobPart(k)'
    BY <1>1, <2>1, SameJob, RowInvByJob DEF Known
  <2>3. TallyShape'
    BY <1>1, SamePoolTally DEF SamePool, Known, RowInv
  <2> QED
    BY <2>2, <2>3, RowInvByJob
<1> QED
  BY <1>1, SubmitRows, DeleteRows, WorkerRows, ProcessRows DEF Next

-----------------------------------------------------------------------------
(* The theorems                                                            *)

LEMMA KnownAlways == Spec => []Known
<1>1. Known <=> TypeInv /\ Holding /\ RowInv
  BY DEF Known
<1> QED
  BY <1>1, TypeCorrect, HoldingAlways, RowInvInit, RowInvStep, PTL DEF Spec

\* Everything the proofs know of a reachable state, as one invariant.
THEOREM Inductive == Spec => []IndInv
<1>1. Known => IndInv
  BY DEF Known, TypeInv, Holding, IndInv
<1> QED
  BY <1>1, KnownAlways, PTL

\* While the daemon is up, every open row whose store calls do not fail belongs
\* to the submission, the queue or the worker that will finish it.
THEOREM OpenRowHasOwnerHolds == Spec => []OpenRowHasOwner
<1>1. Known => OpenRowHasOwner
  BY DEF Known, RowInv
<1> QED
  BY <1>1, KnownAlways, PTL

\* A COMPLETED or PARTIAL row has a stored result of every run it asked for,
\* whatever was stopped, crashed or deleted meanwhile.
THEOREM FinishedHasAllRunsHolds == Spec => []FinishedHasAllRuns
<1>1. Known => FinishedHasAllRuns
  BY DEF Known, RowInv
<1> QED
  BY <1>1, KnownAlways, PTL

\* A webhook receiver is told the final status, the verdict and every result,
\* or the final status and no result if the job was deleted meanwhile.
THEOREM PayloadIsFinalHolds == Spec => []PayloadIsFinal
<1>1. Known => PayloadIsFinal
  BY DEF Known, RowInv
<1> QED
  BY <1>1, KnownAlways, PTL

\* A refused submission leaves no queue entry, no cancellable id and, unless its
\* cleanup fails, no row; otherwise a row that never ran and never will.
THEOREM RefusedLeavesNothingHolds == Spec => []RefusedLeavesNothing
<1>1. Known => RefusedLeavesNothing
  <2> SUFFICES ASSUME Known, NEW j \in Jobs, submit[j] = "refused"
               PROVE  /\ j \notin pendingJobs /\ ~Queued(j)
                      /\ \A w \in Workers : wjob[w] # j
                      /\ status[j] \in {"none", "PENDING", "FAILED"} /\ saved[j] = {}
                      /\ j \notin Flaky \cup Scheduled => status[j] = "none"
    BY DEF RefusedLeavesNothing
  <2>1. ~Queued(j) /\ saved[j] = {} /\ \A w \in Workers : wjob[w] # j
    BY UnansweredIsFree, JobsAssumption DEF Known
  <2>2. j \notin pendingJobs
    BY DEF Known, Holding, PendingShape
  <2> QED
    BY <2>1, <2>2 DEF Known, RowInv, RowShape
<1> QED
  BY <1>1, KnownAlways, PTL

-----------------------------------------------------------------------------
(* The rows refine JobRows                                                 *)

\* What JobRows lets one step do to the row of j.
LifeStep(j) ==
  \/ status'[j] = status[j] /\ saved'[j] = saved[j] /\ verdict'[j] = verdict[j]
  \/ /\ saved'[j] = saved[j] /\ verdict'[j] = verdict[j]
     /\ \/ status[j] = "none" /\ status'[j] = "PENDING"
        \/ status[j] = "PENDING" /\ status'[j] = "RUNNING"
        \/ status[j] = "RUNNING" /\ status'[j] \in Final
  \/ /\ status[j] = "RUNNING"
     /\ \E i \in 1..Runs[j] \ saved[j] : saved'[j] = saved[j] \cup {i}
     /\ status'[j] = status[j] /\ verdict'[j] = verdict[j]
  \/ /\ status[j] \in Final /\ ~verdict[j] /\ verdict'[j] = TRUE
     /\ status'[j] = status[j] /\ saved'[j] = saved[j]
  \/ /\ status[j] # "none"
     /\ status'[j] = "none" /\ saved'[j] = {} /\ verdict'[j] = FALSE

OtherRows(j) ==
  \A k \in Jobs \ {j} :
    status'[k] = status[k] /\ saved'[k] = saved[k] /\ verdict'[k] = verdict[k]

\* A function over the reliable jobs, changed at one of them.
LEMMA ViewChanges ==
  ASSUME NEW f, NEW g, NEW j \in Reliable, \A k \in Reliable \ {j} : g[k] = f[k]
  PROVE  [k \in Reliable |-> g[k]] = [[k \in Reliable |-> f[k]] EXCEPT ![j] = g[j]]
OBVIOUS

LEMMA ViewStays ==
  ASSUME NEW f, NEW g, \A k \in Reliable : g[k] = f[k]
  PROVE  [k \in Reliable |-> g[k]] = [k \in Reliable |-> f[k]]
OBVIOUS

\* A step that leaves every reliable row alone is a stutter of JobRows.
LEMMA RowsStutter ==
  ASSUME \A k \in Reliable : /\ status'[k] = status[k] /\ saved'[k] = saved[k]
                             /\ verdict'[k] = verdict[k]
  PROVE  UNCHANGED JobRowsView!rows
<1>1. Reliable' = Reliable
  BY DEF Reliable
<1> QED
  BY <1>1, ViewStays DEF JobRowsView!rows

LEMMA OneRowLives ==
  ASSUME NEW j \in Jobs, OtherRows(j), j \in Reliable => LifeStep(j)
  PROVE  [JobRowsView!Next]_(JobRowsView!rows)
<1>0. Reliable' = Reliable /\ Reliable \subseteq Jobs
  BY DEF Reliable
<1>1. CASE \A k \in Reliable : /\ status'[k] = status[k] /\ saved'[k] = saved[k]
                               /\ verdict'[k] = verdict[k]
  BY <1>1, RowsStutter
<1>2. CASE j \in Reliable /\ ~(/\ status'[j] = status[j] /\ saved'[j] = saved[j]
                               /\ verdict'[j] = verdict[j])
  <2>1. /\ [k \in Reliable |-> status'[k]] = [[k \in Reliable |-> status[k]] EXCEPT ![j] = status'[j]]
        /\ [k \in Reliable |-> saved'[k]] = [[k \in Reliable |-> saved[k]] EXCEPT ![j] = saved'[j]]
        /\ [k \in Reliable |-> verdict'[k]] = [[k \in Reliable |-> verdict[k]] EXCEPT ![j] = verdict'[j]]
    BY <1>0, <1>2, ViewChanges DEF OtherRows
  <2>2. /\ status'[j] = status[j] => UNCHANGED [k \in Reliable |-> status[k]]
        /\ saved'[j] = saved[j] => UNCHANGED [k \in Reliable |-> saved[k]]
        /\ verdict'[j] = verdict[j] => UNCHANGED [k \in Reliable |-> verdict[k]]
    BY <1>0, <1>2 DEF OtherRows
  <2> USE <1>0, <1>2, <2>1, <2>2
  <2>3. CASE /\ saved'[j] = saved[j] /\ verdict'[j] = verdict[j]
             /\ status[j] = "none" /\ status'[j] = "PENDING"
    <3>1. JobRowsView!Insert(j)
      BY <2>3 DEF JobRowsView!Insert, JobRowsView!Move
    <3> QED
      BY <3>1 DEF JobRowsView!Next
  <2>4. CASE /\ saved'[j] = saved[j] /\ verdict'[j] = verdict[j]
             /\ status[j] = "PENDING" /\ status'[j] = "RUNNING"
    <3>1. JobRowsView!Start(j)
      BY <2>4 DEF JobRowsView!Start, JobRowsView!Move
    <3> QED
      BY <3>1 DEF JobRowsView!Next
  <2>5. CASE /\ saved'[j] = saved[j] /\ verdict'[j] = verdict[j]
             /\ status[j] = "RUNNING" /\ status'[j] \in Final
    <3>1. JobRowsView!Finish(j)
      BY <2>5 DEF JobRowsView!Finish, JobRowsView!Move, JobRowsView!Final, Final
    <3> QED
      BY <3>1 DEF JobRowsView!Next
  <2>6. CASE /\ status[j] = "RUNNING" /\ status'[j] = status[j] /\ verdict'[j] = verdict[j]
             /\ \E i \in 1..Runs[j] \ saved[j] : saved'[j] = saved[j] \cup {i}
    <3>0. PICK i \in 1..Runs[j] \ saved[j] : saved'[j] = saved[j] \cup {i}
      BY <2>6
    <3>1. JobRowsView!Record(j)
      <4>1. /\ [k \in Reliable |-> saved[k]][j] = saved[j]
            /\ [k \in Reliable |-> status[k]][j] = status[j]
        BY <1>2
      <4>2. [k \in Reliable |-> saved'[k]] =
              [[k \in Reliable |-> saved[k]] EXCEPT ![j] = @ \cup {i}]
        BY <2>1, <3>0, <4>1
      <4> QED
        BY <2>6, <3>0, <4>1, <4>2 DEF JobRowsView!Record
    <3> QED
      BY <3>1 DEF JobRowsView!Next
  <2>7. CASE /\ status[j] \in Final /\ ~verdict[j] /\ verdict'[j] = TRUE
             /\ status'[j] = status[j] /\ saved'[j] = saved[j]
    <3>1. JobRowsView!Judge(j)
      BY <2>7 DEF JobRowsView!Judge, JobRowsView!Final, Final
    <3> QED
      BY <3>1 DEF JobRowsView!Next
  <2>8. CASE /\ status[j] # "none"
             /\ status'[j] = "none" /\ saved'[j] = {} /\ verdict'[j] = FALSE
    <3>1. JobRowsView!Remove(j)
      BY <2>8 DEF JobRowsView!Remove
    <3> QED
      BY <3>1 DEF JobRowsView!Next
  <2> QED
    BY <2>3, <2>4, <2>5, <2>6, <2>7, <2>8 DEF LifeStep
<1> QED
  BY <1>0, <1>1, <1>2 DEF OtherRows

\* The row is deleted, or there was none.
LEMMA RemovedLives ==
  ASSUME Known, NEW j \in Jobs, DeleteJobRow(j)
  PROVE  OtherRows(j) /\ LifeStep(j)
<1>1. /\ status'[j] = "none" /\ saved'[j] = {} /\ verdict'[j] = FALSE
      /\ verdict[j] \in BOOLEAN /\ OtherRows(j)
  BY DEF DeleteJobRow, OtherRows, Known, TypeInv, TypeOK
<1>2. status[j] = "none" => saved[j] = {} /\ verdict[j] = FALSE
  BY <1>1 DEF Known, RowInv, RowShape
<1> QED
  BY <1>1, <1>2 DEF LifeStep

\* A step that writes nothing about the rows.
LEMMA UnwrittenLives ==
  ASSUME NEW j \in Jobs, UNCHANGED <<status, saved, verdict>>
  PROVE  OtherRows(j) /\ LifeStep(j)
BY DEF OtherRows, LifeStep

LEMMA RequestLives ==
  ASSUME Known, NEW j \in Jobs, SubmitStep(j) \/ DeleteStep(j)
  PROVE  OtherRows(j) /\ LifeStep(j)
<1> USE DEF mem, db, handlers, pool
<1>1. CASE CreateJob(j)
  <2>1. /\ status[j] = "none" /\ status'[j] = "PENDING" /\ UNCHANGED <<saved, verdict>>
        /\ OtherRows(j)
    BY <1>1 DEF CreateJob, OtherRows, Known, RowInv, RowShape, TypeInv, TypeOK
  <2> QED
    BY <2>1 DEF LifeStep
<1>2. CASE DeleteJobRow(j)
  BY <1>2, RemovedLives
<1>3. CASE UNCHANGED <<status, saved, verdict>>
  BY <1>3, UnwrittenLives
<1> QED
  BY <1>1, <1>2, <1>3 DEF SubmitStep, CreateJobFails, RegisterPending, CheckManager, Enqueue,
     EnqueueFailed, DeleteRejected, DeleteStep, DeleteLookup, CancelJob, DeleteDeliveries, DeleteRow

LEMMA MarkRunningLives ==
  ASSUME Known, NEW w \in Workers, MarkRunning(w), NEW j \in Reliable, j = wjob[w],
         UpdateJobStatus(j, "RUNNING"), OwnPart(w, j)
  PROVE  LifeStep(j)
<1>1. status[j] \in {"PENDING", "none"} /\ UNCHANGED <<saved, verdict>>
  BY DEF MarkRunning, OwnPart, InHands
<1>2. status'[j] = IF status[j] = "none" THEN "none" ELSE "RUNNING"
  BY DEF UpdateJobStatus, Known, TypeInv, TypeOK, Reliable
<1> QED
  BY <1>1, <1>2 DEF LifeStep

\* A job in the hands of its worker goes from RUNNING to a final status.
LEMMA FinishLives ==
  ASSUME Known, NEW w \in Workers, wpc[w] \in Executing, NEW j \in Reliable, j = wjob[w],
         NEW s \in Final, UpdateJobStatus(j, s), UNCHANGED <<saved, verdict>>, OwnPart(w, j)
  PROVE  LifeStep(j)
<1>1. status[j] \in {"RUNNING", "none"}
  BY DEF OwnPart, InHands
<1>2. status'[j] = IF status[j] = "none" THEN "none" ELSE s
  BY DEF UpdateJobStatus, Known, TypeInv, TypeOK, Reliable
<1> QED
  BY <1>1, <1>2 DEF LifeStep

\* A result is stored once, and for a run the submission asked for.
LEMMA RecordLives ==
  ASSUME Known, NEW w \in Workers, wpc[w] = "collecting", NEW j \in Reliable, j = wjob[w],
         SaveResult(j, tally[w].done + 1), UNCHANGED <<status, verdict>>, OwnPart(w, j)
  PROVE  LifeStep(j)
<1>0. PICK n : n = tally[w].done
  OBVIOUS
<1>1. n \in Nat /\ n < Runs[j] /\ Runs[j] \in Nat
  BY <1>0 DEF Known, TypeInv, TypeOK, Tallies, RowInv, TallyShape, Reliable
<1>2. status[j] = "RUNNING" /\ saved[j] \subseteq 1..n
  BY <1>0 DEF SaveResult, OwnPart, InHands, Executing
<1>3. saved'[j] = saved[j] \cup {n + 1}
  BY <1>0 DEF SaveResult, Known, TypeInv, TypeOK, Reliable
<1>4. n + 1 \in 1..Runs[j] \ saved[j]
  BY <1>1, <1>2
<1> QED
  BY <1>2, <1>3, <1>4 DEF LifeStep

LEMMA JudgeLives ==
  ASSUME Known, NEW w \in Workers, wpc[w] = "judging", NEW j \in Reliable, j = wjob[w],
         mgr = "up", SetJobBudgetResult(j), UNCHANGED <<status, saved>>, OwnPart(w, j)
  PROVE  LifeStep(j)
<1>1. ~verdict[j] /\ verdict[j] \in BOOLEAN /\ (status[j] # "none" => status[j] \in Final)
  BY DEF OwnPart, InHands, Known, TypeInv, TypeOK, Reliable
<1>2. verdict'[j] = (status[j] # "none")
  BY DEF SetJobBudgetResult, Known, TypeInv, TypeOK, Reliable
<1>3. CASE status[j] = "none"
  <2>1. verdict'[j] = verdict[j]
    BY <1>1, <1>2, <1>3
  <2> QED
    BY <2>1 DEF LifeStep
<1>4. CASE status[j] # "none"
  <2>1. verdict'[j] = TRUE
    BY <1>2, <1>4
  <2> QED
    BY <1>1, <1>4, <2>1 DEF LifeStep
<1> QED
  BY <1>3, <1>4

LEMMA WorkerLives ==
  ASSUME Known, NEW w \in Workers, WorkerStep(w)
  PROVE  [JobRowsView!Next]_(JobRowsView!rows)
<1> USE DEF mem, db, handlers, pool
<1>1. CASE UNCHANGED <<status, saved, verdict>>
  BY <1>1, RowsStutter
<1>2. CASE ~UNCHANGED <<status, saved, verdict>>
  <2>0. PICK j : j = wjob[w]
    OBVIOUS
  <2>1. /\ wpc[w] \in {"claimed", "judging"} \cup Executing
        /\ \/ wpc[w] = "claimed" /\ MarkRunning(w) /\ UpdateJobStatus(j, "RUNNING")
              /\ UNCHANGED <<saved, verdict>>
           \/ wpc[w] = "collecting" /\ SaveResult(j, tally[w].done + 1)
              /\ UNCHANGED <<status, verdict>>
           \/ wpc[w] = "panicked" /\ UpdateJobStatus(j, "FAILED") /\ UNCHANGED <<saved, verdict>>
           \/ wpc[w] = "deriving" /\ UpdateJobStatus(j, deriveStatus(Runs[j], tally[w]))
              /\ UNCHANGED <<saved, verdict>>
           \/ wpc[w] = "judging" /\ ~ManagerCtxDone /\ SetJobBudgetResult(j)
              /\ UNCHANGED <<status, saved>>
    BY <1>2, <2>0 DEF WorkerStep, Pop, Claim, MarkRunning, RunOnce, Panic, FailPanicked,
       WriteFinalStatus, JudgeBudget, ReadJob, ReadResults, EnqueueWebhook, WorkerExit, Executing
  <2>2. j \in Jobs /\ mgr \in {"up", "stopping"} /\ (j \in Reliable => OwnPart(w, j))
    BY <2>0, <2>1, Claimed DEF Unclaimed, Executing
  <2>3. OtherRows(j)
    BY <2>1 DEF OtherRows, UpdateJobStatus, SaveResult, SetJobBudgetResult, Known, TypeInv, TypeOK
  <2>4. deriveStatus(Runs[j], tally[w]) \in Final
    BY DEF deriveStatus, Final
  <2>5. j \in Reliable => LifeStep(j)
    BY <2>0, <2>1, <2>2, <2>4, MarkRunningLives, RecordLives, FinishLives, JudgeLives
       DEF Executing, Final, ManagerCtxDone
  <2> QED
    BY <2>2, <2>3, <2>5, OneRowLives
<1> QED
  BY <1>1, <1>2

LEMMA ProcessLives ==
  ASSUME Known, Stop \/ ProcessExits \/ Crash \/ Restart
  PROVE  [JobRowsView!Next]_(JobRowsView!rows)
<1> USE DEF mem, db, handlers, pool
<1>1. CASE UNCHANGED <<status, saved, verdict>>
  BY <1>1, RowsStutter
<1>2. CASE Restart
  <2>1. Reliable' = Reliable /\ Reliable \subseteq Jobs /\ UNCHANGED <<saved, verdict>>
    BY <1>2 DEF Restart, Reliable
  <2>2. CASE status' = [k \in Jobs |-> IF k \in Interrupted THEN "FAILED" ELSE status[k]]
    <3>1. JobRowsView!Recover
      BY <2>1, <2>2 DEF JobRowsView!Recover, Interrupted, Open
    <3> QED
      BY <3>1 DEF JobRowsView!Next
  <2> QED
    BY <1>1, <1>2, <2>1, <2>2 DEF Restart
<1> QED
  BY <1>1, <1>2 DEF Stop, ProcessExits, Crash, ProcessEnds

\* The rows of the jobs whose store calls do not fail live as JobRows says: the
\* specification of the whole daemon implements that of its table.
THEOREM RowsImplementJobRows == Spec => RowsFollowTheirLife
<1>1. Init => JobRowsView!Init
  BY DEF Init, JobRowsView!Init, Reliable
<1>2. Known /\ [Next]_vars => [JobRowsView!Next]_(JobRowsView!rows)
  <2> SUFFICES ASSUME Known, [Next]_vars PROVE [JobRowsView!Next]_(JobRowsView!rows)
    OBVIOUS
  <2>1. CASE UNCHANGED vars
    BY <2>1, RowsStutter DEF vars, db
  <2>2. CASE \E j \in Jobs : SubmitStep(j) \/ DeleteStep(j)
    BY <2>2, RequestLives, OneRowLives
  <2> QED
    BY <2>1, <2>2, WorkerLives, ProcessLives DEF Next
<1> QED
  BY <1>1, <1>2, KnownAlways, PTL DEF Spec, RowsFollowTheirLife, JobRowsView!Spec
=============================================================================
