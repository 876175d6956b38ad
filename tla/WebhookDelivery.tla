--------------------------- MODULE WebhookDelivery ---------------------------
(***************************************************************************)
(* The webhook worker of the Loadstar daemon: the rows of                  *)
(* webhook_deliveries, the webhookChan notifications, the periodic sweep,  *)
(* the immediate attempts, backoff and the limit on attempts, with an      *)
(* endpoint that answers as it likes, store calls that fail, rows that are *)
(* deleted, and a daemon that is stopped, crashes and starts again.        *)
(*                                                                         *)
(* One goroutine makes all attempts; the job workers insert and notify.    *)
(* JobLifecycle says how a delivery comes to be inserted.                  *)
(***************************************************************************)
EXTENDS Naturals, Sequences, FiniteSets

CONSTANTS
  Deliveries,  \* delivery ids, one for each webhook to be sent
  MaxRetries,  \* maxWebhookRetries
  BatchSize,   \* webhookBatchSize
  ChanSize,    \* webhookChanBuffer
  Flaky,       \* deliveries whose store calls may fail although the daemon is up
  MaxLost      \* bound on the attempts whose outcome is not stored

ASSUME DeliveriesAssumption == IsFiniteSet(Deliveries) /\ Flaky \subseteq Deliveries
ASSUME LimitsAssumption     == /\ MaxRetries \in Nat \ {0} /\ BatchSize \in Nat \ {0}
                               /\ ChanSize \in Nat \ {0} /\ MaxLost \in Nat

VARIABLES
  mgr,          \* "up", "stopping" (m.ctx is cancelled) or "down"
  row,          \* the row's status, "none" when there is no row
  attempts,     \* the row's attempts
  waiting,      \* whether the row's next_attempt is still to come
  created,      \* the row's created_at: its place among all rows ever inserted
  sender,       \* where the job worker's sendWebhook for the delivery is
  webhookChan,  \* Manager.webhookChan
  pc,           \* where the webhook worker is
  todo,         \* what it has read and not finished: the batch, or one delivery
  seen,         \* the attempts it read with each
  verdict,      \* the status it is about to store for the one just sent
  posts,        \* history: the requests sent for a delivery
  accepted,     \* history: whether the receiver has taken one of them
  unrecorded    \* history: the requests whose outcome was not stored

db     == <<row, attempts, waiting, created>>
worker == <<pc, todo, seen, verdict>>
hist   == <<posts, accepted, unrecorded>>
vars   == <<mgr, db, sender, webhookChan, worker, hist>>

-----------------------------------------------------------------------------
(* The bound. Only a lost outcome lets a delivery be sent more often.      *)

Lost == {l \in Deliveries \X (1..MaxLost) : l[2] <= unrecorded[l[1]]}

\* n more outcomes may be lost.
MayLose(n) == Cardinality(Lost) + n <= MaxLost

-----------------------------------------------------------------------------
(* sendWebhook, on a job worker                                            *)

\* INSERT INTO webhook_deliveries, PENDING with no attempt and no next_attempt.
Insert(d) ==
  /\ mgr = "up"
  /\ sender[d] = "new"
  /\ row' = [row EXCEPT ![d] = "PENDING"]
  /\ created' = [created EXCEPT ![d] = Cardinality({e \in Deliveries : created[e] # 0}) + 1]
  /\ sender' = [sender EXCEPT ![d] = "inserted"]
  /\ UNCHANGED <<mgr, attempts, waiting, webhookChan, worker, hist>>

InsertFails(d) ==
  /\ mgr = "stopping" \/ (mgr = "up" /\ d \in Flaky)
  /\ sender[d] = "new"
  /\ sender' = [sender EXCEPT ![d] = "failed"]
  /\ UNCHANGED <<mgr, db, webhookChan, worker, hist>>

\* The non-blocking send; a full channel leaves the delivery to the sweep.
Notify(d) ==
  /\ sender[d] = "inserted"
  /\ sender' = [sender EXCEPT ![d] = "done"]
  /\ webhookChan' = IF Len(webhookChan) < ChanSize THEN Append(webhookChan, d) ELSE webhookChan
  /\ UNCHANGED <<mgr, db, worker, hist>>

-----------------------------------------------------------------------------
(* webhookWorker                                                           *)

\* Read the deliveries ds and start on them.
Take(ds) ==
  /\ todo' = ds
  /\ seen' = [d \in Deliveries |-> IF d \in ds THEN attempts[d] ELSE 0]
  /\ pc' = "posting"

\* (Mutant: next_attempt IS NULL is forgotten; rows never tried are not due.)
Due_RetriesOnly ==
  {d \in Deliveries : row[d] = "PENDING" /\ attempts[d] # 0 /\ ~waiting[d]}

\* GetPendingWebhooks' WHERE clause.
Due == {d \in Deliveries : row[d] = "PENDING" /\ ~waiting[d]}

\* The BatchSize oldest of ds.
Oldest(ds) ==
  {d \in ds : Cardinality({e \in ds : created[e] < created[d]}) < BatchSize}

\* The ticker. A sweep that finds nothing, or whose query fails (as it does
\* once m.ctx is cancelled), changes nothing.
Sweep ==
  /\ mgr = "up"
  /\ pc = "idle"
  /\ Due # {}
  /\ Take(Oldest(Due))
  /\ UNCHANGED <<mgr, db, sender, webhookChan, verdict, hist>>

\* (Mutant: the immediate attempt does not look at the status.)
Receive_AnyStatus ==
  /\ mgr # "down"
  /\ pc = "idle"
  /\ webhookChan # <<>>
  /\ mgr = "stopping" => MayLose(1)
  /\ webhookChan' = Tail(webhookChan)
  /\ \/ row[Head(webhookChan)] # "none" /\ Take({Head(webhookChan)})
     \/ row[Head(webhookChan)] = "none" /\ UNCHANGED <<todo, seen, pc>>
  /\ UNCHANGED <<mgr, db, sender, verdict, hist>>

\* A notification, and attemptWebhook's read of the row. The read has a context
\* of its own, so select may still pick this branch after Stop.
Receive ==
  /\ mgr # "down"
  /\ pc = "idle"
  /\ webhookChan # <<>>
  /\ mgr = "stopping" => MayLose(1)
  /\ webhookChan' = Tail(webhookChan)
  /\ LET d == Head(webhookChan)
     IN \/ row[d] = "PENDING" /\ Take({d})
        \/ /\ row[d] # "PENDING" \/ d \in Flaky
           /\ UNCHANGED <<todo, seen, pc>>
  /\ UNCHANGED <<mgr, db, sender, verdict, hist>>

\* The delivery at work: a batch is sent oldest first.
Current == CHOOSE d \in todo : \A e \in todo : created[d] <= created[e]

\* (Mutant: d.Attempts > maxWebhookRetries.)
StatusAfter_OffByOne(success, n) ==
  IF success THEN "SUCCESS" ELSE IF n > MaxRetries THEN "FAILED" ELSE "PENDING"

\* The status to store after the n-th attempt.
StatusAfter(success, n) ==
  IF success THEN "SUCCESS" ELSE IF n >= MaxRetries THEN "FAILED" ELSE "PENDING"

\* client.Post, which does not use m.ctx: the receiver takes the notification
\* and says so, takes it and the answer is lost, or does not take it.
Post ==
  /\ pc = "posting"
  /\ posts' = [posts EXCEPT ![Current] = @ + 1]
  /\ \E taken, success \in BOOLEAN :
       /\ success => taken
       /\ accepted' = [accepted EXCEPT ![Current] = @ \/ taken]
       /\ verdict' = StatusAfter(success, seen[Current] + 1)
  /\ pc' = "recording"
  /\ UNCHANGED <<mgr, db, sender, webhookChan, todo, seen, unrecorded>>

\* On to the rest of the batch; m.ctx is not looked at between two deliveries.
NextInBatch ==
  /\ todo' = todo \ {Current}
  /\ seen' = [seen EXCEPT ![Current] = 0]
  /\ verdict' = "none"
  /\ pc' = IF todo' = {} THEN "idle" ELSE "posting"

\* (Mutant: the retry is stored with the attempts it was read with.)
Record_SameAttempts ==
  /\ pc = "recording"
  /\ mgr = "up"
  /\ IF row[Current] # "none"
       THEN /\ row' = [row EXCEPT ![Current] = verdict]
            /\ attempts' = [attempts EXCEPT ![Current] = seen[Current]]
            /\ waiting' = [waiting EXCEPT ![Current] = verdict = "PENDING"]
       ELSE UNCHANGED <<row, attempts, waiting>>
  /\ NextInBatch
  /\ UNCHANGED <<mgr, created, sender, webhookChan, hist>>

\* UpdateWebhookStatus: a row that is gone is not an error. Only a retry has a
\* next_attempt.
Record ==
  /\ pc = "recording"
  /\ mgr = "up"
  /\ IF row[Current] # "none"
       THEN /\ row' = [row EXCEPT ![Current] = verdict]
            /\ attempts' = [attempts EXCEPT ![Current] = seen[Current] + 1]
            /\ waiting' = [waiting EXCEPT ![Current] = verdict = "PENDING"]
       ELSE UNCHANGED <<row, attempts, waiting>>
  /\ NextInBatch
  /\ UNCHANGED <<mgr, created, sender, webhookChan, hist>>

\* The update fails, as it does once m.ctx is cancelled, and is only logged.
RecordFails ==
  /\ pc = "recording"
  /\ mgr = "stopping" \/ (Current \in Flaky /\ MayLose(1))
  /\ unrecorded' = [unrecorded EXCEPT ![Current] = @ + 1]
  /\ NextInBatch
  /\ UNCHANGED <<mgr, db, sender, webhookChan, posts, accepted>>

\* select picks m.ctx.Done().
WorkerExit ==
  /\ mgr = "stopping"
  /\ pc = "idle"
  /\ pc' = "exited"
  /\ UNCHANGED <<mgr, db, sender, webhookChan, todo, seen, verdict, hist>>

WorkerStep == Sweep \/ Receive \/ Post \/ Record \/ RecordFails \/ WorkerExit

-----------------------------------------------------------------------------
(* Time, other users of the table, and the process                         *)

\* next_attempt comes.
BackoffElapses(d) ==
  /\ waiting[d]
  /\ waiting' = [waiting EXCEPT ![d] = FALSE]
  /\ UNCHANGED <<mgr, row, attempts, created, sender, webhookChan, worker, hist>>

\* DeleteJob or PurgeOldJobs takes the job's deliveries.
DeleteRow(d) ==
  /\ mgr # "down"
  /\ row[d] # "none"
  /\ row' = [row EXCEPT ![d] = "none"]
  /\ attempts' = [attempts EXCEPT ![d] = 0]
  /\ waiting' = [waiting EXCEPT ![d] = FALSE]
  /\ UNCHANGED <<mgr, created, sender, webhookChan, worker, hist>>

\* Everything in memory goes; of a request that was sent, the outcome too.
ProcessEnds ==
  /\ mgr' = "down"
  /\ webhookChan' = <<>>
  /\ sender' = [d \in Deliveries |-> IF sender[d] = "inserted" THEN "done" ELSE sender[d]]
  /\ pc' = "exited"
  /\ todo' = {}
  /\ seen' = [d \in Deliveries |-> 0]
  /\ verdict' = "none"
  /\ UNCHANGED <<db, posts, accepted>>

\* Stop cancels m.ctx. What is left of the batch will be sent and not recorded.
Stop ==
  /\ mgr = "up"
  /\ MayLose(Cardinality(todo))
  /\ mgr' = "stopping"
  /\ UNCHANGED <<db, sender, webhookChan, worker, hist>>

\* wg.Wait: the webhook worker and the job workers have returned.
ProcessExits ==
  /\ mgr = "stopping"
  /\ pc = "exited"
  /\ \A d \in Deliveries : sender[d] # "inserted"
  /\ ProcessEnds
  /\ UNCHANGED unrecorded

Crash ==
  /\ mgr # "down"
  /\ IF pc = "recording"
       THEN MayLose(1) /\ unrecorded' = [unrecorded EXCEPT ![Current] = @ + 1]
       ELSE UNCHANGED unrecorded
  /\ ProcessEnds

\* The rows are all there is to start from.
Restart ==
  /\ mgr = "down"
  /\ mgr' = "up"
  /\ pc' = "idle"
  /\ UNCHANGED <<db, sender, webhookChan, todo, seen, verdict, hist>>

-----------------------------------------------------------------------------
Init ==
  /\ mgr = "up"
  /\ row = [d \in Deliveries |-> "none"]
  /\ attempts = [d \in Deliveries |-> 0]
  /\ waiting = [d \in Deliveries |-> FALSE]
  /\ created = [d \in Deliveries |-> 0]
  /\ sender = [d \in Deliveries |-> "new"]
  /\ webhookChan = <<>>
  /\ pc = "idle"
  /\ todo = {}
  /\ seen = [d \in Deliveries |-> 0]
  /\ verdict = "none"
  /\ posts = [d \in Deliveries |-> 0]
  /\ accepted = [d \in Deliveries |-> FALSE]
  /\ unrecorded = [d \in Deliveries |-> 0]

Next ==
  \/ \E d \in Deliveries : \/ Insert(d) \/ InsertFails(d) \/ Notify(d)
                           \/ BackoffElapses(d) \/ DeleteRow(d)
  \/ WorkerStep
  \/ Stop \/ ProcessExits \/ Crash \/ Restart

Spec == Init /\ [][Next]_vars

(***************************************************************************)
(* Fairness: the webhook worker runs (the ticker ticks, a request ends by  *)
(* its timeout), the job workers and the clock go on, Stop returns when it *)
(* can, the daemon is started again. Nothing is assumed of the endpoint.   *)
(***************************************************************************)
Fairness ==
  /\ WF_vars(WorkerStep)
  /\ \A d \in Deliveries : WF_vars(Notify(d)) /\ WF_vars(BackoffElapses(d))
  /\ WF_vars(ProcessExits)
  /\ WF_vars(Restart)

FairSpec == Spec /\ Fairness

-----------------------------------------------------------------------------
Settled == {"SUCCESS", "FAILED"}

\* The values every variable may take; a row never has more than
\* maxWebhookRetries attempts.
TypeOK ==
  /\ mgr \in {"up", "stopping", "down"}
  /\ row \in [Deliveries -> {"none", "PENDING"} \cup Settled]
  /\ attempts \in [Deliveries -> 0..MaxRetries]
  /\ waiting \in [Deliveries -> BOOLEAN]
  /\ created \in [Deliveries -> Nat]
  /\ sender \in [Deliveries -> {"new", "inserted", "done", "failed"}]
  /\ webhookChan \in Seq(Deliveries)
  /\ pc \in {"idle", "posting", "recording", "exited"}
  /\ todo \subseteq Deliveries
  /\ seen \in [Deliveries -> 0..MaxRetries]
  /\ verdict \in {"none", "PENDING"} \cup Settled
  /\ posts \in [Deliveries -> Nat]
  /\ accepted \in [Deliveries -> BOOLEAN]
  /\ unrecorded \in [Deliveries -> Nat]

\* A request that was sent and whose outcome is being stored.
InHand(d) == IF pc = "recording" /\ d = Current THEN 1 ELSE 0

\* Every request is accounted for: the row counts it, or its outcome could not
\* be stored, or it is the one at work. With TypeOK, a notification is sent at
\* most maxWebhookRetries times plus once for each outcome that was not stored,
\* across sweeps, immediate attempts, stops and crashes. (The sweep's rows are a
\* snapshot; sendOneWebhook adds one to the attempts it read.)
AttemptsAreCounted ==
  \A d \in Deliveries :
    row[d] # "none" => posts[d] = attempts[d] + unrecorded[d] + InHand(d)

Outcome(d) ==
  CASE row[d] = "PENDING" -> "pending"
    [] row[d] = "SUCCESS" -> "delivered"
    [] row[d] = "FAILED"  -> "abandoned"
    [] row[d] = "none"    -> IF sender[d] \in {"new", "failed"} THEN "none" ELSE "removed"

NotificationsView == INSTANCE Notifications WITH
  outcome <- [d \in Deliveries |-> Outcome(d)]

\* The store tells the truth about deliveries: SUCCESS only of what the
\* receiver took, FAILED only after maxWebhookRetries requests, nothing sent
\* once either is stored, and no way back to PENDING. (sendOneWebhook,
\* attemptWebhook's check of the status)
StoreTellsTheTruth == NotificationsView!Spec

\* The inductive invariant behind both, in named parts. See WebhookProofs.
\* Nothing has happened to a delivery that sendWebhook has not inserted.
UnsentShape(d) ==
  sender[d] \in {"new", "failed"} =>
    /\ row[d] = "none" /\ attempts[d] = 0
    /\ posts[d] = 0 /\ unrecorded[d] = 0 /\ ~accepted[d]
\* A row the worker has read stays as it was, or is deleted.
TodoShape(d) ==
  d \in todo =>
    /\ sender[d] \in {"inserted", "done"}
    /\ row[d] \in {"PENDING", "none"}
    /\ row[d] = "PENDING" => seen[d] = attempts[d]
    /\ seen[d] < MaxRetries
PendingIsDue(d) == row[d] = "PENDING" => attempts[d] < MaxRetries
WorkerShape ==
  /\ todo = {} <=> pc \in {"idle", "exited"}
  /\ mgr = "down" => pc = "exited"
  /\ pc = "recording" =>
       /\ verdict # "none"
       /\ verdict = "SUCCESS" => accepted[Current]
       /\ verdict = "FAILED" => seen[Current] + 1 >= MaxRetries
       /\ verdict = "PENDING" => seen[Current] + 1 < MaxRetries

IndInv ==
  /\ TypeOK
  /\ \A d \in Deliveries : UnsentShape(d) /\ TodoShape(d) /\ PendingIsDue(d)
  /\ WorkerShape
  /\ AttemptsAreCounted

\* While the daemon stays up every delivery is settled or removed, also one
\* whose notification was lost to a full channel or to a restart. (The sweep.)
EveryDeliverySettles ==
  <>[](mgr = "up") => \A d \in Deliveries : row[d] = "PENDING" ~> row[d] # "PENDING"
=============================================================================
