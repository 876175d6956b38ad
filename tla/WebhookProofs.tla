---------------------------- MODULE WebhookProofs ----------------------------
(***************************************************************************)
(* Every request for a delivery is accounted for, and the store tells the  *)
(* truth about deliveries: for any deliveries, limit on attempts, batch,   *)
(* channel and failures of the store, through stops and crashes.           *)
(***************************************************************************)
EXTENDS WebhookDelivery, FiniteSetTheorems, WellFoundedInduction, TLAPS

USE DeliveriesAssumption, LimitsAssumption

\* What IndInv says of one delivery.
Part(d) == UnsentShape(d) /\ TodoShape(d) /\ PendingIsDue(d)

LEMMA IndInvByPart ==
  /\ IndInv <=> TypeOK /\ WorkerShape /\ AttemptsAreCounted /\ \A d \in Deliveries : Part(d)
  /\ IndInv' <=> /\ TypeOK' /\ WorkerShape' /\ AttemptsAreCounted'
                 /\ \A d \in Deliveries : Part(d)'
BY DEF IndInv, Part

LEMMA SmallestOf ==
  ASSUME NEW T \in SUBSET Nat, T # {}
  PROVE  \E x \in T : \A y \in T : x <= y
<1>1. PICK x \in T : \A y \in T : ~ (<<y, x>> \in OpToRel(<, Nat))
  BY NatLessThanWellFounded, WFMin
<1>2. \A y \in T : ~ (y < x)
  BY <1>1 DEF OpToRel
<1> QED
  BY <1>2

\* There is an oldest delivery in what the worker has read.
LEMMA CurrentIsInTodo ==
  ASSUME todo \subseteq Deliveries, created \in [Deliveries -> Nat], todo # {}
  PROVE  Current \in todo
<1> DEFINE ages == {created[d] : d \in todo}
<1>1. PICK x \in ages : \A y \in ages : x <= y
  <2>1. ages \in SUBSET Nat /\ ages # {}
    OBVIOUS
  <2> HIDE DEF ages
  <2> QED
    BY <2>1, SmallestOf
<1>2. \E d \in todo : \A e \in todo : created[d] <= created[e]
  BY <1>1
<1> QED
  BY <1>2 DEF Current

\* Only what was inserted since could change which one is at work.
LEMMA SameCurrent ==
  ASSUME todo' = todo, \A d \in todo : created'[d] = created[d]
  PROVE  Current' = Current
BY DEF Current

\* The delivery the worker is busy with.
LEMMA AtWork ==
  ASSUME IndInv, pc \in {"posting", "recording"}
  PROVE  /\ Current \in todo /\ Current \in Deliveries
         /\ Part(Current)
         /\ mgr \in {"up", "stopping"}
BY CurrentIsInTodo DEF IndInv, TypeOK, WorkerShape, Part

\* A step that tells the worker nothing and changes no count.
LEMMA SameAccounts ==
  ASSUME AttemptsAreCounted, UNCHANGED <<posts, unrecorded>>,
         \A d \in Deliveries : InHand(d)' = InHand(d),
         \A d \in Deliveries : row'[d] # "none" => row[d] # "none" /\ attempts'[d] = attempts[d]
  PROVE  AttemptsAreCounted'
BY DEF AttemptsAreCounted

LEMMA InitInv == Init => IndInv
<1> SUFFICES ASSUME Init PROVE IndInv
  OBVIOUS
<1>1. TypeOK
  BY DEF Init, TypeOK
<1>2. \A d \in Deliveries : Part(d)
  BY DEF Init, Part, UnsentShape, TodoShape, PendingIsDue
<1>3. WorkerShape /\ AttemptsAreCounted
  BY DEF Init, WorkerShape, AttemptsAreCounted
<1> QED
  BY <1>1, <1>2, <1>3, IndInvByPart

-----------------------------------------------------------------------------
(* sendWebhook                                                             *)

LEMMA InsertInv ==
  ASSUME IndInv, NEW d \in Deliveries, Insert(d)
  PROVE  IndInv'
<1> USE DEF worker, hist
<1>0. TypeOK /\ WorkerShape /\ AttemptsAreCounted /\ \A e \in Deliveries : Part(e)
  BY IndInvByPart
<1>1. PICK n \in Nat : created' = [created EXCEPT ![d] = n]
  <2>1. {e \in Deliveries : created[e] # 0} \in SUBSET Deliveries
    OBVIOUS
  <2>2. PICK k \in Nat : k = Cardinality({e \in Deliveries : created[e] # 0})
    BY <2>1, FS_Subset, FS_CardinalityType
  <2>3. created' = [created EXCEPT ![d] = k + 1]
    BY <2>2 DEF Insert
  <2>4. k + 1 \in Nat
    OBVIOUS
  <2> QED
    BY <2>3, <2>4, Zenon
<1>2. /\ row[d] = "none" /\ attempts[d] = 0 /\ posts[d] = 0 /\ unrecorded[d] = 0
      /\ sender[d] = "new" /\ d \notin todo
  BY <1>0 DEF Insert, Part, UnsentShape, TodoShape
<1>3. Current' = Current
  BY <1>0, <1>1, <1>2, SameCurrent DEF Insert, TypeOK
<1>4. TypeOK'
  BY <1>0, <1>1 DEF Insert, TypeOK
<1>5. \A e \in Deliveries : Part(e)'
  BY <1>0, <1>2 DEF Insert, Part, UnsentShape, TodoShape, PendingIsDue, TypeOK
<1>6. WorkerShape'
  BY <1>0, <1>3 DEF Insert, WorkerShape
<1>7. AttemptsAreCounted'
  <2>1. InHand(d)' = 0
    <3>1. pc = "recording" => Current # d
      BY <1>2, AtWork
    <3> QED
      BY <1>3, <3>1 DEF InHand, Insert
  <2>2. \A e \in Deliveries : InHand(e)' = InHand(e)
    BY <1>3 DEF InHand, Insert
  <2>3. \A e \in Deliveries : /\ posts'[e] = posts[e] /\ unrecorded'[e] = unrecorded[e]
                              /\ attempts'[e] = attempts[e]
                              /\ e # d => row'[e] = row[e]
    BY <1>0 DEF Insert, TypeOK
  <2> QED
    BY <1>0, <1>2, <2>1, <2>2, <2>3 DEF AttemptsAreCounted
<1> QED
  BY <1>4, <1>5, <1>6, <1>7, IndInvByPart

LEMMA SenderInv ==
  ASSUME IndInv, NEW d \in Deliveries, InsertFails(d) \/ Notify(d) \/ BackoffElapses(d) \/ DeleteRow(d)
  PROVE  IndInv'
<1> USE DEF worker, hist, db
<1>0. TypeOK /\ WorkerShape /\ AttemptsAreCounted /\ \A e \in Deliveries : Part(e)
  BY IndInvByPart
<1>1. /\ Current' = Current /\ UNCHANGED <<mgr, pc, verdict, seen, todo, accepted, posts, unrecorded>>
      /\ \A e \in Deliveries : InHand(e)' = InHand(e)
  BY SameCurrent DEF InsertFails, Notify, BackoffElapses, DeleteRow, InHand
<1>2. WorkerShape'
  BY <1>0, <1>1 DEF WorkerShape
<1>3. TypeOK'
  <2>1. CASE Notify(d)
    <3>1. webhookChan \in Seq(Deliveries) /\ Append(webhookChan, d) \in Seq(Deliveries)
      BY <1>0 DEF TypeOK
    <3> QED
      BY <1>0, <2>1, <3>1 DEF Notify, TypeOK
  <2>2. CASE InsertFails(d)
    BY <1>0, <2>2 DEF InsertFails, TypeOK
  <2>3. CASE BackoffElapses(d)
    BY <1>0, <2>3 DEF BackoffElapses, TypeOK
  <2>4. CASE DeleteRow(d)
    BY <1>0, <2>4 DEF DeleteRow, TypeOK
  <2> QED
    BY <2>1, <2>2, <2>3, <2>4
<1>4. \A e \in Deliveries : Part(e)'
  BY <1>0 DEF InsertFails, Notify, BackoffElapses, DeleteRow, Part, UnsentShape, TodoShape,
     PendingIsDue, TypeOK
<1>5. AttemptsAreCounted'
  <2>1. \A e \in Deliveries : row'[e] # "none" => row[e] # "none" /\ attempts'[e] = attempts[e]
    BY <1>0 DEF InsertFails, Notify, BackoffElapses, DeleteRow, TypeOK
  <2> QED
    BY <1>0, <1>1, <2>1, SameAccounts
<1> QED
  BY <1>2, <1>3, <1>4, <1>5, IndInvByPart

-----------------------------------------------------------------------------
(* webhookWorker                                                           *)

\* Whatever the worker reads is PENDING when it is read.
LEMMA TakeInv ==
  ASSUME IndInv, pc = "idle", mgr # "down", NEW ds, ds # {}, ds \subseteq Deliveries,
         \A d \in ds : row[d] = "PENDING", Take(ds),
         UNCHANGED <<mgr, db, sender, verdict, hist>>, webhookChan' \in Seq(Deliveries)
  PROVE  IndInv'
<1> USE DEF db, hist
<1>0. TypeOK /\ WorkerShape /\ AttemptsAreCounted /\ \A e \in Deliveries : Part(e)
  BY IndInvByPart
<1>1. TypeOK'
  BY <1>0 DEF Take, TypeOK
<1>2. \A e \in Deliveries : Part(e)'
  <2> SUFFICES ASSUME NEW e \in Deliveries PROVE Part(e)'
    OBVIOUS
  <2>1. UnsentShape(e)' /\ PendingIsDue(e)'
    BY <1>0 DEF Part, UnsentShape, PendingIsDue
  <2>2. TodoShape(e)'
    <3>1. e \in ds => seen'[e] = attempts[e] /\ row[e] = "PENDING"
      BY DEF Take
    <3>2. sender[e] \in {"new", "inserted", "done", "failed"}
      BY <1>0 DEF TypeOK
    <3> QED
      BY <1>0, <3>1, <3>2 DEF Take, Part, UnsentShape, TodoShape, PendingIsDue
  <2> QED
    BY <2>1, <2>2 DEF Part
<1>3. WorkerShape'
  BY <1>0 DEF Take, WorkerShape
<1>4. AttemptsAreCounted'
  BY <1>0, SameAccounts DEF Take, InHand
<1> QED
  BY <1>1, <1>2, <1>3, <1>4, IndInvByPart

\* A step of the worker that leaves the deliveries alone, and is not one of
\* sending or storing.
LEMMA IdleInv ==
  ASSUME IndInv, pc = "idle", pc' = "idle" \/ pc' = "exited", mgr # "down",
         UNCHANGED <<mgr, db, sender, todo, seen, verdict, hist>>, webhookChan' \in Seq(Deliveries)
  PROVE  IndInv'
<1> USE DEF db, hist
<1>0. TypeOK /\ WorkerShape /\ AttemptsAreCounted /\ \A e \in Deliveries : Part(e)
  BY IndInvByPart
<1>1. TypeOK' /\ WorkerShape'
  BY <1>0 DEF TypeOK, WorkerShape
<1>2. \A e \in Deliveries : Part(e)'
  BY <1>0 DEF Part, UnsentShape, TodoShape, PendingIsDue
<1>3. AttemptsAreCounted'
  BY <1>0, SameAccounts DEF InHand
<1> QED
  BY <1>1, <1>2, <1>3, IndInvByPart

LEMMA OldestIsSome ==
  ASSUME created \in [Deliveries -> Nat], NEW ds \in SUBSET Deliveries, ds # {}
  PROVE  Oldest(ds) # {} /\ Oldest(ds) \subseteq ds
<1> DEFINE ages == {created[d] : d \in ds}
<1>1. PICK x \in ages : \A y \in ages : x <= y
  <2>1. ages \in SUBSET Nat /\ ages # {}
    OBVIOUS
  <2> HIDE DEF ages
  <2> QED
    BY <2>1, SmallestOf
<1>2. PICK d \in ds : \A e \in ds : created[d] <= created[e]
  BY <1>1
<1>3. {e \in ds : created[e] < created[d]} = {}
  BY <1>2
<1>4. Cardinality({e \in ds : created[e] < created[d]}) < BatchSize
  BY <1>3, FS_EmptySet
<1> QED
  BY <1>4 DEF Oldest

LEMMA ReadInv ==
  ASSUME IndInv, Sweep \/ Receive \/ WorkerExit
  PROVE  IndInv'
<1> USE DEF worker, hist, db
<1>0. TypeOK /\ WorkerShape /\ webhookChan \in Seq(Deliveries)
  BY IndInvByPart DEF TypeOK
<1>1. CASE Sweep
  <2>1. /\ Due \in SUBSET Deliveries /\ Due # {} /\ \A d \in Due : row[d] = "PENDING"
        /\ created \in [Deliveries -> Nat]
    BY <1>0, <1>1 DEF Sweep, Due, TypeOK
  <2>2. Oldest(Due) # {} /\ Oldest(Due) \subseteq Due
    BY <2>1, OldestIsSome
  <2> QED
    BY <1>0, <1>1, <2>1, <2>2, TakeInv DEF Sweep
<1>2. CASE Receive
  <2>1. Head(webhookChan) \in Deliveries /\ webhookChan' \in Seq(Deliveries)
    BY <1>0, <1>2 DEF Receive
  <2>2. CASE row[Head(webhookChan)] = "PENDING" /\ Take({Head(webhookChan)})
    BY <1>2, <2>1, <2>2, TakeInv DEF Receive
  <2>3. CASE UNCHANGED <<todo, seen, pc>>
    BY <1>2, <2>1, <2>3, IdleInv DEF Receive
  <2> QED
    BY <1>2, <2>2, <2>3 DEF Receive
<1>3. CASE WorkerExit
  BY <1>0, <1>3, IdleInv DEF WorkerExit
<1> QED
  BY <1>1, <1>2, <1>3

LEMMA PostInv ==
  ASSUME IndInv, Post
  PROVE  IndInv'
<1> USE DEF worker, hist, db
<1>0. TypeOK /\ WorkerShape /\ AttemptsAreCounted /\ \A e \in Deliveries : Part(e)
  BY IndInvByPart
<1>1. PICK d \in Deliveries : d = Current /\ d \in todo
  BY AtWork DEF Post
<1>2. Current' = d
  BY <1>1, SameCurrent DEF Post
<1>3. PICK taken \in BOOLEAN, success \in BOOLEAN :
        /\ success => taken
        /\ accepted' = [accepted EXCEPT ![d] = @ \/ taken]
        /\ verdict' = StatusAfter(success, seen[d] + 1)
  BY <1>1 DEF Post
<1>4. /\ posts' = [posts EXCEPT ![d] = @ + 1] /\ pc = "posting" /\ pc' = "recording"
      /\ UNCHANGED <<mgr, row, attempts, waiting, created, sender, webhookChan, todo, seen, unrecorded>>
  BY <1>1 DEF Post
<1>5. verdict' \in {"PENDING", "SUCCESS", "FAILED"}
  BY <1>3 DEF StatusAfter
<1>6. TypeOK'
  <2>1. accepted' \in [Deliveries -> BOOLEAN]
    BY <1>0, <1>3 DEF TypeOK
  <2>2. posts' \in [Deliveries -> Nat]
    BY <1>0, <1>4 DEF TypeOK
  <2> QED
    BY <1>0, <1>4, <1>5, <2>1, <2>2 DEF TypeOK, Settled
<1>7. \A e \in Deliveries : Part(e)'
  <2>1. sender[d] \in {"inserted", "done"}
    BY <1>0, <1>1 DEF Part, TodoShape
  <2>2. \A e \in Deliveries \ {d} : posts'[e] = posts[e] /\ accepted'[e] = accepted[e]
    BY <1>0, <1>3, <1>4 DEF TypeOK
  <2> QED
    BY <1>0, <1>4, <2>1, <2>2 DEF Part, UnsentShape, TodoShape, PendingIsDue
<1>8. WorkerShape'
  <2>1. verdict' = "SUCCESS" => accepted'[d]
    <3>1. verdict' = "SUCCESS" => taken
      BY <1>3 DEF StatusAfter
    <3> QED
      BY <1>0, <1>3, <3>1 DEF TypeOK
  <2>2. /\ verdict' = "FAILED" => seen[d] + 1 >= MaxRetries
        /\ verdict' = "PENDING" => seen[d] + 1 < MaxRetries
    BY <1>0, <1>3 DEF StatusAfter, TypeOK
  <2> QED
    BY <1>0, <1>1, <1>2, <1>4, <1>5, <2>1, <2>2 DEF WorkerShape
<1>9. AttemptsAreCounted'
  BY <1>0, <1>1, <1>2, <1>4 DEF AttemptsAreCounted, InHand, TypeOK
<1> QED
  BY <1>6, <1>7, <1>8, <1>9, IndInvByPart

\* The worker is done with one delivery, whatever became of its row.
LEMMA NextInBatchInv ==
  ASSUME IndInv, pc = "recording", NEW d \in Deliveries, d = Current, NextInBatch,
         UNCHANGED <<mgr, created, sender, webhookChan, posts, accepted>>,
         row' \in [Deliveries -> {"none", "PENDING"} \cup Settled],
         attempts' \in [Deliveries -> 0..MaxRetries], waiting' \in [Deliveries -> BOOLEAN],
         unrecorded' \in [Deliveries -> Nat], PendingIsDue(d)',
         row'[d] # "none" => posts[d] = attempts'[d] + unrecorded'[d],
         \A e \in Deliveries \ {d} :
           row'[e] = row[e] /\ attempts'[e] = attempts[e] /\ unrecorded'[e] = unrecorded[e]
  PROVE  IndInv'
<1>0. TypeOK /\ WorkerShape /\ AttemptsAreCounted /\ \A e \in Deliveries : Part(e)
  BY IndInvByPart
<1>1. d \in todo /\ sender[d] \in {"inserted", "done"} /\ mgr # "down"
  BY AtWork DEF Part, TodoShape
<1>2. /\ todo' = todo \ {d} /\ seen' = [seen EXCEPT ![d] = 0] /\ verdict' = "none"
      /\ pc' = IF todo' = {} THEN "idle" ELSE "posting"
  BY DEF NextInBatch
<1>3. TypeOK'
  <2>1. seen' \in [Deliveries -> 0..MaxRetries]
    BY <1>0, <1>2 DEF TypeOK
  <2>2. todo' \subseteq Deliveries /\ pc' \in {"idle", "posting", "recording", "exited"}
    BY <1>0, <1>2 DEF TypeOK
  <2> QED
    BY <1>0, <1>2, <2>1, <2>2 DEF TypeOK
<1>4. \A e \in Deliveries : Part(e)'
  <2>1. Part(d)'
    BY <1>1, <1>2 DEF Part, UnsentShape, TodoShape
  <2>2. ASSUME NEW e \in Deliveries \ {d} PROVE Part(e)'
    <3>1. Part(e) /\ seen'[e] = seen[e] /\ (e \in todo' <=> e \in todo)
      BY <1>0, <1>2
    <3>2. row'[e] = row[e] /\ attempts'[e] = attempts[e] /\ unrecorded'[e] = unrecorded[e]
      OBVIOUS
    <3> QED
      BY <3>1, <3>2 DEF Part, UnsentShape, TodoShape, PendingIsDue
  <2> QED
    BY <2>1, <2>2
<1>5. WorkerShape'
  BY <1>0, <1>1, <1>2 DEF WorkerShape
<1>6. AttemptsAreCounted'
  BY <1>0, <1>2 DEF AttemptsAreCounted, InHand
<1> QED
  BY <1>3, <1>4, <1>5, <1>6, IndInvByPart

LEMMA RecordInv ==
  ASSUME IndInv, Record
  PROVE  IndInv'
<1> USE DEF hist
<1>0. TypeOK /\ WorkerShape /\ AttemptsAreCounted /\ \A e \in Deliveries : Part(e)
  BY IndInvByPart
<1>1. PICK d \in Deliveries : d = Current /\ d \in todo
  BY AtWork DEF Record
<1>2. /\ pc = "recording" /\ NextInBatch
      /\ UNCHANGED <<mgr, created, sender, webhookChan, posts, accepted, unrecorded>>
      /\ verdict \in {"PENDING"} \cup Settled /\ seen[d] \in Nat /\ seen[d] + 1 \in 0..MaxRetries
      /\ verdict = "PENDING" => seen[d] + 1 < MaxRetries
      /\ row[d] # "none" => posts[d] = seen[d] + 1 + unrecorded[d]
  <2>1. row[d] # "none" => row[d] = "PENDING" /\ seen[d] = attempts[d]
    BY <1>0, <1>1 DEF Part, TodoShape
  <2>2. seen[d] < MaxRetries
    BY <1>0, <1>1 DEF Part, TodoShape
  <2> QED
    BY <1>0, <1>1, <2>1, <2>2 DEF Record, WorkerShape, AttemptsAreCounted, InHand, TypeOK
<1>3. CASE row[d] = "none"
  <2>1. UNCHANGED <<row, attempts, waiting>>
    BY <1>1, <1>3 DEF Record
  <2> QED
    BY <1>0, <1>1, <1>2, <1>3, <2>1, NextInBatchInv DEF PendingIsDue, TypeOK
<1>4. CASE row[d] # "none"
  <2>1. /\ row' = [row EXCEPT ![d] = verdict]
        /\ attempts' = [attempts EXCEPT ![d] = seen[d] + 1]
        /\ waiting' = [waiting EXCEPT ![d] = verdict = "PENDING"]
    BY <1>1, <1>4 DEF Record
  <2>2. /\ row' \in [Deliveries -> {"none", "PENDING"} \cup Settled]
        /\ attempts' \in [Deliveries -> 0..MaxRetries] /\ waiting' \in [Deliveries -> BOOLEAN]
    BY <1>0, <1>2, <2>1 DEF TypeOK
  <2>3. PendingIsDue(d)' /\ posts[d] = attempts'[d] + unrecorded'[d]
    BY <1>0, <1>2, <1>4, <2>1 DEF PendingIsDue, TypeOK
  <2>4. \A e \in Deliveries \ {d} :
          row'[e] = row[e] /\ attempts'[e] = attempts[e] /\ unrecorded'[e] = unrecorded[e]
    BY <1>0, <1>2, <2>1 DEF TypeOK
  <2> QED
    BY <1>0, <1>1, <1>2, <2>2, <2>3, <2>4, NextInBatchInv DEF TypeOK
<1> QED
  BY <1>3, <1>4

LEMMA RecordFailsInv ==
  ASSUME IndInv, RecordFails
  PROVE  IndInv'
<1> USE DEF db
<1>0. TypeOK /\ WorkerShape /\ AttemptsAreCounted /\ \A e \in Deliveries : Part(e)
  BY IndInvByPart
<1>1. PICK d \in Deliveries : d = Current /\ d \in todo
  BY AtWork DEF RecordFails
<1>2. /\ pc = "recording" /\ NextInBatch
      /\ UNCHANGED <<mgr, row, attempts, waiting, created, sender, webhookChan, posts, accepted>>
      /\ unrecorded' = [unrecorded EXCEPT ![d] = @ + 1]
  BY <1>1 DEF RecordFails
<1>3. /\ unrecorded' \in [Deliveries -> Nat] /\ unrecorded'[d] = unrecorded[d] + 1
      /\ \A e \in Deliveries \ {d} : unrecorded'[e] = unrecorded[e]
  BY <1>0, <1>2 DEF TypeOK
<1>4. PendingIsDue(d)'
  BY <1>0, <1>2 DEF Part, PendingIsDue
<1>5. row'[d] # "none" => posts[d] = attempts'[d] + unrecorded'[d]
  BY <1>0, <1>1, <1>2, <1>3 DEF AttemptsAreCounted, InHand, TypeOK
<1> QED
  BY <1>0, <1>1, <1>2, <1>3, <1>4, <1>5, NextInBatchInv DEF TypeOK

-----------------------------------------------------------------------------
(* The process                                                             *)

LEMMA ProcessInv ==
  ASSUME IndInv, Stop \/ ProcessExits \/ Crash \/ Restart
  PROVE  IndInv'
<1> USE DEF worker, hist, db
<1>0. TypeOK /\ WorkerShape /\ AttemptsAreCounted /\ \A e \in Deliveries : Part(e)
  BY IndInvByPart
<1>1. CASE Stop \/ Restart
  <2>1. /\ UNCHANGED <<row, attempts, waiting, created, sender, webhookChan, todo, seen, verdict, hist>>
        /\ mgr' \in {"up", "stopping"} /\ Current' = Current
        /\ pc' = pc \/ (pc = "exited" /\ pc' = "idle")
    BY <1>0, <1>1, SameCurrent DEF Stop, Restart, WorkerShape
  <2>2. TypeOK' /\ WorkerShape'
    BY <1>0, <2>1 DEF TypeOK, WorkerShape
  <2>3. \A e \in Deliveries : Part(e)'
    BY <1>0, <2>1 DEF Part, UnsentShape, TodoShape, PendingIsDue
  <2>4. AttemptsAreCounted'
    BY <1>0, <2>1 DEF AttemptsAreCounted, InHand
  <2> QED
    BY <2>2, <2>3, <2>4, IndInvByPart
<1>2. CASE /\ ProcessEnds /\ unrecorded' \in [Deliveries -> Nat]
           /\ \A d \in Deliveries : unrecorded'[d] = unrecorded[d] + InHand(d)
  <2>0. TypeOK'
    <3>1. sender' \in [Deliveries -> {"new", "inserted", "done", "failed"}]
      BY <1>0, <1>2 DEF ProcessEnds, TypeOK
    <3>2. seen' \in [Deliveries -> 0..MaxRetries]
      BY <1>2 DEF ProcessEnds
    <3>3. webhookChan' \in Seq(Deliveries)
      BY <1>2 DEF ProcessEnds
    <3>4. /\ mgr' = "down" /\ pc' = "exited" /\ todo' = {} /\ verdict' = "none"
          /\ UNCHANGED <<row, attempts, waiting, created, posts, accepted>>
      BY <1>2 DEF ProcessEnds
    <3> QED
      BY <1>0, <1>2, <3>1, <3>2, <3>3, <3>4 DEF TypeOK
  <2>1. WorkerShape'
    BY <1>0, <1>2 DEF ProcessEnds, WorkerShape
  <2>2. \A e \in Deliveries : Part(e)'
    <3> SUFFICES ASSUME NEW e \in Deliveries PROVE Part(e)'
      OBVIOUS
    <3>1. /\ sender'[e] \in {"new", "failed"} => sender[e] \in {"new", "failed"} /\ e \notin todo
          /\ e \notin todo' /\ UNCHANGED <<row, attempts, posts, accepted>>
      BY <1>0, <1>2 DEF ProcessEnds, Part, TodoShape
    <3>2. InHand(e) = 0 \/ e \in todo
      BY AtWork DEF InHand
    <3>3. e \notin todo => unrecorded'[e] = unrecorded[e]
      BY <1>0, <1>2, <3>2 DEF TypeOK
    <3> QED
      BY <1>0, <3>1, <3>3 DEF Part, UnsentShape, TodoShape, PendingIsDue
  <2>3. AttemptsAreCounted'
    BY <1>0, <1>2 DEF ProcessEnds, AttemptsAreCounted, InHand, TypeOK
  <2> QED
    BY <2>0, <2>1, <2>2, <2>3, IndInvByPart
<1>3. CASE ProcessExits
  <2>1. \A d \in Deliveries : unrecorded'[d] = unrecorded[d] + InHand(d)
    BY <1>0, <1>3 DEF ProcessExits, InHand, TypeOK
  <2> QED
    BY <1>0, <1>2, <1>3, <2>1 DEF ProcessExits, TypeOK
<1>4. CASE Crash
  <2>1. pc = "recording" => Current \in Deliveries
    BY AtWork
  <2>2. /\ \A d \in Deliveries : unrecorded'[d] = unrecorded[d] + InHand(d)
        /\ unrecorded' \in [Deliveries -> Nat]
    <3>1. CASE pc = "recording"
      <4>1. unrecorded' = [unrecorded EXCEPT ![Current] = @ + 1]
        BY <1>4, <3>1 DEF Crash
      <4> QED
        BY <1>0, <2>1, <3>1, <4>1 DEF InHand, TypeOK
    <3>2. CASE pc # "recording"
      BY <1>0, <1>4, <3>2 DEF Crash, InHand, TypeOK
    <3> QED
      BY <3>1, <3>2
  <2> QED
    BY <1>2, <1>4, <2>2 DEF Crash
<1> QED
  BY <1>1, <1>3, <1>4

LEMMA StepInv == IndInv /\ [Next]_vars => IndInv'
<1> SUFFICES ASSUME IndInv, [Next]_vars PROVE IndInv'
  OBVIOUS
<1>1. CASE UNCHANGED vars
  <2> USE <1>1 DEF vars, db, worker, hist
  <2>1. Current' = Current
    BY SameCurrent
  <2>2. TypeOK' /\ WorkerShape'
    BY <2>1 DEF IndInv, TypeOK, WorkerShape
  <2>3. AttemptsAreCounted' /\ \A d \in Deliveries : Part(d)'
    BY <2>1 DEF IndInv, AttemptsAreCounted, InHand, Part, UnsentShape, TodoShape, PendingIsDue
  <2> QED
    BY <2>2, <2>3, IndInvByPart
<1> QED
  BY <1>1, InsertInv, SenderInv, ReadInv, PostInv, RecordInv, RecordFailsInv, ProcessInv
     DEF Next, WorkerStep

\* The whole of what is known of a reachable state.
THEOREM InvariantHolds == Spec => []IndInv
BY InitInv, StepInv, PTL DEF Spec

\* The type invariant, and with it the limit on the attempts a row can have.
THEOREM TypeOKHolds == Spec => []TypeOK
<1>1. IndInv => TypeOK
  BY DEF IndInv
<1> QED
  BY <1>1, InvariantHolds, PTL

\* No request is forgotten: the row counts it, or its outcome could not be
\* stored, or it is the one at work.
THEOREM EveryRequestIsCounted == Spec => []AttemptsAreCounted
<1>1. IndInv => AttemptsAreCounted
  BY DEF IndInv
<1> QED
  BY <1>1, InvariantHolds, PTL

\* A delivery is sent at most MaxRetries times, and once more for each outcome
\* that could not be stored.
SentAtMost ==
  \A d \in Deliveries :
    row[d] # "none" => posts[d] <= MaxRetries + unrecorded[d]

\* Without a failing store the receiver hears of a delivery at most
\* maxWebhookRetries times: the limit is on requests, not only on rows.
THEOREM RequestsAreBounded == Spec => []SentAtMost
<1>1. IndInv => SentAtMost
  <2> SUFFICES ASSUME IndInv, NEW d \in Deliveries, row[d] # "none"
               PROVE  posts[d] <= MaxRetries + unrecorded[d]
    BY DEF SentAtMost
  <2>1. /\ posts[d] = attempts[d] + unrecorded[d] + InHand(d)
        /\ attempts[d] \in 0..MaxRetries /\ unrecorded[d] \in Nat
    BY DEF IndInv, AttemptsAreCounted, TypeOK
  <2>2. InHand(d) = 0 \/ (InHand(d) = 1 /\ attempts[d] < MaxRetries)
    BY AtWork DEF InHand, Part, TodoShape, PendingIsDue
  <2> QED
    BY <2>1, <2>2
<1> QED
  BY <1>1, InvariantHolds, PTL

-----------------------------------------------------------------------------
(* The deliveries refine Notifications                                     *)

LEMMA Outcomes ==
  ASSUME TypeOK, NEW d \in Deliveries
  PROVE  /\ row[d] = "PENDING" => Outcome(d) = "pending"
         /\ row[d] = "SUCCESS" => Outcome(d) = "delivered"
         /\ row[d] = "FAILED" => Outcome(d) = "abandoned"
         /\ row[d] = "none" =>
              Outcome(d) = IF sender[d] \in {"new", "failed"} THEN "none" ELSE "removed"
BY DEF Outcome, TypeOK

\* The same of the state after a step.
LEMMA OutcomesNext ==
  ASSUME TypeOK', NEW d \in Deliveries
  PROVE  /\ row'[d] = "PENDING" => Outcome(d)' = "pending"
         /\ row'[d] = "SUCCESS" => Outcome(d)' = "delivered"
         /\ row'[d] = "FAILED" => Outcome(d)' = "abandoned"
         /\ row'[d] = "none" =>
              Outcome(d)' = IF sender'[d] \in {"new", "failed"} THEN "none" ELSE "removed"
BY DEF Outcome, TypeOK

LEMMA OutcomeSame ==
  ASSUME NEW d \in Deliveries, row'[d] = row[d],
         sender'[d] \in {"new", "failed"} <=> sender[d] \in {"new", "failed"}
  PROVE  Outcome(d)' = Outcome(d)
BY DEF Outcome

\* A step that leaves every outcome alone and sends nothing.
LEMMA NothingTold ==
  ASSUME UNCHANGED <<posts, accepted>>,
         \A d \in Deliveries : Outcome(d)' = Outcome(d)
  PROVE  UNCHANGED NotificationsView!told
BY DEF NotificationsView!told

\* The outcome of one delivery changes.
LEMMA OneBecomes ==
  ASSUME NEW d \in Deliveries, UNCHANGED <<posts, accepted>>, NEW o, Outcome(d)' = o,
         \A e \in Deliveries \ {d} : Outcome(e)' = Outcome(e)
  PROVE  NotificationsView!Becomes(d, o)
BY DEF NotificationsView!Becomes

LEMMA PostIsSend ==
  ASSUME IndInv, Post
  PROVE  NotificationsView!Next
<1> USE DEF db
<1>0. TypeOK
  BY DEF IndInv
<1>1. PICK d \in Deliveries : d = Current /\ d \in todo
  BY AtWork DEF Post
<1>2. /\ posts' = [posts EXCEPT ![d] = @ + 1] /\ UNCHANGED <<row, sender>>
      /\ \E taken \in BOOLEAN : accepted' = [accepted EXCEPT ![d] = @ \/ taken]
  BY <1>1 DEF Post
<1>3. sender[d] \in {"inserted", "done"} /\ row[d] \in {"PENDING", "none"}
  BY <1>1 DEF IndInv, TodoShape
<1>4. Outcome(d) \in {"pending", "removed"}
  BY <1>0, <1>3, Outcomes
<1>5. \A e \in Deliveries : Outcome(e)' = Outcome(e)
  BY <1>2, OutcomeSame
<1>6. NotificationsView!Send(d)
  BY <1>2, <1>4, <1>5 DEF NotificationsView!Send
<1> QED
  BY <1>6 DEF NotificationsView!Next

LEMMA RecordTells ==
  ASSUME IndInv, IndInv', Record
  PROVE  [NotificationsView!Next]_(NotificationsView!told)
<1> USE DEF hist
<1>0. TypeOK /\ TypeOK'
  BY DEF IndInv
<1>1. PICK d \in Deliveries : d = Current /\ d \in todo
  BY AtWork DEF Record
<1>2. UNCHANGED <<sender, posts, accepted>>
  BY DEF Record
<1>3. CASE row[d] = "none"
  <2>1. \A e \in Deliveries : Outcome(e)' = Outcome(e)
    BY <1>1, <1>2, <1>3, OutcomeSame DEF Record
  <2> QED
    BY <1>2, <2>1, NothingTold
<1>4. CASE row[d] # "none"
  <2>1. /\ row[d] = "PENDING" /\ seen[d] = attempts[d] /\ posts[d] >= seen[d] + 1
        /\ Outcome(d) = "pending"
    <3>1. row[d] = "PENDING" /\ seen[d] = attempts[d]
      BY <1>1, <1>4 DEF IndInv, TodoShape
    <3>2. posts[d] = attempts[d] + unrecorded[d] + 1
      BY <1>1, <1>4 DEF Record, IndInv, AttemptsAreCounted, InHand
    <3>3. attempts[d] \in Nat /\ unrecorded[d] \in Nat
      BY <1>0 DEF TypeOK
    <3>4. posts[d] >= seen[d] + 1
      BY <3>1, <3>2, <3>3
    <3>5. Outcome(d) = "pending"
      BY <1>0, <3>1, Outcomes
    <3> QED
      BY <3>1, <3>4, <3>5
  <2>2. row' = [row EXCEPT ![d] = verdict] /\ pc = "recording"
    BY <1>1, <1>4 DEF Record
  <2>3. row'[d] = verdict /\ \A e \in Deliveries \ {d} : Outcome(e)' = Outcome(e)
    BY <1>0, <1>2, <2>2, OutcomeSame DEF TypeOK
  <2>4. /\ verdict \in {"PENDING", "SUCCESS", "FAILED"}
        /\ verdict = "SUCCESS" => accepted[d]
        /\ verdict = "FAILED" => posts[d] >= MaxRetries
    <3>1. /\ verdict \in {"PENDING", "SUCCESS", "FAILED"}
          /\ verdict = "SUCCESS" => accepted[d]
          /\ verdict = "FAILED" => seen[d] + 1 >= MaxRetries
      BY <1>0, <1>1, <2>2 DEF IndInv, WorkerShape, TypeOK, Settled
    <3>2. posts[d] \in Nat /\ seen[d] \in Nat
      BY <1>0 DEF TypeOK
    <3> QED
      BY <2>1, <3>1, <3>2
  <2>5. CASE verdict = "PENDING"
    <3>1. Outcome(d)' = Outcome(d)
      BY <1>2, <2>1, <2>3, <2>5, OutcomeSame
    <3> QED
      BY <1>2, <2>3, <3>1, NothingTold
  <2>6. CASE verdict = "SUCCESS"
    <3>1. NotificationsView!Becomes(d, "delivered")
      BY <1>0, <1>2, <2>3, <2>6, OutcomesNext, OneBecomes
    <3>2. NotificationsView!Deliver(d)
      BY <2>1, <2>4, <2>6, <3>1 DEF NotificationsView!Deliver
    <3> QED
      BY <3>2 DEF NotificationsView!Next
  <2>7. CASE verdict = "FAILED"
    <3>1. NotificationsView!Becomes(d, "abandoned")
      BY <1>0, <1>2, <2>3, <2>7, OutcomesNext, OneBecomes
    <3>2. NotificationsView!Abandon(d)
      BY <2>1, <2>4, <2>7, <3>1 DEF NotificationsView!Abandon
    <3> QED
      BY <3>2 DEF NotificationsView!Next
  <2> QED
    BY <2>4, <2>5, <2>6, <2>7
<1> QED
  BY <1>3, <1>4

LEMMA RowComesOrGoes ==
  ASSUME IndInv, IndInv', NEW d \in Deliveries, Insert(d) \/ DeleteRow(d)
  PROVE  NotificationsView!Next
<1> USE DEF hist, worker
<1>0. TypeOK /\ TypeOK' /\ UnsentShape(d)
  BY DEF IndInv
<1>1. CASE Insert(d)
  <2>1. /\ row'[d] = "PENDING" /\ row[d] = "none" /\ sender[d] = "new"
        /\ \A e \in Deliveries \ {d} : row'[e] = row[e] /\ sender'[e] = sender[e]
    BY <1>0, <1>1 DEF Insert, UnsentShape, TypeOK
  <2>2. \A e \in Deliveries \ {d} : Outcome(e)' = Outcome(e)
    BY <2>1, OutcomeSame
  <2>3. Outcome(d) = "none" /\ Outcome(d)' = "pending"
    BY <1>0, <2>1, Outcomes, OutcomesNext
  <2>4. NotificationsView!Announce(d)
    BY <1>1, <2>2, <2>3, OneBecomes DEF Insert, NotificationsView!Announce
  <2> QED
    BY <2>4 DEF NotificationsView!Next
<1>2. CASE DeleteRow(d)
  <2>1. /\ row'[d] = "none" /\ row[d] \in {"PENDING", "SUCCESS", "FAILED"}
        /\ sender[d] \notin {"new", "failed"} /\ sender' = sender
        /\ \A e \in Deliveries \ {d} : row'[e] = row[e]
    BY <1>0, <1>2 DEF DeleteRow, UnsentShape, TypeOK, Settled
  <2>2. \A e \in Deliveries \ {d} : Outcome(e)' = Outcome(e)
    BY <2>1, OutcomeSame
  <2>3. Outcome(d) \notin {"none", "removed"} /\ Outcome(d)' = "removed"
    BY <1>0, <2>1, Outcomes, OutcomesNext
  <2>4. NotificationsView!Remove(d)
    BY <1>2, <2>2, <2>3, OneBecomes DEF DeleteRow, NotificationsView!Remove
  <2> QED
    BY <2>4 DEF NotificationsView!Next
<1> QED
  BY <1>1, <1>2

\* The rest of the steps tell nothing.
LEMMA QuietSteps ==
  ASSUME IndInv,
         \/ \E d \in Deliveries : InsertFails(d) \/ Notify(d) \/ BackoffElapses(d)
         \/ Sweep \/ Receive \/ RecordFails \/ WorkerExit
         \/ Stop \/ ProcessExits \/ Crash \/ Restart \/ UNCHANGED vars
  PROVE  UNCHANGED NotificationsView!told
<1> USE DEF db, hist, worker
<1>0. TypeOK
  BY DEF IndInv
<1>1. UNCHANGED <<row, posts, accepted>>
  BY DEF InsertFails, Notify, BackoffElapses, Sweep, Receive, RecordFails, WorkerExit,
     Stop, ProcessExits, Crash, Restart, ProcessEnds, vars
<1>2. \A d \in Deliveries : sender'[d] \in {"new", "failed"} <=> sender[d] \in {"new", "failed"}
  <2>1. CASE UNCHANGED sender
    BY <2>1
  <2>2. CASE ProcessEnds
    BY <2>2 DEF ProcessEnds
  <2>3. CASE \E d \in Deliveries : InsertFails(d) \/ Notify(d)
    BY <1>0, <2>3 DEF InsertFails, Notify, TypeOK
  <2> QED
    BY <2>1, <2>2, <2>3 DEF BackoffElapses, Sweep, Receive, RecordFails, WorkerExit,
       Stop, ProcessExits, Crash, Restart, vars
<1>3. \A d \in Deliveries : Outcome(d)' = Outcome(d)
  BY <1>1, <1>2, OutcomeSame
<1> QED
  BY <1>1, <1>3, NothingTold

\* The store tells the truth about deliveries: the worker, the sweep, the
\* channel and the process together implement Notifications.
THEOREM StoreImplementsNotifications == Spec => StoreTellsTheTruth
<1>1. Init => NotificationsView!Init
  <2> SUFFICES ASSUME Init PROVE NotificationsView!Init
    OBVIOUS
  <2>1. TypeOK
    BY InitInv DEF IndInv
  <2>2. \A d \in Deliveries : Outcome(d) = "none"
    BY <2>1, Outcomes DEF Init
  <2> QED
    BY <2>2 DEF Init, NotificationsView!Init
<1>2. IndInv /\ IndInv' /\ [Next]_vars => [NotificationsView!Next]_(NotificationsView!told)
  BY PostIsSend, RecordTells, RowComesOrGoes, QuietSteps DEF Next, WorkerStep
<1> QED
  BY <1>1, <1>2, InvariantHolds, PTL DEF Spec, StoreTellsTheTruth, NotificationsView!Spec
=============================================================================
