--------------------------- MODULE SchedulerProofs ---------------------------
(***************************************************************************)
(* Schedules do not pile up, keep their interval and stop when they are    *)
(* told to: for any schedules, intervals and batch, whatever is switched,  *)
(* deleted, refused or restarted meanwhile.                                *)
(***************************************************************************)
EXTENDS Scheduler, TLAPS

USE SchedulesAssumption, TimeAssumption

\* What IndInv says of one schedule.
Part(s) == StillDue(s) /\ WaitShape(s) /\ LateShape(s)

\* What it says beside.
Rest == TypeOK /\ PassShape /\ SubmitShape /\ NoPileUp /\ OffMeansOff

LEMMA IndInvByPart ==
  /\ IndInv <=> Rest /\ \A s \in Schedules : Part(s)
  /\ IndInv' <=> Rest' /\ \A s \in Schedules : Part(s)'
BY DEF IndInv, Part, Rest

LEMMA Times ==
  /\ MaxLag \in Nat /\ MaxPass \in Nat
  /\ \A s \in Schedules : Interval[s] \in Nat /\ Interval[s] > 0 /\ MaxPass <= Interval[s] + MaxLag
OBVIOUS

LEMMA InitInv == Init => IndInv
<1> SUFFICES ASSUME Init PROVE IndInv
  OBVIOUS
<1>1. Rest
  BY DEF Init, Rest, TypeOK, PassShape, SubmitShape, NoPileUp, OffMeansOff
<1>2. \A s \in Schedules : Part(s)
  BY DEF Init, Part, StillDue, InPass, WaitShape, LateShape
<1> QED
  BY <1>1, <1>2, IndInvByPart

-----------------------------------------------------------------------------
(* The schedules API                                                       *)

LEMMA ApiInv ==
  ASSUME IndInv, NEW s \in Schedules, CreateSchedule(s) \/ SetEnabled(s) \/ DeleteSchedule(s)
  PROVE  IndInv'
<1> USE DEF jobs, pass, hist
<1>0. Rest /\ \A t \in Schedules : Part(t)
  BY IndInvByPart
<1>1. TypeOK'
  <2>1. CASE CreateSchedule(s)
    BY <1>0, <2>1, Times DEF CreateSchedule, Rest, TypeOK
  <2>2. CASE SetEnabled(s)
    BY <1>0, <2>2 DEF SetEnabled, Rest, TypeOK
  <2>3. CASE DeleteSchedule(s)
    BY <1>0, <2>3 DEF DeleteSchedule, Rest, TypeOK
  <2> QED
    BY <2>1, <2>2, <2>3
<1>2. PassShape' /\ SubmitShape' /\ NoPileUp' /\ OffMeansOff'
  BY <1>0 DEF CreateSchedule, SetEnabled, DeleteSchedule, Rest, TypeOK, PassShape,
     SubmitShape, NoPileUp, OffMeansOff
<1>3. \A t \in Schedules \ {s} : /\ row'[t] = row[t] /\ wait'[t] = wait[t] /\ late'[t] = late[t]
  BY <1>0 DEF CreateSchedule, SetEnabled, DeleteSchedule, Rest, TypeOK
<1>4. UNCHANGED <<pc, due, cur, since>>
  BY DEF CreateSchedule, SetEnabled, DeleteSchedule
<1>5. \A t \in Schedules \ {s} : Part(t)'
  BY <1>0, <1>3, <1>4 DEF Part, StillDue, InPass, WaitShape, LateShape
<1>6. Part(s)'
  <2>1. CASE CreateSchedule(s)
    BY <1>0, <2>1 DEF CreateSchedule, Rest, TypeOK, Part, StillDue, InPass, WaitShape, LateShape
  <2>2. CASE SetEnabled(s)
    BY <1>0, <2>2 DEF SetEnabled, Rest, TypeOK, Part, StillDue, InPass, WaitShape, LateShape
  <2>3. CASE DeleteSchedule(s)
    BY <1>0, <2>3 DEF DeleteSchedule, Rest, TypeOK, Part, StillDue, InPass, WaitShape, LateShape
  <2> QED
    BY <2>1, <2>2, <2>3
<1> QED
  BY <1>0, <1>1, <1>2, <1>5, <1>6, IndInvByPart DEF Rest

-----------------------------------------------------------------------------
(* runDueSchedules                                                         *)

LEMMA GoOnGoes ==
  ASSUME NEW rest \in SUBSET Schedules, GoOn(rest)
  PROVE  /\ cur' \in Schedules \cup {NoSchedule} /\ due' \subseteq Schedules /\ cur' \notin due'
         /\ \A s \in Schedules : s \in due' \/ cur' = s => s \in rest
         /\ \/ pc' = "idle" /\ cur' = NoSchedule /\ due' = {} /\ age' = 0
            \/ pc' = "count" /\ cur' \in Schedules /\ age' = age
BY DEF GoOn

\* The pass goes on to what is left of it, all of it still due.
LEMMA PassGoesOn ==
  ASSUME IndInv, mgr # "down", NEW rest \in SUBSET Schedules, GoOn(rest),
         UNCHANGED <<mgr, row, late, pending, running, stuck>>,
         since' \in [Schedules -> Nat], wait' \in [Schedules -> Int],
         \A s \in Schedules : -MaxLag <= wait'[s] /\ wait'[s] <= Interval[s],
         \A s \in Schedules : WaitShape(s)',
         \A s \in rest : row[s] # "none" /\ since'[s] >= Interval[s] /\ late[s] = 0
  PROVE  IndInv'
<1>0. Rest /\ \A t \in Schedules : Part(t)
  BY IndInvByPart
<1>1. /\ cur' \in Schedules \cup {NoSchedule} /\ due' \subseteq Schedules /\ cur' \notin due'
      /\ \A s \in Schedules : s \in due' \/ cur' = s => s \in rest
      /\ \/ pc' = "idle" /\ cur' = NoSchedule /\ due' = {} /\ age' = 0
         \/ pc' = "count" /\ cur' \in Schedules /\ age' = age
  BY GoOnGoes
<1>2. TypeOK'
  BY <1>0, <1>1 DEF Rest, TypeOK
<1>3. PassShape' /\ SubmitShape'
  BY <1>0, <1>1 DEF Rest, PassShape, SubmitShape
<1>4. NoPileUp' /\ OffMeansOff'
  BY <1>0 DEF Rest, NoPileUp, OffMeansOff
<1>5. \A s \in Schedules : StillDue(s)' /\ LateShape(s)'
  BY <1>0, <1>1 DEF Part, StillDue, InPass, LateShape
<1> QED
  BY <1>2, <1>3, <1>4, <1>5, IndInvByPart DEF Rest, Part

LEMMA TickInv ==
  ASSUME IndInv, Tick
  PROVE  IndInv'
<1> USE DEF db, jobs, hist
<1>0. Rest /\ \A t \in Schedules : Part(t)
  BY IndInvByPart
<1>1. PICK batch \in SUBSET Due : GoOn(batch)
  BY DEF Tick
<1>2. \A s \in batch : s \in Schedules /\ row[s] = "on" /\ wait[s] <= 0
  BY DEF Due
<1>3. \A s \in batch : since[s] >= Interval[s] /\ late[s] = 0
  BY <1>0, <1>2, Times DEF Rest, TypeOK, Part, WaitShape, LateShape
<1>4. \A s \in Schedules : WaitShape(s)'
  BY <1>0 DEF Tick, Part, WaitShape
<1> QED
  BY <1>0, <1>1, <1>2, <1>3, <1>4, PassGoesOn DEF Tick, Rest, TypeOK

\* The schedule the pass is at, and what is left of the pass.
LEMMA AtSchedule ==
  ASSUME IndInv, pc \notin {"idle", "exited"}
  PROVE  /\ cur \in Schedules /\ due \in SUBSET Schedules /\ cur \notin due /\ mgr # "down"
         /\ Part(cur) /\ row[cur] # "none" /\ age \in Nat /\ age <= MaxPass
         /\ \A s \in due : /\ row[s] # "none" /\ since[s] >= Interval[s] /\ late[s] = 0
BY IndInvByPart, Times DEF Rest, TypeOK, PassShape, Part, StillDue, InPass

\* The schedule is left as it is.
LEMMA FailInv ==
  ASSUME IndInv, CountFails \/ MarkFails
  PROVE  IndInv'
<1> USE DEF db, jobs, hist
<1>0. Rest /\ \A t \in Schedules : Part(t)
  BY IndInvByPart
<1>1. /\ GoOn(due) /\ pc \notin {"idle", "exited"}
      /\ UNCHANGED <<mgr, row, wait, since, late, pending, running, stuck>>
  BY DEF CountFails, MarkFails
<1>2. \A s \in Schedules : WaitShape(s)'
  BY <1>0, <1>1 DEF Part, WaitShape
<1> QED
  BY <1>0, <1>1, <1>2, AtSchedule, PassGoesOn DEF Rest, TypeOK

LEMMA MarkInv ==
  ASSUME IndInv, Mark
  PROVE  IndInv'
<1> USE DEF db, jobs, hist
<1>0. Rest /\ \A t \in Schedules : Part(t)
  BY IndInvByPart
<1>1. /\ GoOn(due) /\ pc \in {"mark", "submitted"}
      /\ UNCHANGED <<mgr, row, late, pending, running, stuck>>
  BY DEF Mark
<1>2. PICK s \in Schedules : s = cur
  BY <1>1, AtSchedule
<1>3. /\ row[s] # "none" /\ s \notin due /\ age \in Nat /\ age <= MaxPass
      /\ \A t \in due : row[t] # "none" /\ since[t] >= Interval[t] /\ late[t] = 0
      /\ mgr # "down" /\ due \in SUBSET Schedules
      /\ pc = "mark" => since[s] >= Interval[s]
  BY <1>1, <1>2, AtSchedule DEF Part, StillDue, InPass
<1>4. /\ wait' = [wait EXCEPT ![s] = IF row[s] = "deleted" THEN @ ELSE Interval[s] - age]
      /\ since' = [since EXCEPT ![s] = IF pc = "submitted" THEN age ELSE @]
  BY <1>2 DEF Mark, NextRun
<1>5. /\ wait' \in [Schedules -> Int] /\ since' \in [Schedules -> Nat]
      /\ \A t \in Schedules \ {s} : wait'[t] = wait[t] /\ since'[t] = since[t]
      /\ wait'[s] = IF row[s] = "deleted" THEN wait[s] ELSE Interval[s] - age
      /\ since'[s] = IF pc = "submitted" THEN age ELSE since[s]
  BY <1>0, <1>3, <1>4, Times DEF Rest, TypeOK
<1>6. \A t \in Schedules : -MaxLag <= wait'[t] /\ wait'[t] <= Interval[t]
  <2>1. -MaxLag <= wait'[s] /\ wait'[s] <= Interval[s]
    BY <1>0, <1>3, <1>5, Times DEF Rest, TypeOK
  <2> QED
    BY <1>0, <1>5, <2>1 DEF Rest, TypeOK
<1>7. \A t \in Schedules : WaitShape(t)'
  <2>1. WaitShape(s)'
    BY <1>1, <1>3, <1>5, Times DEF WaitShape
  <2>2. \A t \in Schedules \ {s} : WaitShape(t)'
    BY <1>0, <1>1, <1>5 DEF Part, WaitShape
  <2> QED
    BY <2>1, <2>2
<1>8. \A t \in due : since'[t] >= Interval[t]
  BY <1>3, <1>5
<1> QED
  BY <1>1, <1>3, <1>5, <1>6, <1>7, <1>8, PassGoesOn

LEMMA CountInv ==
  ASSUME IndInv, Count
  PROVE  IndInv'
<1> USE DEF db, jobs, hist
<1>0. Rest /\ \A t \in Schedules : Part(t)
  BY IndInvByPart
<1>1. /\ pc = "count" /\ pc' = IF pending[cur] + running[cur] > 0 THEN "mark" ELSE "submit"
      /\ UNCHANGED <<mgr, row, wait, since, late, pending, running, stuck, due, cur, age>>
  BY DEF Count, Active
<1>2. cur \in Schedules /\ cur # NoSchedule /\ mgr # "down"
  BY <1>1, AtSchedule
<1>3. TypeOK' /\ PassShape' /\ NoPileUp' /\ OffMeansOff'
  BY <1>0, <1>1, <1>2 DEF Rest, TypeOK, PassShape, NoPileUp, OffMeansOff
<1>4. SubmitShape'
  BY <1>0, <1>1, <1>2 DEF Rest, TypeOK, SubmitShape
<1>5. \A t \in Schedules : Part(t)'
  BY <1>0, <1>1 DEF Part, StillDue, InPass, WaitShape, LateShape
<1> QED
  BY <1>3, <1>4, <1>5, IndInvByPart DEF Rest

LEMMA SubmitInv ==
  ASSUME IndInv, Submit \/ SubmitFails
  PROVE  IndInv'
<1> USE DEF db, jobs, hist
<1>0. Rest /\ \A t \in Schedules : Part(t)
  BY IndInvByPart
<1>1. PICK s \in Schedules : s = cur /\ pc = "submit"
  BY AtSchedule DEF Submit, SubmitFails
<1>2. /\ row[s] # "none" /\ s \notin due /\ mgr # "down" /\ s # NoSchedule
      /\ pending[s] = 0 /\ running[s] = 0 /\ late[s] = 0 /\ since[s] >= Interval[s]
  BY <1>0, <1>1, AtSchedule DEF Rest, SubmitShape, Part, StillDue, InPass
<1>3. /\ UNCHANGED <<mgr, row, wait, since, running, due, cur, age>>
      /\ pending' = pending \/ pending' = [pending EXCEPT ![s] = @ + 1]
      /\ stuck' = stuck \/ stuck' = stuck \cup {s}
      /\ \/ pc' = "submitted" /\ late' = [late EXCEPT ![s] = IF row[s] = "on" THEN 0 ELSE @ + 1]
         \/ pc' = "mark" /\ late' = late
  BY <1>1 DEF Submit, SubmitFails
<1>4. /\ pending' \in [Schedules -> Nat] /\ late' \in [Schedules -> Nat]
      /\ pending'[s] \in {0, 1} /\ late'[s] \in {0, 1} /\ (row[s] = "on" => late'[s] = 0)
      /\ \A t \in Schedules \ {s} : pending'[t] = pending[t] /\ late'[t] = late[t]
  BY <1>0, <1>2, <1>3 DEF Rest, TypeOK
<1>5. TypeOK'
  BY <1>0, <1>3, <1>4 DEF Rest, TypeOK
<1>6. PassShape' /\ SubmitShape'
  BY <1>0, <1>1, <1>2, <1>3 DEF Rest, PassShape, SubmitShape
<1>7. NoPileUp' /\ OffMeansOff'
  BY <1>0, <1>2, <1>3, <1>4 DEF Rest, NoPileUp, OffMeansOff
<1>8. \A t \in Schedules : Part(t)'
  <2>1. Part(s)'
    BY <1>0, <1>1, <1>2, <1>3, <1>4 DEF Part, StillDue, InPass, WaitShape, LateShape
  <2>2. \A t \in Schedules \ {s} : Part(t)'
    BY <1>0, <1>1, <1>3, <1>4 DEF Part, StillDue, InPass, WaitShape, LateShape
  <2> QED
    BY <2>1, <2>2
<1> QED
  BY <1>5, <1>6, <1>7, <1>8, IndInvByPart DEF Rest

LEMMA ExitInv ==
  ASSUME IndInv, SchedulerExit
  PROVE  IndInv'
<1> USE DEF db, jobs, hist
<1>0. Rest /\ \A t \in Schedules : Part(t)
  BY IndInvByPart
<1>1. /\ pc = "idle" /\ pc' = "exited" /\ cur = NoSchedule
      /\ UNCHANGED <<mgr, row, wait, since, late, pending, running, stuck, due, cur, age>>
  BY <1>0 DEF SchedulerExit, Rest, PassShape
<1>2. Rest'
  BY <1>0, <1>1 DEF Rest, TypeOK, PassShape, SubmitShape, NoPileUp, OffMeansOff
<1>3. \A t \in Schedules : Part(t)'
  BY <1>0, <1>1 DEF Part, StillDue, InPass, WaitShape, LateShape
<1> QED
  BY <1>2, <1>3, IndInvByPart

-----------------------------------------------------------------------------
(* Jobs, time and the process                                              *)

\* A job of s that starts, ends or goes leaves no more open rows than there were.
LEMMA JobInv ==
  ASSUME IndInv, NEW s \in Schedules, JobStarts(s) \/ JobEnds(s) \/ JobDeleted(s)
  PROVE  IndInv'
<1> USE DEF db, pass, hist
<1>0. Rest /\ \A t \in Schedules : Part(t)
  BY IndInvByPart
<1>1. UNCHANGED <<mgr, row, wait, since, late, pc, due, cur, age>>
  BY DEF JobStarts, JobEnds, JobDeleted
<1>2. stuck' \subseteq Schedules
  BY <1>0 DEF JobStarts, JobEnds, JobDeleted, LeftOpen, Rest, TypeOK
<1>3. /\ pending' \in [Schedules -> Nat] /\ running' \in [Schedules -> Nat]
      /\ pending'[s] + running'[s] <= pending[s] + running[s]
      /\ pending[s] > 0 \/ running[s] > 0
      /\ \A t \in Schedules \ {s} : pending'[t] = pending[t] /\ running'[t] = running[t]
  <2>0. pending \in [Schedules -> Nat] /\ running \in [Schedules -> Nat]
    BY <1>0 DEF Rest, TypeOK
  <2>1. CASE JobStarts(s)
    BY <2>0, <2>1 DEF JobStarts, LeftOpen
  <2>2. CASE JobEnds(s)
    BY <2>0, <2>2 DEF JobEnds, LeftOpen
  <2>3. CASE JobDeleted(s)
    BY <2>0, <2>3 DEF JobDeleted, LeftOpen, Active
  <2> QED
    BY <2>1, <2>2, <2>3
<1>4. TypeOK' /\ PassShape'
  BY <1>0, <1>1, <1>2, <1>3 DEF Rest, TypeOK, PassShape
<1>5. SubmitShape' /\ NoPileUp' /\ OffMeansOff'
  <2>1. pc = "submit" => cur \in Schedules /\ cur # s
    BY <1>0, <1>3, AtSchedule DEF Rest, SubmitShape
  <2>2. NoPileUp'
    <3>1. pending'[s] + running'[s] <= 1
      BY <1>0, <1>3 DEF Rest, TypeOK, NoPileUp
    <3> QED
      BY <1>0, <1>3, <3>1 DEF Rest, NoPileUp
  <2> QED
    BY <1>0, <1>1, <1>3, <2>1, <2>2 DEF Rest, SubmitShape, OffMeansOff
<1>6. \A t \in Schedules : Part(t)'
  BY <1>0, <1>1 DEF Part, StillDue, InPass, WaitShape, LateShape
<1> QED
  BY <1>4, <1>5, <1>6, IndInvByPart DEF Rest

LEMMA ClockInv ==
  ASSUME IndInv, Clock
  PROVE  IndInv'
<1> USE DEF jobs
<1>0. Rest /\ \A t \in Schedules : Part(t)
  BY IndInvByPart
<1>1. UNCHANGED <<mgr, row, pending, running, stuck, pc, due, cur, late>>
  BY DEF Clock
<1>2. /\ wait' \in [Schedules -> Int] /\ since' \in [Schedules -> Nat]
      /\ \A s \in Schedules :
           /\ wait'[s] = IF row[s] = "none" THEN 0
                         ELSE IF wait[s] > -MaxLag THEN wait[s] - 1 ELSE wait[s]
           /\ since'[s] = IF since[s] < Interval[s] THEN since[s] + 1 ELSE since[s]
  BY <1>0, Times DEF Clock, Sooner, Rest, TypeOK
<1>3. \A s \in Schedules : -MaxLag <= wait'[s] /\ wait'[s] <= Interval[s]
  BY <1>0, <1>2, Times DEF Rest, TypeOK
<1>4. age' \in 0..MaxPass /\ (pc \in {"idle", "exited"} => age' = 0)
  BY <1>0, Times DEF Clock, Rest, TypeOK
<1>5. TypeOK'
  BY <1>0, <1>1, <1>2, <1>3, <1>4 DEF Rest, TypeOK
<1>6. PassShape' /\ SubmitShape' /\ NoPileUp' /\ OffMeansOff'
  BY <1>0, <1>1, <1>4 DEF Rest, PassShape, SubmitShape, NoPileUp, OffMeansOff
<1>7. ASSUME NEW s \in Schedules PROVE Part(s)'
  <2>1. since[s] \in Nat /\ wait[s] \in Int /\ Interval[s] \in Nat
    BY <1>0, Times DEF Rest, TypeOK
  <2>2. since[s] >= Interval[s] => since'[s] >= Interval[s]
    BY <1>2, <2>1
  <2>3. StillDue(s)' /\ LateShape(s)'
    BY <1>0, <1>1, <2>2 DEF Part, StillDue, InPass, LateShape
  <2>4. WaitShape(s)'
    BY <1>0, <1>1, <1>2, <2>1, <2>2 DEF Part, WaitShape
  <2> QED
    BY <2>3, <2>4 DEF Part
<1> QED
  BY <1>5, <1>6, <1>7, IndInvByPart DEF Rest

LEMMA ProcessInv ==
  ASSUME IndInv, Stop \/ ProcessExits \/ Crash \/ Restart
  PROVE  IndInv'
<1> USE DEF db, jobs, pass, hist
<1>0. Rest /\ \A t \in Schedules : Part(t)
  BY IndInvByPart
<1>1. CASE Stop
  <2>1. Rest'
    BY <1>0, <1>1 DEF Stop, Rest, TypeOK, PassShape, SubmitShape, NoPileUp, OffMeansOff
  <2>2. \A t \in Schedules : Part(t)'
    BY <1>0, <1>1 DEF Stop, Part, StillDue, InPass, WaitShape, LateShape
  <2> QED
    BY <2>1, <2>2, IndInvByPart
<1>2. CASE ProcessEnds
  <2>1. Rest'
    BY <1>0, <1>2, Times DEF ProcessEnds, Rest, TypeOK, PassShape, SubmitShape, NoPileUp, OffMeansOff
  <2>2. \A t \in Schedules : Part(t)'
    BY <1>0, <1>2 DEF ProcessEnds, Part, StillDue, InPass, WaitShape, LateShape
  <2> QED
    BY <2>1, <2>2, IndInvByPart
<1>3. CASE Restart
  <2>1. /\ pc = "exited" /\ cur = NoSchedule /\ mgr' = "up" /\ pc' = "idle"
        /\ UNCHANGED <<row, wait, since, late, due, cur, age>>
    BY <1>0, <1>3 DEF Restart, Rest, PassShape
  <2>2. /\ pending' \in [Schedules -> Nat] /\ running' \in [Schedules -> Nat]
        /\ stuck' \subseteq Schedules
        /\ \A t \in Schedules : pending'[t] + running'[t] <= 1
    BY <1>0, <1>3 DEF Restart, Rest, TypeOK, NoPileUp
  <2>3. Rest'
    BY <1>0, <2>1, <2>2 DEF Rest, TypeOK, PassShape, SubmitShape, NoPileUp, OffMeansOff
  <2>4. \A t \in Schedules : Part(t)'
    BY <1>0, <2>1 DEF Part, StillDue, InPass, WaitShape, LateShape
  <2> QED
    BY <2>3, <2>4, IndInvByPart
<1> QED
  BY <1>1, <1>2, <1>3 DEF ProcessExits, Crash

LEMMA StepInv == IndInv /\ [Next]_vars => IndInv'
<1> SUFFICES ASSUME IndInv, [Next]_vars PROVE IndInv'
  OBVIOUS
<1>1. CASE UNCHANGED vars
  <2> USE <1>1 DEF vars, db, jobs, pass, hist
  <2>1. Rest /\ \A t \in Schedules : Part(t)
    BY IndInvByPart
  <2>2. Rest'
    BY <2>1 DEF Rest, TypeOK, PassShape, SubmitShape, NoPileUp, OffMeansOff
  <2>3. \A t \in Schedules : Part(t)'
    BY <2>1 DEF Part, StillDue, InPass, WaitShape, LateShape
  <2> QED
    BY <2>2, <2>3, IndInvByPart
<1> QED
  BY <1>1, ApiInv, TickInv, CountInv, FailInv, SubmitInv, MarkInv, ExitInv, JobInv, ClockInv,
     ProcessInv DEF Next, SchedulerStep

-----------------------------------------------------------------------------
(* The theorems                                                            *)

\* The whole of what is known of a reachable state.
THEOREM InvariantHolds == Spec => []IndInv
BY InitInv, StepInv, PTL DEF Spec

\* The type invariant, with the bounds on how long a schedule waits.
THEOREM TypeOKHolds == Spec => []TypeOK
<1>1. IndInv => TypeOK
  BY DEF IndInv
<1> QED
  BY <1>1, InvariantHolds, PTL

\* A schedule never has two open jobs, although the count and the submission
\* are two steps.
THEOREM NoPileUpHolds == Spec => []NoPileUp
<1>1. IndInv => NoPileUp
  BY DEF IndInv
<1> QED
  BY <1>1, InvariantHolds, PTL

\* The stale batch submits a disabled or deleted schedule once more at most.
THEOREM OffMeansOffHolds == Spec => []OffMeansOff
<1>1. IndInv => OffMeansOff
  BY DEF IndInv
<1> QED
  BY <1>1, InvariantHolds, PTL

\* No schedule is submitted before its interval has passed since the last
\* submission that was followed by a stored advance.
THEOREM SubmissionsKeepTheInterval == Spec => SubmissionsAreSpaced
<1>1. IndInv /\ [Next]_vars => [Submit => since[cur] >= Interval[cur]]_vars
  <2> SUFFICES ASSUME IndInv, Submit PROVE since[cur] >= Interval[cur]
    OBVIOUS
  <2>1. pc = "submit" /\ cur \notin due /\ Part(cur)
    BY AtSchedule DEF Submit
  <2> QED
    BY <2>1 DEF Part, StillDue, InPass
<1> QED
  BY <1>1, InvariantHolds, PTL DEF Spec, SubmissionsAreSpaced
=============================================================================
