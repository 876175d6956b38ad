---------------------------- MODULE StartupProofs ----------------------------
(***************************************************************************)
(* An open store has its tables, and recovery leaves the living alone: for *)
(* any processes, versions among the code's, jobs and kills.               *)
(***************************************************************************)
EXTENDS Startup, TLAPS

USE MigrationsAssumption, StartupAssumption

PcLabels == {"off", "reading", "looping", "begun", "altered"} \cup Opened

\* The migrations that have been applied are the first n, each with its version,
\* and nobody has counted further than that. A process is past NewStore only
\* when it has reached the last version it knows.
Contiguous ==
  \E n \in Nat : applied = 1..n /\ \A p \in Procs : at[p] \in 0..n

TablesInv ==
  /\ pc \in [Procs -> PcLabels]
  /\ at \in [Procs -> Nat]
  /\ schema = applied
  /\ Contiguous
  /\ \A p \in Procs : pc[p] \in Opened => Knows[p] <= at[p]

\* A process that ends takes no table with it.
LEMMA DiesKeepsTables ==
  ASSUME TablesInv, NEW p \in Procs, Dies(p), UNCHANGED <<applied, schema>>
  PROVE  TablesInv'
<1>1. pc' \in [Procs -> PcLabels] /\ at' \in [Procs -> Nat]
  BY DEF TablesInv, Dies, PcGoto, PcLabels
<1>2. \A q \in Procs : at'[q] = 0 \/ at'[q] = at[q]
  BY DEF TablesInv, Dies
<1>3. \A q \in Procs : pc'[q] \in Opened => pc'[q] = pc[q] /\ at'[q] = at[q]
  BY DEF TablesInv, Dies, PcGoto, Opened
<1>4. Contiguous'
  BY <1>2 DEF TablesInv, Contiguous
<1> QED
  BY <1>1, <1>3, <1>4 DEF TablesInv

\* A step that changes only where a process is keeps the tables; if it opens the
\* store, the process must be done.
LEMMA MoveKeepsTables ==
  ASSUME TablesInv, NEW p \in Procs, NEW l \in PcLabels, PcGoto(p, l),
         l \in Opened => Knows[p] <= at[p],
         UNCHANGED <<applied, schema, at>>
  PROVE  TablesInv'
<1>1. pc' \in [Procs -> PcLabels]
  BY DEF TablesInv, PcGoto
<1>2. \A q \in Procs : pc'[q] = pc[q] \/ (q = p /\ pc'[q] = l)
  BY DEF TablesInv, PcGoto
<1>3. Contiguous'
  BY DEF TablesInv, Contiguous
<1> QED
  BY <1>1, <1>2, <1>3 DEF TablesInv

\* The version that is read is one that was applied, or none.
LEMMA ReadKeepsTables ==
  ASSUME TablesInv, NEW p \in Procs, ReadVersion(p)
  PROVE  TablesInv'
<1>1. PICK v \in applied \cup {0} : at' = [at EXCEPT ![p] = v]
  BY DEF ReadVersion
<1>2. PICK n \in Nat : applied = 1..n /\ \A q \in Procs : at[q] \in 0..n
  BY DEF TablesInv, Contiguous
<1>3. v \in 0..n
  BY <1>1, <1>2
<1>4. at' \in [Procs -> Nat] /\ \A q \in Procs : at'[q] \in 0..n
  BY <1>1, <1>2, <1>3 DEF TablesInv
<1>5. Contiguous'
  BY <1>2, <1>4 DEF Contiguous, ReadVersion, database
<1>6. /\ pc' \in [Procs -> PcLabels]
      /\ \A q \in Procs : pc'[q] \in Opened => pc'[q] = pc[q] /\ at'[q] = at[q]
  BY <1>1 DEF TablesInv, ReadVersion, PcGoto, PcLabels, Opened
<1> QED
  BY <1>4, <1>5, <1>6 DEF TablesInv, ReadVersion, database

\* A version that is committed is the first that was missing: the primary key
\* refuses the others.
LEMMA CommitKeepsTables ==
  ASSUME TablesInv, NEW p \in Procs, Commit(p), UNCHANGED <<port, jobs, crashes>>
  PROVE  TablesInv'
<1> DEFINE v == at[p] + 1
<1>1. CASE v \in applied
  BY <1>1, DiesKeepsTables DEF Commit
<1>2. CASE v \notin applied
  <2>1. PICK n \in Nat : applied = 1..n /\ \A q \in Procs : at[q] \in 0..n
    BY DEF TablesInv, Contiguous
  <2>2. v = n + 1
    BY <1>2, <2>1
  <2>3. /\ applied' = applied \cup {v} /\ schema' = schema \cup {v}
        /\ at' = [at EXCEPT ![p] = v] /\ pc' = [pc EXCEPT ![p] = "looping"]
    BY <1>2 DEF Commit, PcGoto
  <2>4. applied' = 1..n + 1
    BY <2>1, <2>2, <2>3
  <2>5. at' \in [Procs -> Nat] /\ \A q \in Procs : at'[q] \in 0..n + 1
    BY <2>1, <2>2, <2>3 DEF TablesInv
  <2>6. Contiguous'
    BY <2>4, <2>5 DEF Contiguous
  <2>7. /\ pc' \in [Procs -> PcLabels]
        /\ \A q \in Procs : pc'[q] \in Opened => pc'[q] = pc[q] /\ at'[q] = at[q]
    BY <2>3 DEF TablesInv, PcLabels, Opened
  <2> QED
    BY <2>3, <2>5, <2>6, <2>7 DEF TablesInv
<1> QED
  BY <1>1, <1>2

LEMMA TablesInit == Init => TablesInv
<1> SUFFICES ASSUME Init PROVE TablesInv
  OBVIOUS
<1>1. applied = 1..0 /\ \A p \in Procs : at[p] \in 0..0
  BY DEF Init, MigrationsInit
<1>2. Contiguous
  BY <1>1 DEF Contiguous
<1> QED
  BY <1>2 DEF Init, MigrationsInit, TablesInv, PcLabels, Opened

LEMMA TablesNext == TablesInv /\ [Next]_vars => TablesInv'
<1> SUFFICES ASSUME TablesInv, [Next]_vars PROVE TablesInv'
  OBVIOUS
<1> USE DEF PcLabels, Opened, database
<1>1. ASSUME NEW p \in Procs, Start(p) PROVE TablesInv'
  BY <1>1, MoveKeepsTables DEF Start
<1>2. ASSUME NEW p \in Procs, Migrate(p) PROVE TablesInv'
  <2>1. CASE ReadVersion(p)
    BY <2>1, ReadKeepsTables
  <2>2. CASE NothingPending(p)
    <3>1. Knows[p] <= at[p]
      BY <2>2 DEF NothingPending, Pending, TablesInv, Versions
    <3> QED
      BY <2>2, <3>1, MoveKeepsTables DEF NothingPending
  <2>3. CASE Begin(p)
    BY <2>3, MoveKeepsTables DEF Begin
  <2>4. CASE Busy(p)
    BY <2>4, DiesKeepsTables DEF Busy
  <2>5. CASE Apply(p)
    BY <2>5, MoveKeepsTables, DiesKeepsTables DEF Apply
  <2>6. CASE Commit(p)
    BY <1>2, <2>6, CommitKeepsTables DEF Migrate
  <2> QED
    BY <1>2, <2>1, <2>2, <2>3, <2>4, <2>5, <2>6 DEF Migrate, Run
<1>3. ASSUME NEW p \in Procs, Recover(p) PROVE TablesInv'
  <2>1. Knows[p] <= at[p]
    BY <1>3 DEF Recover, TablesInv
  <2> QED
    BY <1>3, <2>1, MoveKeepsTables DEF Recover
<1>4. ASSUME NEW p \in Procs, Listen(p) PROVE TablesInv'
  <2>1. Knows[p] <= at[p]
    BY <1>4 DEF Listen, TablesInv
  <2> QED
    BY <1>4, <2>1, MoveKeepsTables, DiesKeepsTables DEF Listen, Exits
<1>5. ASSUME NEW p \in Procs, Shutdown(p) PROVE TablesInv'
  <2>1. Knows[p] <= at[p]
    BY <1>5 DEF Shutdown, TablesInv
  <2> QED
    BY <1>5, <2>1, MoveKeepsTables DEF Shutdown
<1>6. ASSUME NEW p \in Procs, Ends(p) \/ Crash(p) PROVE TablesInv'
  BY <1>6, DiesKeepsTables DEF Ends, Crash, Exits
<1>7. ASSUME NEW p \in Procs, NEW j \in Jobs, Accept(p, j) \/ Work(p, j) PROVE TablesInv'
  BY <1>7 DEF Accept, Work, TablesInv, Contiguous
<1>8. CASE UNCHANGED vars
  BY <1>8 DEF vars, TablesInv, Contiguous
<1> QED
  BY <1>1, <1>2, <1>3, <1>4, <1>5, <1>6, <1>7, <1>8 DEF Next

\* A process that has the store open has every table and column it names,
\* whoever made them and however often they raced, failed or were killed.
THEOREM StoreHasItsTables == Spec => []OpenStoreHasItsTables
<1>1. TablesInv => OpenStoreHasItsTables
  <2> SUFFICES ASSUME TablesInv, NEW p \in Procs, pc[p] \in Opened
               PROVE  1..Knows[p] \subseteq schema \cap applied
    BY DEF OpenStoreHasItsTables
  <2>1. PICK n \in Nat : applied = 1..n /\ \A q \in Procs : at[q] \in 0..n
    BY DEF TablesInv, Contiguous
  <2>2. Knows[p] <= n /\ Knows[p] \in Nat
    BY <2>1 DEF TablesInv, Versions
  <2> QED
    BY <2>1, <2>2 DEF TablesInv
<1> QED
  BY <1>1, TablesInit, TablesNext, PTL DEF Spec

-----------------------------------------------------------------------------
\* A job in memory is in that of a daemon past its recovery, and no two daemons
\* are there at once, as long as none is started beside another.
HolderInv ==
  /\ row \in [Jobs -> {"none", "PENDING", "RUNNING", "COMPLETED", "FAILED"}]
  /\ holder \in [Jobs -> Procs \cup {NoProc}]
  /\ \A j \in Jobs :
       holder[j] # NoProc => holder[j] \in Daemons /\ pc[holder[j]] \in Working
  /\ \A d, e \in Daemons : pc[d] # "off" /\ pc[e] # "off" => d = e

MemInv == TablesInv /\ HolderInv

\* A process that ends forgets its jobs.
LEMMA ExitsKeepsHolders ==
  ASSUME MemInv, NEW p \in Procs, Exits(p)
  PROVE  HolderInv'
<1>1. /\ pc' = [pc EXCEPT ![p] = "off"] /\ pc \in [Procs -> PcLabels]
      /\ holder' = [j \in Jobs |-> IF holder[j] = p THEN NoProc ELSE holder[j]]
      /\ row' = row
  BY DEF Exits, Dies, PcGoto, MemInv, TablesInv
<1>2. \A j \in Jobs : holder'[j] # NoProc => holder'[j] = holder[j] /\ holder[j] # p
  BY <1>1
<1>3. \A q \in Procs : pc'[q] = IF q = p THEN "off" ELSE pc[q]
  BY <1>1
<1> QED
  BY <1>1, <1>2, <1>3 DEF MemInv, HolderInv

\* A step of one process that is there, without a job in its memory or past its
\* recovery still, disturbs nobody.
LEMMA MoveKeepsHolders ==
  ASSUME MemInv, NEW p \in Procs, NEW l \in PcLabels, PcGoto(p, l),
         pc[p] # "off" \/ p \notin Daemons,
         pc[p] \in Working => l \in Working,
         UNCHANGED holder,
         row' \in [Jobs -> {"none", "PENDING", "RUNNING", "COMPLETED", "FAILED"}]
  PROVE  HolderInv'
<1>1. pc \in [Procs -> PcLabels] /\ pc' = [pc EXCEPT ![p] = l]
  BY DEF MemInv, TablesInv, PcGoto
<1>2. \A q \in Procs : pc'[q] = IF q = p THEN l ELSE pc[q]
  BY <1>1
<1> QED
  BY <1>2 DEF MemInv, HolderInv

LEMMA MemNext == ~Overlap /\ MemInv /\ [Next]_vars => MemInv'
<1> SUFFICES ASSUME ~Overlap, MemInv, [Next]_vars PROVE HolderInv'
  BY TablesNext DEF MemInv
<1> USE DEF PcLabels, Opened, Working, database, jobs
<1>r. row \in [Jobs -> {"none", "PENDING", "RUNNING", "COMPLETED", "FAILED"}]
  BY DEF MemInv, HolderInv
<1>1. ASSUME NEW p \in Procs, Start(p) PROVE HolderInv'
  <2>1. CASE p \in Daemons
    <3>1. \A d \in Daemons : pc[d] = "off"
      BY <1>1, <2>1 DEF Start, MayStart
    <3>2. pc' = [pc EXCEPT ![p] = "reading"] /\ pc \in [Procs -> PcLabels]
      BY <1>1 DEF Start, PcGoto, MemInv, TablesInv
    <3>3. \A d \in Daemons : pc'[d] # "off" => d = p
      BY <3>1, <3>2
    <3>4. \A j \in Jobs : holder'[j] = NoProc
      BY <1>1, <3>1 DEF Start, MemInv, HolderInv
    <3> QED
      BY <1>1, <1>r, <3>3, <3>4 DEF Start, MemInv, HolderInv
  <2>2. CASE p \notin Daemons
    BY <1>1, <1>r, <2>2, MoveKeepsHolders DEF Start
  <2> QED
    BY <2>1, <2>2
<1>2. ASSUME NEW p \in Procs, Migrate(p) PROVE HolderInv'
  <2>1. pc[p] \notin Working \cup {"off"}
    BY <1>2 DEF Migrate, Run, ReadVersion, NothingPending, Begin, Busy, Writes, Apply, Commit
  <2>2. \E l \in PcLabels : PcGoto(p, l)
    BY <1>2 DEF Migrate, Run, ReadVersion, NothingPending, Begin, Busy, Apply, Commit, Dies
  <2> QED
    BY <1>2, <1>r, <2>1, <2>2, MoveKeepsHolders DEF Migrate
<1>3. ASSUME NEW p \in Procs, Recover(p) PROVE HolderInv'
  <2>1. row' \in [Jobs -> {"none", "PENDING", "RUNNING", "COMPLETED", "FAILED"}]
    BY <1>3, <1>r DEF Recover, RecoverInterruptedJobs
  <2> QED
    BY <1>3, <2>1, MoveKeepsHolders DEF Recover
<1>4. ASSUME NEW p \in Procs, Listen(p) PROVE HolderInv'
  BY <1>4, <1>r, MoveKeepsHolders, ExitsKeepsHolders DEF Listen
<1>5. ASSUME NEW p \in Procs, Shutdown(p) PROVE HolderInv'
  BY <1>5, <1>r, MoveKeepsHolders DEF Shutdown
<1>6. ASSUME NEW p \in Procs, Ends(p) \/ Crash(p) PROVE HolderInv'
  BY <1>6, ExitsKeepsHolders DEF Ends, Crash
<1>7. ASSUME NEW p \in Procs, NEW j \in Jobs, Accept(p, j) PROVE HolderInv'
  BY <1>7 DEF Accept, MemInv, HolderInv
<1>8. ASSUME NEW p \in Procs, NEW j \in Jobs, Work(p, j) PROVE HolderInv'
  <2>1. /\ row' \in [Jobs -> {"none", "PENDING", "RUNNING", "COMPLETED", "FAILED"}]
        /\ holder' = holder \/ holder' = [holder EXCEPT ![j] = NoProc]
        /\ pc' = pc
    BY <1>8, <1>r DEF Work
  <2>2. \A i \in Jobs : holder'[i] # NoProc => holder'[i] = holder[i]
    BY <2>1 DEF MemInv, HolderInv
  <2>3. holder' \in [Jobs -> Procs \cup {NoProc}]
    BY <2>1 DEF MemInv, HolderInv
  <2> QED
    BY <2>1, <2>2, <2>3 DEF MemInv, HolderInv
<1>9. CASE UNCHANGED vars
  BY <1>9 DEF vars, MemInv, HolderInv
<1> QED
  BY <1>1, <1>2, <1>3, <1>4, <1>5, <1>6, <1>7, <1>8, <1>9 DEF Next

\* The daemon that recovers is alone, so no job is in anybody's memory; and
\* nothing else writes FAILED.
LEMMA OnlyInterruptedFail ==
  ASSUME MemInv, [Next]_vars, NEW j \in Jobs, holder[j] # NoProc, row'[j] = "FAILED"
  PROVE  row[j] = "FAILED"
<1> USE DEF jobs
<1>1. ASSUME NEW p \in Procs, Recover(p) PROVE FALSE
  <2>1. holder[j] \in Daemons /\ pc[holder[j]] \in Working
    BY DEF MemInv, HolderInv
  <2>2. pc[p] = "opened" /\ p \in Daemons
    BY <1>1 DEF Recover
  <2>3. holder[j] = p
    BY <2>1, <2>2 DEF MemInv, HolderInv, Working
  <2> QED
    BY <2>1, <2>2, <2>3 DEF Working
<1>2. ASSUME NEW p \in Procs, NEW i \in Jobs, Accept(p, i) \/ Work(p, i)
      PROVE  row'[j] = row[j] \/ row'[j] # "FAILED"
  BY <1>2 DEF Accept, Work, MemInv, HolderInv
<1>3. ASSUME NEW p \in Procs,
             Start(p) \/ Migrate(p) \/ Listen(p) \/ Shutdown(p) \/ Ends(p) \/ Crash(p)
      PROVE  row' = row
  BY <1>3 DEF Start, Migrate, Listen, Shutdown, Ends, Crash, Exits
<1>4. CASE UNCHANGED vars
  BY <1>4 DEF vars
<1> QED
  BY <1>1, <1>2, <1>3, <1>4 DEF Next

\* A start fails no job that is in the memory of a process which still runs,
\* provided that a daemon is started only when no other is there.
THEOREM RecoveryIsSafe == ~Overlap => (Spec => RecoveryTakesOnlyInterrupted)
<1> SUFFICES ASSUME ~Overlap PROVE Spec => RecoveryTakesOnlyInterrupted
  OBVIOUS
<1>1. Init => MemInv
  BY TablesInit DEF Init, MigrationsInit, MemInv, HolderInv
<1>2. MemInv /\ [Next]_vars => MemInv'
  BY MemNext
<1>3. MemInv /\ [Next]_vars =>
        [\A j \in Jobs :
           holder[j] # NoProc /\ row'[j] = "FAILED" => row[j] = "FAILED"]_vars
  BY OnlyInterruptedFail
<1> QED
  BY <1>1, <1>2, <1>3, PTL DEF Spec, RecoveryTakesOnlyInterrupted
=============================================================================
