----------------------------- MODULE Migrations -----------------------------
(***************************************************************************)
(* How a process brings the database to the version it knows, beside other *)
(* processes that do the same: the daemon and the command line tool share  *)
(* one SQLite file, and either may be a newer or an older binary.          *)
(* SQLite lets one transaction write at a time; a transaction that does    *)
(* not commit leaves nothing behind.                                       *)
(***************************************************************************)
EXTENDS Integers, FiniteSets

CONSTANTS
  Procs,       \* the processes
  Knows,       \* Knows[p]: the last version in p's list of migrations
  NoProc       \* nobody

\* initSchema's migrations, of which these two consist of CREATE ... IF NOT EXISTS
\* and can be applied to a database that has them; the others add columns, once.
Versions   == 1..7
Repeatable == {1, 3}

ASSUME MigrationsAssumption ==
  /\ NoProc \notin Procs
  /\ Knows \in [Procs -> Versions]

VARIABLES
  applied,  \* the versions in schema_migrations
  schema,   \* the versions whose tables and columns are there
  writer,   \* the process whose transaction holds SQLite's write lock
  pc,       \* where each process is
  at        \* at[p]: the version p has reached in Run, counting from the one it read

database == <<applied, schema, writer>>

PcGoto(p, l) == pc' = [pc EXCEPT ![p] = l]

MigrationsInit ==
  /\ applied = {}
  /\ schema = {}
  /\ writer = NoProc
  /\ pc = [p \in Procs |-> "off"]
  /\ at = [p \in Procs |-> 0]

\* The process ends: an open transaction is rolled back.
Dies(p) ==
  /\ PcGoto(p, "off")
  /\ at' = [at EXCEPT ![p] = 0]
  /\ writer' = IF writer = p THEN NoProc ELSE writer

\* CREATE TABLE IF NOT EXISTS, which changes nothing the model keeps, and
\* SELECT COALESCE(MAX(version), 0).
ReadVersion(p) ==
  /\ pc[p] = "reading"
  /\ \E v \in applied \cup {0} :
       /\ \A u \in applied : u <= v
       /\ at' = [at EXCEPT ![p] = v]
  /\ PcGoto(p, "looping")
  /\ UNCHANGED database

Pending(p) == at[p] < Knows[p]

\* No migration is left, or the database is newer than the binary.
NothingPending(p) ==
  /\ pc[p] = "looping"
  /\ ~Pending(p)
  /\ PcGoto(p, "opened")
  /\ UNCHANGED <<database, at>>

\* BeginTx, and the write lock its first statement waits for.
Begin(p) ==
  /\ pc[p] = "looping"
  /\ Pending(p)
  /\ writer = NoProc
  /\ writer' = p
  /\ PcGoto(p, "begun")
  /\ UNCHANGED <<applied, schema, at>>

\* (Mutant: the error is logged, and the loop goes on with the next migration.)
Busy_LogsOnly(p) ==
  /\ pc[p] = "looping"
  /\ Pending(p)
  /\ writer # NoProc
  /\ at' = [at EXCEPT ![p] = @ + 1]
  /\ UNCHANGED <<database, pc>>

\* The first statement of a migration writes; so does the CREATE TABLE, unless the
\* table is there when the statement is prepared.
Writes(p) ==
  \/ pc[p] = "looping" /\ Pending(p)
  \/ pc[p] = "reading" /\ applied = {}

\* The lock is not free within the busy timeout: NewStore fails, and the
\* process exits with 1.
Busy(p) ==
  /\ Writes(p)
  /\ writer # NoProc
  /\ Dies(p)
  /\ UNCHANGED <<applied, schema>>

\* (Mutant: the SQL runs outside the transaction, on db instead of tx.)
Apply_OnDB(p) ==
  LET v == at[p] + 1
  IN /\ pc[p] = "begun"
     /\ IF v \in schema \ Repeatable
          THEN Dies(p) /\ UNCHANGED schema
          ELSE schema' = schema \cup {v} /\ PcGoto(p, "altered") /\ UNCHANGED <<writer, at>>
     /\ UNCHANGED applied

\* tx.Exec of the migration's SQL. Another process may have come first, since
\* the version was read before the lock was taken: a column that is already
\* there is an error, rolled back and returned.
Apply(p) ==
  /\ pc[p] = "begun"
  /\ IF at[p] + 1 \in schema \ Repeatable
       THEN Dies(p)
       ELSE PcGoto(p, "altered") /\ UNCHANGED <<writer, at>>
  /\ UNCHANGED <<applied, schema>>

\* The version's INSERT, which its primary key may refuse, and the commit.
Commit(p) ==
  LET v == at[p] + 1
  IN /\ pc[p] = "altered"
     /\ IF v \in applied
          THEN Dies(p) /\ UNCHANGED <<applied, schema>>
          ELSE /\ applied' = applied \cup {v}
               /\ schema' = schema \cup {v}
               /\ writer' = NoProc
               /\ at' = [at EXCEPT ![p] = v]
               /\ PcGoto(p, "looping")

Run(p) ==
  \/ ReadVersion(p) \/ NothingPending(p) \/ Begin(p) \/ Busy(p)
  \/ Apply(p) \/ Commit(p)
=============================================================================
