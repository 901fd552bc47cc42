------------------------------- MODULE Migrator -------------------------------
(* internal/storage/migrate.go as run by cmd/server (on boot), cmd/seed and   *)
(* cmd/migrate.  A run is one process from start to exit; a container that    *)
(* restarts is another run.  Each run talks to Postgres over one session.     *)
(*                                                                            *)
(* A statement is two steps: Postgres serves it, the program takes the reply. *)
(* Between them the program may be killed, its context may expire, or the     *)
(* session may be lost, and Postgres may still finish what it was sent.       *)
EXTENDS Integers

CONSTANTS
  Runs,          \* program runs
  Versions,      \* the numbers of the migration files
  Needs,         \* Needs[v]: the versions whose tables the files of v use
  Images,        \* the sets of .up.sql versions the builds embed
  Reversible,    \* the versions that have a .down.sql
  Commands,      \* the commands that runs may be started with
  NoRun          \* nobody

AllCommands == {"up", "down", "downAll", "status"}

ASSUME MigratorAssumption ==
  /\ NoRun \notin Runs
  /\ Versions \subseteq Nat
  /\ Needs \in [Versions -> SUBSET Versions]
  /\ \A v \in Versions : \A w \in Needs[v] : w < v
  /\ Images \subseteq SUBSET Versions
  /\ \A i \in Images : \A v \in i : Needs[v] \subseteq i
  /\ Reversible \subseteq Versions
  /\ Commands \subseteq AllCommands

VARIABLES
  (* Postgres: the committed state *)
  schema,        \* the versions whose tables exist
  appliedAt,     \* appliedAt[v]: applied_at of the row of v, 0 if there is none
  clock,         \* now()
  tableReady,    \* schema_migrations exists
  lockHolder,    \* the session that holds the advisory lock
  (* Postgres: the sessions *)
  conn,          \* "closed", "busy", "replied", "refused" (SQL error) or "idle"
  stmt,          \* the statement last sent
  txn,           \* what the open transaction has done so far
  rows,          \* the versions the last read returned
  (* the programs *)
  phase,         \* "idle", "running", "succeeded", "failed" or "crashed"
  cmd, files,    \* the command and the embedded migrations
  todo,          \* the migrations still to be applied (up) or reverted (down)
  target,        \* the migration in hand
  failed,        \* an error is on its way to the caller
  ctxDone,       \* the context is cancelled: timeout or signal
  reported,      \* the list that MigrateVerbose or Rollback returns
  (* history *)
  changed        \* the versions the run's committed transactions changed

database == <<schema, appliedAt, clock, tableReady, lockHolder>>
sessions == <<conn, stmt, txn, rows>>
programs == <<phase, cmd, files, todo, target, failed, ctxDone, reported>>
vars == <<database, sessions, programs, changed>>

Nothing == -1    \* no migration in hand
Finished == {"succeeded", "failed", "crashed"}
TxStatements == {"begin", "ddl", "record", "commit", "abort"}
Statements == {"none", "lock", "ensure", "read", "unlock"} \cup TxStatements

Recorded == {v \in Versions : appliedAt[v] # 0}

Init ==
  /\ schema = {}
  /\ appliedAt = [v \in Versions |-> 0]
  /\ clock = 1
  /\ tableReady = FALSE
  /\ lockHolder = NoRun
  /\ conn = [r \in Runs |-> "closed"]
  /\ stmt = [r \in Runs |-> "none"]
  /\ txn = [r \in Runs |-> {}]
  /\ rows = [r \in Runs |-> {}]
  /\ phase = [r \in Runs |-> "idle"]
  /\ cmd = [r \in Runs |-> "none"]
  /\ files = [r \in Runs |-> {}]
  /\ todo = [r \in Runs |-> {}]
  /\ target = [r \in Runs |-> Nothing]
  /\ failed = [r \in Runs |-> FALSE]
  /\ ctxDone = [r \in Runs |-> FALSE]
  /\ reported = [r \in Runs |-> {}]
  /\ changed = [r \in Runs |-> {}]

-------------------------------------------------------------------------------
(* Postgres serves the statements.  It serves those of a program that has     *)
(* gone, too, until it notices and ends the session.                          *)

Serving(r, s) == conn[r] = "busy" /\ stmt[r] = s
Reply(r) == conn' = [conn EXCEPT ![r] = "replied"] /\ UNCHANGED stmt

GrantLock(r) ==
  /\ Serving(r, "lock")
  /\ lockHolder = NoRun
  /\ lockHolder' = r
  /\ Reply(r)
  /\ UNCHANGED <<schema, appliedAt, clock, tableReady, txn, rows, programs, changed>>

ReleaseLock(r) ==
  /\ Serving(r, "unlock")
  /\ lockHolder' = IF lockHolder = r THEN NoRun ELSE lockHolder
  /\ Reply(r)
  /\ UNCHANGED <<schema, appliedAt, clock, tableReady, txn, rows, programs, changed>>

EnsureTable(r) ==
  /\ Serving(r, "ensure")
  /\ tableReady' = TRUE
  /\ Reply(r)
  /\ UNCHANGED <<schema, appliedAt, clock, lockHolder, txn, rows, programs, changed>>

ReadVersions(r) ==
  /\ Serving(r, "read")
  /\ rows' = [rows EXCEPT ![r] = Recorded]
  /\ Reply(r)
  /\ UNCHANGED <<database, txn, programs, changed>>

BeginTxn(r) ==
  /\ Serving(r, "begin")
  /\ Reply(r)
  /\ UNCHANGED <<database, txn, rows, programs, changed>>

\* CREATE TABLE fails on a table that exists or lacks what it refers to; the
\* down files say DROP TABLE IF EXISTS.
Executable(r) ==
  cmd[r] = "up" => target[r] \notin schema /\ Needs[target[r]] \subseteq schema

\* Mutant: the SQL runs on the connection, not in the transaction.
ExecuteDDLOutsideTxn(r) ==
  /\ Serving(r, "ddl")
  /\ Executable(r)
  /\ schema' = IF cmd[r] = "up" THEN schema \cup {target[r]} ELSE schema \ {target[r]}
  /\ txn' = [txn EXCEPT ![r] = @ \cup {"ddl"}]
  /\ Reply(r)
  /\ UNCHANGED <<appliedAt, clock, tableReady, lockHolder, rows, programs, changed>>

ExecuteDDL(r) ==
  /\ Serving(r, "ddl")
  /\ Executable(r)
  /\ txn' = [txn EXCEPT ![r] = @ \cup {"ddl"}]
  /\ Reply(r)
  /\ UNCHANGED <<database, rows, programs, changed>>

\* The INSERT into, or DELETE from, schema_migrations.
RecordVersion(r) ==
  /\ Serving(r, "record")
  /\ txn' = [txn EXCEPT ![r] = @ \cup {"row"}]
  /\ Reply(r)
  /\ UNCHANGED <<database, rows, programs, changed>>

CommitTxn(r) ==
  /\ Serving(r, "commit")
  /\ LET v == target[r] IN
       /\ schema' = IF "ddl" \notin txn[r] THEN schema
                    ELSE IF cmd[r] = "up" THEN schema \cup {v} ELSE schema \ {v}
       /\ appliedAt' = IF "row" \notin txn[r] THEN appliedAt
                       ELSE [appliedAt EXCEPT ![v] = IF cmd[r] = "up" THEN clock ELSE 0]
       /\ changed' = [changed EXCEPT ![r] = @ \cup {v}]
  /\ clock' = clock + 1
  /\ txn' = [txn EXCEPT ![r] = {}]
  /\ Reply(r)
  /\ UNCHANGED <<tableReady, lockHolder, rows, programs>>

AbortTxn(r) ==
  /\ Serving(r, "abort")
  /\ txn' = [txn EXCEPT ![r] = {}]
  /\ Reply(r)
  /\ UNCHANGED <<database, rows, programs, changed>>

\* An SQL error; the session lives on.  A refused COMMIT has rolled back.
Refuse(r) ==
  /\ conn[r] = "busy"
  /\ stmt[r] \notin {"lock", "unlock", "abort"}
  /\ conn' = [conn EXCEPT ![r] = "refused"]
  /\ txn' = [txn EXCEPT ![r] = IF stmt[r] = "commit" THEN {} ELSE @]
  /\ UNCHANGED <<database, stmt, rows, programs, changed>>

\* A session ends when the program has gone or the network or the server fails:
\* Postgres rolls the transaction back and frees the advisory lock.
EndSession(r) ==
  /\ conn[r] # "closed"
  /\ conn' = [conn EXCEPT ![r] = "closed"]
  /\ txn' = [txn EXCEPT ![r] = {}]
  /\ lockHolder' = IF lockHolder = r THEN NoRun ELSE lockHolder
  /\ UNCHANGED <<schema, appliedAt, clock, tableReady, stmt, rows, programs, changed>>

-------------------------------------------------------------------------------
(* The programs.                                                              *)

Got(r, s) == phase[r] = "running" /\ stmt[r] = s /\ conn[r] = "replied"

Send(r, s) ==
  /\ stmt' = [stmt EXCEPT ![r] = s]
  /\ conn' = [conn EXCEPT ![r] = "busy"]

\* Mutant: only an error unlocks.
LeaveLocked(r, error) ==
  /\ failed' = [failed EXCEPT ![r] = error]
  /\ IF cmd[r] = "status" \/ ~error
       THEN /\ phase' = [phase EXCEPT ![r] = IF error THEN "failed" ELSE "succeeded"]
            /\ conn' = [conn EXCEPT ![r] = "idle"]
            /\ UNCHANGED stmt
       ELSE Send(r, "unlock") /\ UNCHANGED phase

\* withMigrationLock returns fn's error after the deferred unlock, which ignores
\* the state of ctx; AppliedMigrations has no lock to release.
Leave(r, error) ==
  /\ failed' = [failed EXCEPT ![r] = error]
  /\ IF cmd[r] = "status"
       THEN /\ phase' = [phase EXCEPT ![r] = IF error THEN "failed" ELSE "succeeded"]
            /\ conn' = [conn EXCEPT ![r] = "idle"]
            /\ UNCHANGED stmt
       ELSE Send(r, "unlock") /\ UNCHANGED phase

\* pgx closes the connection: it does so when a statement is interrupted, when
\* BEGIN or COMMIT fails to go out, and when ROLLBACK does.  The deferred unlock
\* then fails on it, and Postgres is left with the session as it was.
HangUp(r) ==
  /\ phase' = [phase EXCEPT ![r] = "failed"]
  /\ failed' = [failed EXCEPT ![r] = TRUE]
  /\ UNCHANGED <<stmt, conn>>

\* The program's next statement.  pgx sends nothing once ctx is done.
Continue(r, s) ==
  IF ~ctxDone[r] THEN Send(r, s) /\ UNCHANGED <<phase, failed>>
  ELSE IF s \in TxStatements THEN HangUp(r)
  ELSE Leave(r, TRUE)

\* Mutant: a boot goes straight to the table.
StartUnlocked(r) ==
  /\ phase[r] = "idle"
  /\ \E c \in Commands, i \in Images :
       /\ cmd' = [cmd EXCEPT ![r] = c]
       /\ files' = [files EXCEPT ![r] = i]
       /\ Send(r, "ensure")
  /\ phase' = [phase EXCEPT ![r] = "running"]
  /\ UNCHANGED <<database, txn, rows, todo, target, failed, ctxDone, reported, changed>>

Start(r) ==
  /\ phase[r] = "idle"
  /\ \E c \in Commands, i \in Images :
       /\ cmd' = [cmd EXCEPT ![r] = c]
       /\ files' = [files EXCEPT ![r] = i]
       /\ Send(r, IF c = "status" THEN "ensure" ELSE "lock")
  /\ phase' = [phase EXCEPT ![r] = "running"]
  /\ UNCHANGED <<database, txn, rows, todo, target, failed, ctxDone, reported, changed>>

\* After the lock comes the table, after the table the read.
AfterLock(r) ==
  /\ Got(r, "lock")
  /\ Continue(r, "ensure")
  /\ UNCHANGED <<database, txn, rows, cmd, files, todo, target, ctxDone, reported, changed>>

AfterEnsure(r) ==
  /\ Got(r, "ensure")
  /\ Continue(r, "read")
  /\ UNCHANGED <<database, txn, rows, cmd, files, todo, target, ctxDone, reported, changed>>

\* The loop of MigrateVerbose: the lowest version still to do, if any.
ApplyNext(r, pending) ==
  /\ todo' = [todo EXCEPT ![r] = pending]
  /\ \/ /\ pending = {}
        /\ Leave(r, FALSE)
        /\ UNCHANGED target
     \/ \E v \in pending :
          /\ \A w \in pending : v <= w
          /\ target' = [target EXCEPT ![r] = v]
          /\ Continue(r, "begin")

\* Mutant: the lowest version comes off first.
RevertLowest(r, versions) ==
  /\ todo' = [todo EXCEPT ![r] = versions]
  /\ \/ /\ versions = {}
        /\ Leave(r, FALSE)
        /\ UNCHANGED target
     \/ \E v \in versions :
          /\ \A w \in versions : v <= w
          /\ target' = [target EXCEPT ![r] = v]
          /\ Continue(r, "begin")

\* The body of Rollback's loop: the highest version recorded, if any.
RevertNext(r, versions) ==
  /\ todo' = [todo EXCEPT ![r] = versions]
  /\ \/ /\ versions = {}
        /\ Leave(r, FALSE)
        /\ UNCHANGED target
     \/ \E v \in versions :
          /\ \A w \in versions : w <= v
          /\ \/ /\ v \notin files[r] \cap Reversible
                /\ Leave(r, TRUE)
                /\ UNCHANGED target
             \/ /\ v \in files[r] \cap Reversible
                /\ target' = [target EXCEPT ![r] = v]
                /\ Continue(r, "begin")

AfterRead(r) ==
  /\ Got(r, "read")
  /\ \/ /\ cmd[r] = "up"
        /\ ApplyNext(r, files[r] \ rows[r])
     \/ /\ cmd[r] \in {"down", "downAll"}
        /\ RevertNext(r, rows[r])
     \/ /\ cmd[r] = "status"
        /\ Leave(r, FALSE)
        /\ UNCHANGED <<todo, target>>
  /\ UNCHANGED <<database, txn, rows, cmd, files, ctxDone, reported, changed>>

\* Mutant: the version is reported before its COMMIT.
AfterTxStatementReporting(r) ==
  /\ \/ Got(r, "begin") /\ Continue(r, "ddl") /\ UNCHANGED reported
     \/ Got(r, "ddl") /\ Continue(r, "record") /\ UNCHANGED reported
     \/ /\ Got(r, "record") /\ Continue(r, "commit")
        /\ reported' = [reported EXCEPT ![r] = @ \cup {target[r]}]
  /\ UNCHANGED <<database, txn, rows, cmd, files, todo, target, ctxDone, changed>>

\* applyOne and revertOne: BEGIN, the SQL, the row, COMMIT.
AfterTxStatement(r) ==
  /\ \/ Got(r, "begin") /\ Continue(r, "ddl")
     \/ Got(r, "ddl") /\ Continue(r, "record")
     \/ Got(r, "record") /\ Continue(r, "commit")
  /\ UNCHANGED <<database, txn, rows, cmd, files, todo, target, ctxDone, reported, changed>>

AfterCommit(r) ==
  /\ Got(r, "commit")
  /\ reported' = [reported EXCEPT ![r] = @ \cup {target[r]}]
  /\ \/ cmd[r] = "up" /\ ApplyNext(r, todo[r] \ {target[r]})
     \/ cmd[r] = "down" /\ Leave(r, FALSE) /\ UNCHANGED <<todo, target>>
     \/ cmd[r] = "downAll" /\ Continue(r, "read") /\ UNCHANGED <<todo, target>>
  /\ UNCHANGED <<database, txn, rows, cmd, files, ctxDone, changed>>

\* The deferred unlock after the deferred ROLLBACK.
AfterAbort(r) ==
  /\ Got(r, "abort")
  /\ Leave(r, TRUE)
  /\ UNCHANGED <<database, txn, rows, cmd, files, todo, target, ctxDone, reported, changed>>

\* The session stays in the pool.
AfterUnlock(r) ==
  /\ Got(r, "unlock")
  /\ phase' = [phase EXCEPT ![r] = IF failed[r] THEN "failed" ELSE "succeeded"]
  /\ conn' = [conn EXCEPT ![r] = "idle"]
  /\ UNCHANGED <<database, stmt, txn, rows, cmd, files, todo, target, failed,
                 ctxDone, reported, changed>>

\* Mutant: the unlock goes out before the ROLLBACK.
AfterErrorUnlocking(r) ==
  /\ phase[r] = "running" /\ conn[r] = "refused"
  /\ IF stmt[r] = "begin" THEN HangUp(r) ELSE Leave(r, TRUE)
  /\ UNCHANGED <<database, txn, rows, cmd, files, todo, target, ctxDone, reported, changed>>

\* Mutant: the error is dropped.
AfterErrorSilent(r) ==
  /\ phase[r] = "running" /\ conn[r] = "refused"
  /\ IF stmt[r] = "begin" THEN HangUp(r) ELSE Leave(r, FALSE)
  /\ UNCHANGED <<database, txn, rows, cmd, files, todo, target, ctxDone, reported, changed>>

\* An SQL error.  pgx gives the connection up when BEGIN fails; an error inside
\* the transaction takes the deferred ROLLBACK first.
AfterError(r) ==
  /\ phase[r] = "running" /\ conn[r] = "refused"
  /\ \/ stmt[r] \in {"ensure", "read", "commit"} /\ Leave(r, TRUE)
     \/ stmt[r] = "begin" /\ HangUp(r)
     \/ stmt[r] \in {"ddl", "record"} /\ Continue(r, "abort")
  /\ UNCHANGED <<database, txn, rows, cmd, files, todo, target, ctxDone, reported, changed>>

\* The boot's or the command's timeout, SIGTERM or SIGINT.
Expire(r) ==
  /\ phase[r] = "running" /\ ~ctxDone[r]
  /\ ctxDone' = [ctxDone EXCEPT ![r] = TRUE]
  /\ UNCHANGED <<database, sessions, phase, cmd, files, todo, target, failed,
                 reported, changed>>

\* Mutant: the SQL of a migration does not take ctx.
InterruptNotDDL(r) ==
  /\ phase[r] = "running" /\ ctxDone[r] /\ stmt[r] \notin {"unlock", "ddl"}
  /\ HangUp(r)
  /\ UNCHANGED <<database, txn, rows, cmd, files, todo, target, ctxDone, reported, changed>>

\* ctx is done while a statement is out; only the unlock is sent without it.
Interrupt(r) ==
  /\ phase[r] = "running" /\ ctxDone[r] /\ stmt[r] # "unlock"
  /\ HangUp(r)
  /\ UNCHANGED <<database, txn, rows, cmd, files, todo, target, ctxDone, reported, changed>>

\* The program finds its session gone.
NoticeLoss(r) ==
  /\ phase[r] = "running" /\ conn[r] = "closed"
  /\ IF stmt[r] = "unlock"
       THEN /\ phase' = [phase EXCEPT ![r] = IF failed[r] THEN "failed" ELSE "succeeded"]
            /\ UNCHANGED <<failed, stmt, conn>>
       ELSE HangUp(r)
  /\ UNCHANGED <<database, txn, rows, cmd, files, todo, target, ctxDone, reported, changed>>

\* SIGKILL, or the machine dies.
Crash(r) ==
  /\ phase[r] = "running"
  /\ phase' = [phase EXCEPT ![r] = "crashed"]
  /\ UNCHANGED <<database, sessions, cmd, files, todo, target, failed, ctxDone,
                 reported, changed>>

-------------------------------------------------------------------------------
Postgres(r) ==
  \/ GrantLock(r) \/ ReleaseLock(r) \/ EnsureTable(r) \/ ReadVersions(r)
  \/ BeginTxn(r) \/ ExecuteDDL(r) \/ RecordVersion(r) \/ CommitTxn(r)
  \/ AbortTxn(r) \/ Refuse(r) \/ EndSession(r)

Program(r) ==
  \/ Start(r) \/ AfterLock(r) \/ AfterEnsure(r) \/ AfterRead(r)
  \/ AfterTxStatement(r) \/ AfterCommit(r) \/ AfterAbort(r) \/ AfterUnlock(r)
  \/ AfterError(r) \/ Expire(r) \/ Interrupt(r) \/ NoticeLoss(r) \/ Crash(r)

\* Every run may have ended.
Done == (\A r \in Runs : phase[r] \in Finished) /\ UNCHANGED vars

Next == (\E r \in Runs : Postgres(r) \/ Program(r)) \/ Done

Spec == Init /\ [][Next]_vars

Step(r) ==
  \/ AfterLock(r) \/ AfterEnsure(r) \/ AfterRead(r) \/ AfterTxStatement(r)
  \/ AfterCommit(r) \/ AfterAbort(r) \/ AfterUnlock(r) \/ AfterError(r)
  \/ Interrupt(r) \/ NoticeLoss(r)

\* The session of a process that has exited.
Reap(r) == phase[r] \in {"failed", "crashed"} /\ EndSession(r)

(* A running program takes the replies that are there; every context has a    *)
(* timeout (server main.go:124, migrate main.go:55); the unlock has none, so   *)
(* Postgres must serve it; sessions of exited processes end.  Nothing is asked *)
(* of any other statement, so a migration may hang in the database.            *)
Fairness ==
  \A r \in Runs :
    WF_vars(Step(r)) /\ WF_vars(Expire(r)) /\ WF_vars(ReleaseLock(r)) /\ WF_vars(Reap(r))

FairSpec == Spec /\ Fairness

-------------------------------------------------------------------------------
(* Properties.                                                                *)

\* Every variable has its type.
TypeOK ==
  /\ schema \subseteq Versions
  /\ appliedAt \in [Versions -> Nat]
  /\ clock \in Nat \ {0}
  /\ tableReady \in BOOLEAN
  /\ lockHolder \in Runs \cup {NoRun}
  /\ conn \in [Runs -> {"closed", "busy", "replied", "refused", "idle"}]
  /\ stmt \in [Runs -> Statements]
  /\ txn \in [Runs -> SUBSET {"ddl", "row"}]
  /\ rows \in [Runs -> SUBSET Versions]
  /\ phase \in [Runs -> {"idle", "running"} \cup Finished]
  /\ cmd \in [Runs -> AllCommands \cup {"none"}]
  /\ files \in [Runs -> SUBSET Versions]
  /\ todo \in [Runs -> SUBSET Versions]
  /\ target \in [Runs -> Versions \cup {Nothing}]
  /\ failed \in [Runs -> BOOLEAN]
  /\ ctxDone \in [Runs -> BOOLEAN]
  /\ reported \in [Runs -> SUBSET Versions]
  /\ changed \in [Runs -> SUBSET Versions]

\* applyOne and revertOne: whatever fails or dies between the SQL and the row,
\* a migration is never applied but unrecorded, nor recorded but not applied.
SchemaMatchesRecord == schema = Recorded

\* advisoryLockKey: only the session that holds the lock has changes in flight,
\* even when its program has died and Postgres has not noticed.
OnlyHolderChanges == \A r \in Runs : txn[r] # {} => lockHolder = r

Migrating(r) ==
  \/ conn[r] # "closed" /\ stmt[r] \in {"begin", "ddl", "record"}
  \/ Serving(r, "commit")

\* MigrateVerbose reads schema_migrations once and then works from that list:
\* as long as it does, the list is still what the table says.
PlanIsCurrent ==
  \A r \in Runs : Migrating(r) =>
    todo[r] = IF cmd[r] = "up" THEN files[r] \ Recorded ELSE Recorded

\* advisoryLockKey: no replica ever sends the SQL of a migration that another
\* one has applied or that lacks what it needs, so no boot fails on it.
NoCollision == \A r \in Runs : Serving(r, "ddl") => Executable(r)

\* "A later one may depend on tables an earlier one created": whatever the mix
\* of builds, boots and rollbacks, no migration is left without what it needs.
PrerequisitesKept == \A v \in schema : Needs[v] \subseteq schema

\* The list that the operator sees names only migrations that did change, and
\* lacks at most the last one; without an error it lacks none.
ReportIsHonest ==
  \A r \in Runs :
    /\ reported[r] \subseteq changed[r]
    /\ changed[r] \ reported[r] \subseteq {target[r]}
    /\ phase[r] = "succeeded" => reported[r] = changed[r]

\* When a boot is about to return without error, and others may take the lock,
\* the database has every migration of its build; after -down -all, none.
SuccessMeansDone ==
  \A r \in Runs : (Serving(r, "unlock") /\ lockHolder = r /\ ~failed[r]) =>
    /\ cmd[r] = "up" => files[r] \subseteq Recorded
    /\ cmd[r] = "downAll" => Recorded = {}

\* The database changes as SchemaHistory says.
History == INSTANCE SchemaHistory WITH recorded <- Recorded
ImplementsHistory == History!Spec

\* withMigrationLock: no run waits for the lock, or for a migration that hangs,
\* for ever.
EveryRunReturns == \A r \in Runs : phase[r] = "running" ~> phase[r] \in Finished

\* withMigrationLock: the lock is never left behind, "a service that will not
\* boot again".
LockIsFreed == \A r \in Runs : lockHolder = r ~> lockHolder # r

-------------------------------------------------------------------------------
(* The inductive invariant behind the safety properties.                      *)

\* From the grant of the lock to its release, what the session was last sent.
HoldsLock(r) ==
  /\ conn[r] # "closed"
  /\ \/ stmt[r] \in TxStatements
     \/ stmt[r] \in {"ensure", "read"} /\ cmd[r] # "status"
     \/ stmt[r] = "lock" /\ conn[r] = "replied"
     \/ stmt[r] = "unlock" /\ conn[r] = "busy"

LockExact == \A r \in Runs : HoldsLock(r) <=> lockHolder = r

\* What the open transaction has done follows from the statement it is at.
TxnShape(r) ==
  /\ stmt[r] = "ddl" => txn[r] = IF conn[r] = "replied" THEN {"ddl"} ELSE {}
  /\ stmt[r] = "record" => txn[r] = IF conn[r] = "closed" THEN {}
                                   ELSE IF conn[r] = "replied" THEN {"ddl", "row"}
                                   ELSE {"ddl"}
  /\ stmt[r] = "commit" => txn[r] = IF conn[r] = "busy" THEN {"ddl", "row"} ELSE {}
  /\ stmt[r] = "abort" /\ conn[r] # "busy" => txn[r] = {}
  /\ stmt[r] \notin {"ddl", "record", "commit", "abort"} => txn[r] = {}

\* A session and its program go together.
SessionShape(r) ==
  /\ phase[r] = "idle" => conn[r] = "closed" /\ stmt[r] = "none"
  /\ phase[r] = "running" => conn[r] # "idle" /\ stmt[r] # "none"
  /\ stmt[r] = "none" => conn[r] = "closed" /\ phase[r] = "idle"
  /\ stmt[r] \notin {"none", "ensure", "read"} => cmd[r] \in {"up", "down", "downAll"}
  /\ stmt[r] \in {"ensure", "read"} => cmd[r] \in AllCommands
  /\ conn[r] = "idle" => \/ stmt[r] = "unlock"
                         \/ stmt[r] \in {"ensure", "read"} /\ cmd[r] = "status"
  /\ conn[r] = "refused" => stmt[r] \notin {"lock", "unlock", "abort"}
  /\ stmt[r] \in TxStatements => target[r] \in Versions
  /\ files[r] \in Images \cup {{}}

Lowest(v, S) == v \in S /\ \A w \in S : v <= w
Highest(v, S) == v \in S /\ \A w \in S : w <= v

\* What the run knows of schema_migrations, at each statement.
PlanShape(r) ==
  /\ Migrating(r) =>
       IF cmd[r] = "up"
         THEN todo[r] = files[r] \ Recorded /\ Lowest(target[r], todo[r])
         ELSE todo[r] = Recorded /\ Highest(target[r], todo[r])
  /\ Got(r, "commit") /\ cmd[r] = "up" =>
       todo[r] \ {target[r]} = files[r] \ Recorded
  /\ Got(r, "read") /\ cmd[r] # "status" => rows[r] = Recorded
  /\ stmt[r] = "unlock" /\ conn[r] = "busy" /\ ~failed[r] =>
       /\ cmd[r] = "up" => files[r] \subseteq Recorded
       /\ cmd[r] = "downAll" => Recorded = {}

\* A run's report lags what it changed only from a COMMIT to its reply, or for
\* good if the reply never gets through.
ReportShape(r) ==
  /\ reported[r] \subseteq changed[r]
  /\ changed[r] \ reported[r] \subseteq {target[r]}
  /\ Got(r, "commit") => target[r] \in changed[r]
  /\ stmt[r] = "commit" => phase[r] # "succeeded"
  /\ changed[r] # reported[r] => stmt[r] = "commit" /\ conn[r] \in {"replied", "closed"}

Inductive ==
  /\ TypeOK
  /\ LockExact
  /\ \A r \in Runs : TxnShape(r) /\ SessionShape(r) /\ PlanShape(r) /\ ReportShape(r)
  /\ SchemaMatchesRecord
  /\ PrerequisitesKept

==============================================================================
