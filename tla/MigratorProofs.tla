---------------------------- MODULE MigratorProofs ----------------------------
(* The safety properties of Migrator for any number of runs, any set of       *)
(* migrations and any mix of builds.                                          *)
EXTENDS Migrator, TLAPS

(* What the helpers of the program's actions leave in the variables they set. *)
LoopTypes ==
  /\ conn \in [Runs -> {"closed", "busy", "replied", "refused", "idle"}]
  /\ stmt \in [Runs -> Statements]
  /\ phase \in [Runs -> {"idle", "running"} \cup Finished]
  /\ failed \in [Runs -> BOOLEAN]

(* withMigrationLock returns with every variable in its type.                 *)
LEMMA LeaveTypes ==
  ASSUME LoopTypes, NEW r \in Runs, NEW e \in BOOLEAN, Leave(r, e)
  PROVE  LoopTypes'
  BY DEF LoopTypes, Leave, Send, Statements, Finished

(* So does a statement that goes out, or that ctx forbids.                    *)
LEMMA ContinueTypes ==
  ASSUME LoopTypes, NEW r \in Runs, NEW s \in TxStatements \cup {"ensure", "read"}, Continue(r, s)
  PROVE  LoopTypes'
<1>1. CASE ~ctxDone[r]
  BY <1>1 DEF LoopTypes, Continue, Send, Statements
<1>2. CASE ctxDone[r] /\ s \in TxStatements
  BY <1>2 DEF LoopTypes, Continue, HangUp, Finished
<1>3. CASE ctxDone[r] /\ s \notin TxStatements
  BY <1>3, LeaveTypes DEF Continue
<1> QED
  BY <1>1, <1>2, <1>3

(* So does a turn of MigrateVerbose's loop.                                   *)
LEMMA ApplyNextTypes ==
  ASSUME LoopTypes, todo \in [Runs -> SUBSET Versions],
         target \in [Runs -> Versions \cup {Nothing}],
         NEW r \in Runs, NEW S \in SUBSET Versions, ApplyNext(r, S)
  PROVE  /\ LoopTypes'
         /\ todo' \in [Runs -> SUBSET Versions]
         /\ target' \in [Runs -> Versions \cup {Nothing}]
<1>1. CASE S = {} /\ Leave(r, FALSE) /\ UNCHANGED target
  BY <1>1, LeaveTypes DEF ApplyNext
<1>2. ASSUME NEW v \in S, target' = [target EXCEPT ![r] = v], Continue(r, "begin")
      PROVE  LoopTypes' /\ target' \in [Runs -> Versions \cup {Nothing}]
  BY <1>2, ContinueTypes DEF TxStatements
<1> QED
  BY <1>1, <1>2 DEF ApplyNext

(* So does a turn of Rollback's loop.                                         *)
LEMMA RevertNextTypes ==
  ASSUME LoopTypes, todo \in [Runs -> SUBSET Versions],
         target \in [Runs -> Versions \cup {Nothing}],
         NEW r \in Runs, NEW S \in SUBSET Versions, RevertNext(r, S)
  PROVE  /\ LoopTypes'
         /\ todo' \in [Runs -> SUBSET Versions]
         /\ target' \in [Runs -> Versions \cup {Nothing}]
<1>1. CASE Leave(r, FALSE) /\ UNCHANGED target
  BY <1>1, LeaveTypes DEF RevertNext
<1>2. CASE Leave(r, TRUE) /\ UNCHANGED target
  BY <1>2, LeaveTypes DEF RevertNext
<1>3. ASSUME NEW v \in S, target' = [target EXCEPT ![r] = v], Continue(r, "begin")
      PROVE  LoopTypes' /\ target' \in [Runs -> Versions \cup {Nothing}]
  BY <1>3, ContinueTypes DEF TxStatements
<1> QED
  BY <1>1, <1>2, <1>3 DEF RevertNext

(* Every step keeps the types.                                                *)
LEMMA TypeStep ==
  ASSUME TypeOK, \A r \in Runs : SessionShape(r),
         NEW r \in Runs, Postgres(r) \/ Program(r)
  PROVE  TypeOK'
<1>0. LoopTypes
  BY DEF TypeOK, LoopTypes
<1> USE DEF TypeOK, database, sessions, programs
<1>1. CASE GrantLock(r)
  BY <1>1 DEF GrantLock, Serving, Reply
<1>2. CASE ReleaseLock(r)
  BY <1>2 DEF ReleaseLock, Serving, Reply
<1>3. CASE EnsureTable(r)
  BY <1>3 DEF EnsureTable, Serving, Reply
<1>4. CASE ReadVersions(r)
  BY <1>4 DEF ReadVersions, Serving, Reply, Recorded
<1>5. CASE BeginTxn(r)
  BY <1>5 DEF BeginTxn, Serving, Reply
<1>6. CASE ExecuteDDL(r)
  BY <1>6 DEF ExecuteDDL, Serving, Reply
<1>7. CASE RecordVersion(r)
  BY <1>7 DEF RecordVersion, Serving, Reply
<1>8. CASE CommitTxn(r)
  <2>1. target[r] \in Versions
    BY <1>8 DEF CommitTxn, Serving, SessionShape, TxStatements
  <2>2. appliedAt' \in [Versions -> Nat] /\ schema' \subseteq Versions
    BY <1>8, <2>1 DEF CommitTxn
  <2>3. changed' \in [Runs -> SUBSET Versions]
    BY <1>8, <2>1 DEF CommitTxn
  <2> QED
    BY <1>8, <2>2, <2>3 DEF CommitTxn, Reply
<1>9. CASE AbortTxn(r)
  BY <1>9 DEF AbortTxn, Serving, Reply
<1>10. CASE Refuse(r)
  BY <1>10 DEF Refuse, Serving, Reply
<1>11. CASE EndSession(r)
  BY <1>11 DEF EndSession, Serving, Reply
<1>12. CASE Start(r)
  BY <1>12, MigratorAssumption DEF Start, Send, Statements, Finished
<1>13. CASE AfterLock(r)
  <2>1. LoopTypes'
    BY <1>13, <1>0, ContinueTypes DEF AfterLock, TxStatements
  <2> QED
    BY <1>13, <2>1 DEF AfterLock, LoopTypes
<1>14. CASE AfterEnsure(r)
  <2>1. LoopTypes'
    BY <1>14, <1>0, ContinueTypes DEF AfterEnsure, TxStatements
  <2> QED
    BY <1>14, <2>1 DEF AfterEnsure, LoopTypes
<1>15. CASE AfterRead(r)
  <2>1. /\ LoopTypes'
        /\ todo' \in [Runs -> SUBSET Versions]
        /\ target' \in [Runs -> Versions \cup {Nothing}]
    BY <1>15, <1>0, ApplyNextTypes, RevertNextTypes, LeaveTypes DEF AfterRead
  <2> QED
    BY <1>15, <2>1 DEF AfterRead, LoopTypes
<1>16. CASE AfterTxStatement(r)
  <2>1. LoopTypes'
    BY <1>16, <1>0, ContinueTypes DEF AfterTxStatement, TxStatements
  <2> QED
    BY <1>16, <2>1 DEF AfterTxStatement, LoopTypes
<1>17. CASE AfterCommit(r)
  <2>1. target[r] \in Versions
    BY <1>17 DEF AfterCommit, Got, SessionShape, TxStatements
  <2>2. /\ LoopTypes'
        /\ todo' \in [Runs -> SUBSET Versions]
        /\ target' \in [Runs -> Versions \cup {Nothing}]
    BY <1>17, <1>0, ApplyNextTypes, ContinueTypes, LeaveTypes DEF AfterCommit
  <2>3. reported' \in [Runs -> SUBSET Versions]
    BY <1>17, <2>1 DEF AfterCommit
  <2> QED
    BY <1>17, <2>2, <2>3 DEF AfterCommit, LoopTypes
<1>18. CASE AfterAbort(r)
  <2>1. LoopTypes'
    BY <1>18, <1>0, LeaveTypes DEF AfterAbort
  <2> QED
    BY <1>18, <2>1 DEF AfterAbort, LoopTypes
<1>19. CASE AfterUnlock(r)
  BY <1>19 DEF AfterUnlock, Finished
<1>20. CASE AfterError(r)
  <2>1. CASE stmt[r] = "begin" /\ HangUp(r)
    BY <1>20, <2>1 DEF AfterError, HangUp, Finished
  <2>2. CASE Leave(r, TRUE) \/ Continue(r, "abort")
    <3>1. LoopTypes'
      BY <2>2, <1>0, ContinueTypes, LeaveTypes DEF TxStatements
    <3> QED
      BY <1>20, <3>1 DEF AfterError, LoopTypes
  <2> QED
    BY <1>20, <2>1, <2>2 DEF AfterError
<1>21. CASE Expire(r)
  BY <1>21 DEF Expire
<1>22. CASE Interrupt(r)
  BY <1>22 DEF Interrupt, HangUp, Finished
<1>23. CASE NoticeLoss(r)
  BY <1>23 DEF NoticeLoss, HangUp, Finished
<1>24. CASE Crash(r)
  BY <1>24 DEF Crash, Finished
<1> QED
  BY <1>1, <1>2, <1>3, <1>4, <1>5, <1>6, <1>7, <1>8, <1>9, <1>10, <1>11, <1>12,
     <1>13, <1>14, <1>15, <1>16, <1>17, <1>18, <1>19, <1>20, <1>21, <1>22, <1>23, <1>24
     DEF Postgres, Program

(* Every step keeps the lock with the session between its grant and its       *)
(* release, and with no other: that is what makes it exclusive.               *)
LEMMA LockStep ==
  ASSUME TypeOK, LockExact, \A r \in Runs : SessionShape(r),
         NEW r \in Runs, Postgres(r) \/ Program(r)
  PROVE  LockExact'
<1> SUFFICES ASSUME NEW q \in Runs
             PROVE  HoldsLock(q)' <=> lockHolder' = q
  BY DEF LockExact
<1> USE MigratorAssumption DEF TypeOK, LockExact, HoldsLock, SessionShape, TxStatements,
        AllCommands, database, sessions, programs
<1>1. CASE GrantLock(r)
  BY <1>1 DEF GrantLock, Serving, Reply
<1>2. CASE ReleaseLock(r)
  BY <1>2 DEF ReleaseLock, Serving, Reply
<1>3. CASE EnsureTable(r)
  BY <1>3 DEF EnsureTable, Serving, Reply
<1>4. CASE ReadVersions(r)
  BY <1>4 DEF ReadVersions, Serving, Reply
<1>5. CASE BeginTxn(r)
  BY <1>5 DEF BeginTxn, Serving, Reply
<1>6. CASE ExecuteDDL(r)
  BY <1>6 DEF ExecuteDDL, Serving, Reply
<1>7. CASE RecordVersion(r)
  BY <1>7 DEF RecordVersion, Serving, Reply
<1>8. CASE CommitTxn(r)
  BY <1>8 DEF CommitTxn, Serving, Reply
<1>9. CASE AbortTxn(r)
  BY <1>9 DEF AbortTxn, Serving, Reply
<1>10. CASE Refuse(r)
  BY <1>10 DEF Refuse
<1>11. CASE EndSession(r)
  BY <1>11 DEF EndSession
<1>12. CASE Start(r)
  BY <1>12 DEF Start, Send
<1>13. CASE AfterLock(r)
  BY <1>13 DEF AfterLock, Got, Continue, Send, Leave, HangUp
<1>14. CASE AfterEnsure(r)
  BY <1>14 DEF AfterEnsure, Got, Continue, Send, Leave, HangUp
<1>15. CASE AfterRead(r)
  BY <1>15 DEF AfterRead, Got, Continue, Send, Leave, HangUp, ApplyNext, RevertNext
<1>16. CASE AfterTxStatement(r)
  BY <1>16 DEF AfterTxStatement, Got, Continue, Send, Leave, HangUp
<1>17. CASE AfterCommit(r)
  BY <1>17 DEF AfterCommit, Got, Continue, Send, Leave, HangUp, ApplyNext, RevertNext
<1>18. CASE AfterAbort(r)
  BY <1>18 DEF AfterAbort, Got, Leave, Send
<1>19. CASE AfterUnlock(r)
  BY <1>19 DEF AfterUnlock, Got
<1>20. CASE AfterError(r)
  BY <1>20 DEF AfterError, Continue, Send, Leave, HangUp
<1>21. CASE Expire(r)
  BY <1>21 DEF Expire
<1>22. CASE Interrupt(r)
  BY <1>22 DEF Interrupt, HangUp
<1>23. CASE NoticeLoss(r)
  BY <1>23 DEF NoticeLoss, HangUp
<1>24. CASE Crash(r)
  BY <1>24 DEF Crash
<1> QED
  BY <1>1, <1>2, <1>3, <1>4, <1>5, <1>6, <1>7, <1>8, <1>9, <1>10, <1>11, <1>12,
     <1>13, <1>14, <1>15, <1>16, <1>17, <1>18, <1>19, <1>20, <1>21, <1>22, <1>23, <1>24
     DEF Postgres, Program

(* Every step keeps what a transaction has done in line with the statement    *)
(* the session is at.                                                         *)
LEMMA TxnStep ==
  ASSUME TypeOK, \A q \in Runs : SessionShape(q) /\ TxnShape(q),
         NEW r \in Runs, Postgres(r) \/ Program(r)
  PROVE  \A q \in Runs : TxnShape(q)'
<1> SUFFICES ASSUME NEW q \in Runs
             PROVE  TxnShape(q)'
  OBVIOUS
<1> USE DEF TypeOK, TxnShape, SessionShape, TxStatements, database, sessions, programs
<1>1. CASE GrantLock(r)
  BY <1>1 DEF GrantLock, Serving, Reply
<1>2. CASE ReleaseLock(r)
  BY <1>2 DEF ReleaseLock, Serving, Reply
<1>3. CASE EnsureTable(r)
  BY <1>3 DEF EnsureTable, Serving, Reply
<1>4. CASE ReadVersions(r)
  BY <1>4 DEF ReadVersions, Serving, Reply
<1>5. CASE BeginTxn(r)
  BY <1>5 DEF BeginTxn, Serving, Reply
<1>6. CASE ExecuteDDL(r)
  <2>1. /\ stmt[r] = "ddl" /\ conn[r] = "busy" /\ stmt' = stmt
        /\ conn' = [conn EXCEPT ![r] = "replied"]
        /\ txn' = [txn EXCEPT ![r] = {} \cup {"ddl"}]
    BY <1>6 DEF ExecuteDDL, Serving, Reply
  <2>2. {} \cup {"ddl"} = {"ddl"}
    OBVIOUS
  <2>3. CASE q = r
    <3>1. txn'[q] = {"ddl"} /\ conn'[q] = "replied" /\ stmt'[q] = "ddl"
      BY <2>1, <2>2, <2>3
    <3> QED
      BY <3>1
  <2>4. CASE q # r
    BY <2>1, <2>4
  <2> QED
    BY <2>3, <2>4
<1>7. CASE RecordVersion(r)
  <2>1. /\ stmt[r] = "record" /\ conn[r] = "busy" /\ stmt' = stmt
        /\ conn' = [conn EXCEPT ![r] = "replied"]
        /\ txn' = [txn EXCEPT ![r] = {"ddl"} \cup {"row"}]
    BY <1>7 DEF RecordVersion, Serving, Reply
  <2>2. {"ddl"} \cup {"row"} = {"ddl", "row"}
    OBVIOUS
  <2>3. CASE q = r
    <3>1. txn'[q] = {"ddl", "row"} /\ conn'[q] = "replied" /\ stmt'[q] = "record"
      BY <2>1, <2>2, <2>3
    <3> QED
      BY <3>1
  <2>4. CASE q # r
    BY <2>1, <2>4
  <2> QED
    BY <2>3, <2>4
<1>8. CASE CommitTxn(r)
  BY <1>8 DEF CommitTxn, Serving, Reply
<1>9. CASE AbortTxn(r)
  BY <1>9 DEF AbortTxn, Serving, Reply
<1>10. CASE Refuse(r)
  BY <1>10 DEF Refuse
<1>11. CASE EndSession(r)
  BY <1>11 DEF EndSession
<1>12. CASE Start(r)
  BY <1>12 DEF Start, Send
<1>13. CASE AfterLock(r)
  BY <1>13 DEF AfterLock, Got, Continue, Send, Leave, HangUp
<1>14. CASE AfterEnsure(r)
  BY <1>14 DEF AfterEnsure, Got, Continue, Send, Leave, HangUp
<1>15. CASE AfterRead(r)
  BY <1>15 DEF AfterRead, Got, Continue, Send, Leave, HangUp, ApplyNext, RevertNext
<1>16. CASE AfterTxStatement(r)
  BY <1>16 DEF AfterTxStatement, Got, Continue, Send, Leave, HangUp
<1>17. CASE AfterCommit(r)
  BY <1>17 DEF AfterCommit, Got, Continue, Send, Leave, HangUp, ApplyNext, RevertNext
<1>18. CASE AfterAbort(r)
  BY <1>18 DEF AfterAbort, Got, Leave, Send
<1>19. CASE AfterUnlock(r)
  BY <1>19 DEF AfterUnlock, Got
<1>20. CASE AfterError(r)
  BY <1>20 DEF AfterError, Continue, Send, Leave, HangUp
<1>21. CASE Expire(r)
  BY <1>21 DEF Expire
<1>22. CASE Interrupt(r)
  BY <1>22 DEF Interrupt, HangUp
<1>23. CASE NoticeLoss(r)
  BY <1>23 DEF NoticeLoss, HangUp
<1>24. CASE Crash(r)
  BY <1>24 DEF Crash
<1> QED
  BY <1>1, <1>2, <1>3, <1>4, <1>5, <1>6, <1>7, <1>8, <1>9, <1>10, <1>11, <1>12,
     <1>13, <1>14, <1>15, <1>16, <1>17, <1>18, <1>19, <1>20, <1>21, <1>22, <1>23, <1>24
     DEF Postgres, Program

(* Every step keeps a session and its program together.                       *)
LEMMA SessionStep ==
  ASSUME TypeOK, \A q \in Runs : SessionShape(q),
         NEW r \in Runs, Postgres(r) \/ Program(r)
  PROVE  \A q \in Runs : SessionShape(q)'
<1> SUFFICES ASSUME NEW q \in Runs
             PROVE  SessionShape(q)'
  OBVIOUS
<1> USE MigratorAssumption DEF TypeOK, SessionShape, TxStatements, AllCommands, Statements,
        Finished, database, sessions, programs
<1>1. CASE GrantLock(r)
  BY <1>1 DEF GrantLock, Serving, Reply
<1>2. CASE ReleaseLock(r)
  BY <1>2 DEF ReleaseLock, Serving, Reply
<1>3. CASE EnsureTable(r)
  BY <1>3 DEF EnsureTable, Serving, Reply
<1>4. CASE ReadVersions(r)
  BY <1>4 DEF ReadVersions, Serving, Reply
<1>5. CASE BeginTxn(r)
  BY <1>5 DEF BeginTxn, Serving, Reply
<1>6. CASE ExecuteDDL(r)
  BY <1>6 DEF ExecuteDDL, Serving, Reply
<1>7. CASE RecordVersion(r)
  BY <1>7 DEF RecordVersion, Serving, Reply
<1>8. CASE CommitTxn(r)
  BY <1>8 DEF CommitTxn, Serving, Reply
<1>9. CASE AbortTxn(r)
  BY <1>9 DEF AbortTxn, Serving, Reply
<1>10. CASE Refuse(r)
  BY <1>10 DEF Refuse
<1>11. CASE EndSession(r)
  BY <1>11 DEF EndSession
<1>12. CASE Start(r)
  BY <1>12 DEF Start, Send
<1>13. CASE AfterLock(r)
  BY <1>13 DEF AfterLock, Got, Continue, Send, Leave, HangUp
<1>14. CASE AfterEnsure(r)
  BY <1>14 DEF AfterEnsure, Got, Continue, Send, Leave, HangUp
<1>15. CASE AfterRead(r)
  BY <1>15 DEF AfterRead, Got, Continue, Send, Leave, HangUp, ApplyNext, RevertNext
<1>16. CASE AfterTxStatement(r)
  BY <1>16 DEF AfterTxStatement, Got, Continue, Send, Leave, HangUp
<1>17. CASE AfterCommit(r)
  BY <1>17 DEF AfterCommit, Got, Continue, Send, Leave, HangUp, ApplyNext, RevertNext
<1>18. CASE AfterAbort(r)
  BY <1>18 DEF AfterAbort, Got, Leave, Send
<1>19. CASE AfterUnlock(r)
  BY <1>19 DEF AfterUnlock, Got
<1>20. CASE AfterError(r)
  BY <1>20 DEF AfterError, Continue, Send, Leave, HangUp
<1>21. CASE Expire(r)
  BY <1>21 DEF Expire
<1>22. CASE Interrupt(r)
  BY <1>22 DEF Interrupt, HangUp
<1>23. CASE NoticeLoss(r)
  BY <1>23 DEF NoticeLoss, HangUp
<1>24. CASE Crash(r)
  BY <1>24 DEF Crash
<1> QED
  BY <1>1, <1>2, <1>3, <1>4, <1>5, <1>6, <1>7, <1>8, <1>9, <1>10, <1>11, <1>12,
     <1>13, <1>14, <1>15, <1>16, <1>17, <1>18, <1>19, <1>20, <1>21, <1>22, <1>23, <1>24
     DEF Postgres, Program

(* A run reports a migration when, and only when, its COMMIT has answered.    *)
LEMMA ReportStep ==
  ASSUME TypeOK, \A q \in Runs : SessionShape(q) /\ ReportShape(q),
         NEW r \in Runs, Postgres(r) \/ Program(r)
  PROVE  \A q \in Runs : ReportShape(q)'
<1> SUFFICES ASSUME NEW q \in Runs
             PROVE  ReportShape(q)'
  OBVIOUS
<1> USE DEF TypeOK, SessionShape, ReportShape, Got, TxStatements, Finished, database, sessions, programs
<1>1. CASE GrantLock(r)
  BY <1>1 DEF GrantLock, Serving, Reply
<1>2. CASE ReleaseLock(r)
  BY <1>2 DEF ReleaseLock, Serving, Reply
<1>3. CASE EnsureTable(r)
  BY <1>3 DEF EnsureTable, Serving, Reply
<1>4. CASE ReadVersions(r)
  BY <1>4 DEF ReadVersions, Serving, Reply
<1>5. CASE BeginTxn(r)
  BY <1>5 DEF BeginTxn, Serving, Reply
<1>6. CASE ExecuteDDL(r)
  BY <1>6 DEF ExecuteDDL, Serving, Reply
<1>7. CASE RecordVersion(r)
  BY <1>7 DEF RecordVersion, Serving, Reply
<1>8. CASE CommitTxn(r)
  <2>1. /\ stmt[r] = "commit" /\ conn[r] = "busy" /\ UNCHANGED <<stmt, programs>>
        /\ conn' = [conn EXCEPT ![r] = "replied"]
        /\ changed' = [changed EXCEPT ![r] = @ \cup {target[r]}]
    BY <1>8 DEF CommitTxn, Serving, Reply
  <2>2. target[r] \in Versions /\ changed[r] = reported[r] /\ phase[r] # "succeeded"
    BY <2>1
  <2>3. CASE q = r
    <3>1. changed'[q] = reported[q] \cup {target[q]} /\ conn'[q] = "replied"
      BY <2>1, <2>2, <2>3
    <3> QED
      BY <2>1, <2>2, <2>3, <3>1
  <2>4. CASE q # r
    BY <2>1, <2>4
  <2> QED
    BY <2>3, <2>4
<1>9. CASE AbortTxn(r)
  BY <1>9 DEF AbortTxn, Serving, Reply
<1>10. CASE Refuse(r)
  BY <1>10 DEF Refuse
<1>11. CASE EndSession(r)
  BY <1>11 DEF EndSession
<1>12. CASE Start(r)
  BY <1>12 DEF Start, Send
<1>13. CASE AfterLock(r)
  BY <1>13 DEF AfterLock, Continue, Send, Leave, HangUp
<1>14. CASE AfterEnsure(r)
  BY <1>14 DEF AfterEnsure, Continue, Send, Leave, HangUp
<1>15. CASE AfterRead(r)
  BY <1>15 DEF AfterRead, Continue, Send, Leave, HangUp, ApplyNext, RevertNext
<1>16. CASE AfterTxStatement(r)
  BY <1>16 DEF AfterTxStatement, Continue, Send, Leave, HangUp
<1>17. CASE AfterCommit(r)
  BY <1>17 DEF AfterCommit, Continue, Send, Leave, HangUp, ApplyNext
<1>18. CASE AfterAbort(r)
  BY <1>18 DEF AfterAbort, Leave, Send
<1>19. CASE AfterUnlock(r)
  BY <1>19 DEF AfterUnlock
<1>20. CASE AfterError(r)
  BY <1>20 DEF AfterError, Continue, Send, Leave, HangUp
<1>21. CASE Expire(r)
  BY <1>21 DEF Expire
<1>22. CASE Interrupt(r)
  BY <1>22 DEF Interrupt, HangUp
<1>23. CASE NoticeLoss(r)
  BY <1>23 DEF NoticeLoss, HangUp
<1>24. CASE Crash(r)
  BY <1>24 DEF Crash
<1> QED
  BY <1>1, <1>2, <1>3, <1>4, <1>5, <1>6, <1>7, <1>8, <1>9, <1>10, <1>11, <1>12,
     <1>13, <1>14, <1>15, <1>16, <1>17, <1>18, <1>19, <1>20, <1>21, <1>22, <1>23, <1>24
     DEF Postgres, Program

(* Only a COMMIT changes what the database has and records.                   *)
LEMMA OnlyCommitChanges ==
  ASSUME NEW r \in Runs, Postgres(r) \/ Program(r), ~CommitTxn(r)
  PROVE  UNCHANGED <<schema, appliedAt>>
  BY DEF Postgres, Program, database, sessions, programs, GrantLock, ReleaseLock, EnsureTable,
         ReadVersions, BeginTxn, ExecuteDDL, RecordVersion, AbortTxn, Refuse, EndSession,
         Start, AfterLock, AfterEnsure, AfterRead, AfterTxStatement, AfterCommit, AfterAbort,
         AfterUnlock, AfterError, Expire, Interrupt, NoticeLoss, Crash

(* A COMMIT applies the lowest migration its run still has to do, after all   *)
(* it needs, or reverts the highest one recorded: both halves of it.          *)
LEMMA CommitEffect ==
  ASSUME Inductive, NEW r \in Runs, CommitTxn(r)
  PROVE  /\ target[r] \in Versions
         /\ cmd[r] = "up" => History!Apply(target[r]) /\ Lowest(target[r], todo[r])
         /\ cmd[r] # "up" => History!Revert(target[r])
<1> DEFINE v == target[r]
<1> USE MigratorAssumption DEF Inductive
<1>1. /\ stmt[r] = "commit" /\ conn[r] = "busy" /\ v \in Versions /\ clock # 0
      /\ Serving(r, "commit")
  BY DEF CommitTxn, Serving, SessionShape, TxStatements, TypeOK
<1>2. txn[r] = {"ddl", "row"}
  BY <1>1 DEF TxnShape
<1>3. /\ schema' = IF cmd[r] = "up" THEN schema \cup {v} ELSE schema \ {v}
      /\ appliedAt' = [appliedAt EXCEPT ![v] = IF cmd[r] = "up" THEN clock ELSE 0]
  BY <1>2 DEF CommitTxn
<1>4. Recorded' = IF cmd[r] = "up" THEN Recorded \cup {v} ELSE Recorded \ {v}
  BY <1>1, <1>3 DEF Recorded, TypeOK
<1>5. IF cmd[r] = "up"
        THEN todo[r] = files[r] \ Recorded /\ Lowest(v, todo[r])
        ELSE todo[r] = Recorded /\ Highest(v, todo[r])
  BY <1>1 DEF PlanShape, Migrating
<1>6. ASSUME cmd[r] = "up"
      PROVE  History!Apply(v)
  <2>1. v \in files[r] /\ v \notin Recorded
    BY <1>5, <1>6 DEF Lowest
  <2>2. files[r] \in Images
    BY <2>1 DEF SessionShape
  <2>3. ASSUME NEW w \in Needs[v]
        PROVE  w \in Recorded
    <3>1. w \in files[r]
      BY <2>1, <2>2 DEF TypeOK
    <3>2. w < v /\ w \in Nat /\ v \in Nat
      BY <1>1
    <3>3. w \notin todo[r]
      BY <3>2, <1>5, <1>6 DEF Lowest
    <3> QED
      BY <3>1, <3>3, <1>5, <1>6
  <2> QED
    BY <2>1, <2>3, <1>3, <1>4, <1>6 DEF History!Apply
<1>7. ASSUME cmd[r] # "up"
      PROVE  History!Revert(v)
  BY <1>3, <1>4, <1>5, <1>7 DEF History!Revert, Highest
<1> QED
  BY <1>1, <1>5, <1>6, <1>7

(* Every step of the system is a step of SchemaHistory or leaves it alone.    *)
LEMMA HistoryStep ==
  ASSUME Inductive, Next
  PROVE  [History!Next]_(History!history)
<1>1. ASSUME NEW r \in Runs, CommitTxn(r)
      PROVE  History!Next
  BY <1>1, CommitEffect DEF History!Next
<1>2. ASSUME UNCHANGED <<schema, appliedAt>>
      PROVE  UNCHANGED History!history
  BY <1>2 DEF History!history, Recorded
<1>3. ASSUME Done
      PROVE  UNCHANGED <<schema, appliedAt>>
  BY <1>3 DEF Done, vars, database
<1> QED
  BY <1>1, <1>2, <1>3, OnlyCommitChanges DEF Next

(* What SchemaHistory may do keeps the tables and the record together and     *)
(* every prerequisite in place.                                               *)
LEMMA HistoryKeeps ==
  ASSUME SchemaMatchesRecord, PrerequisitesKept, schema \subseteq Versions,
         [History!Next]_(History!history)
  PROVE  SchemaMatchesRecord' /\ PrerequisitesKept'
<1>1. ASSUME NEW v \in Versions, History!Apply(v)
      PROVE  SchemaMatchesRecord' /\ PrerequisitesKept'
  BY <1>1 DEF History!Apply, SchemaMatchesRecord, PrerequisitesKept
<1>2. ASSUME NEW v \in Versions, History!Revert(v)
      PROVE  SchemaMatchesRecord' /\ PrerequisitesKept'
  <2>1. ASSUME NEW u \in schema, u # v
        PROVE  v \notin Needs[u]
    <3>1. u <= v /\ u \in Nat /\ v \in Nat
      BY <1>2, <2>1, MigratorAssumption DEF History!Revert, SchemaMatchesRecord
    <3>2. \A w \in Needs[u] : w < u /\ w \in Nat
      BY <2>1, MigratorAssumption
    <3> QED
      BY <3>1, <3>2
  <2> QED
    BY <1>2, <2>1 DEF History!Revert, SchemaMatchesRecord, PrerequisitesKept
<1>3. ASSUME UNCHANGED History!history
      PROVE  SchemaMatchesRecord' /\ PrerequisitesKept'
  BY <1>3 DEF History!history, SchemaMatchesRecord, PrerequisitesKept
<1> QED
  BY <1>1, <1>2, <1>3 DEF History!Next

(* A run's step leaves the sessions and the programs of the others alone.     *)
LEMMA OthersUnchanged ==
  ASSUME TypeOK, NEW r \in Runs, NEW q \in Runs, q # r, Postgres(r) \/ Program(r)
  PROVE  /\ conn'[q] = conn[q] /\ stmt'[q] = stmt[q] /\ phase'[q] = phase[q]
         /\ cmd'[q] = cmd[q] /\ files'[q] = files[q] /\ todo'[q] = todo[q]
         /\ target'[q] = target[q] /\ rows'[q] = rows[q] /\ failed'[q] = failed[q]
<1> USE DEF TypeOK, database, sessions, programs
<1>1. CASE Postgres(r)
  BY <1>1 DEF Postgres, Reply, GrantLock, ReleaseLock, EnsureTable, ReadVersions, BeginTxn,
         ExecuteDDL, RecordVersion, CommitTxn, AbortTxn, Refuse, EndSession
<1>2. CASE AfterLock(r) \/ AfterEnsure(r) \/ AfterTxStatement(r) \/ AfterAbort(r)
  BY <1>2 DEF AfterLock, AfterEnsure, AfterTxStatement, AfterAbort, Continue, Send, Leave, HangUp
<1>3. CASE AfterRead(r)
  BY <1>3 DEF AfterRead, ApplyNext, RevertNext, Continue, Send, Leave, HangUp
<1>4. CASE AfterCommit(r)
  BY <1>4 DEF AfterCommit, ApplyNext, Continue, Send, Leave, HangUp
<1>5. CASE Start(r) \/ AfterUnlock(r) \/ Expire(r) \/ Crash(r)
  BY <1>5 DEF Start, AfterUnlock, Expire, Crash, Send
<1>6. CASE AfterError(r) \/ Interrupt(r) \/ NoticeLoss(r)
  BY <1>6 DEF AfterError, Interrupt, NoticeLoss, Continue, Send, Leave, HangUp
<1> QED
  BY <1>1, <1>2, <1>3, <1>4, <1>5, <1>6 DEF Program

(* The lock keeps every other run's plan true while one of them commits.      *)
LEMMA OthersPlanStep ==
  ASSUME Inductive, NEW r \in Runs, NEW q \in Runs, q # r, Postgres(r) \/ Program(r)
  PROVE  PlanShape(q)'
<1> USE DEF Inductive
<1>1. /\ conn'[q] = conn[q] /\ stmt'[q] = stmt[q] /\ phase'[q] = phase[q]
      /\ cmd'[q] = cmd[q] /\ files'[q] = files[q] /\ todo'[q] = todo[q]
      /\ target'[q] = target[q] /\ rows'[q] = rows[q] /\ failed'[q] = failed[q]
  BY OthersUnchanged
<1>2. CASE CommitTxn(r)
  <2>1. HoldsLock(r)
    BY <1>2 DEF CommitTxn, Serving, HoldsLock, TxStatements
  <2>2. ~HoldsLock(q)
    BY <2>1 DEF LockExact
  <2> QED
    BY <1>1, <2>2 DEF PlanShape, Migrating, Got, Serving, HoldsLock, TxStatements
<1>3. CASE ~CommitTxn(r)
  <2>1. Recorded' = Recorded
    BY <1>3, OnlyCommitChanges DEF Recorded
  <2> QED
    BY <1>1, <2>1 DEF PlanShape, Migrating, Got, Serving
<1> QED
  BY <1>2, <1>3

(* A run that has just read schema_migrations knows what it says, and works   *)
(* it off from the lowest migration up or from the highest one down.          *)
LEMMA OwnPlanStep ==
  ASSUME Inductive, NEW r \in Runs, Postgres(r) \/ Program(r)
  PROVE  PlanShape(r)'
<1>0. SessionShape(r) /\ PlanShape(r) /\ TypeOK
  BY DEF Inductive
<1>a. ~CommitTxn(r) => Recorded' = Recorded
  BY OnlyCommitChanges DEF Recorded
<1> USE <1>0, <1>a DEF PlanShape, SessionShape, TypeOK, TxStatements, database, sessions, programs,
        Migrating, Got, Serving
<1>1. CASE GrantLock(r)
  BY <1>1 DEF GrantLock, CommitTxn, Reply
<1>2. CASE ReleaseLock(r)
  BY <1>2 DEF ReleaseLock, CommitTxn, Reply
<1>3. CASE EnsureTable(r)
  BY <1>3 DEF EnsureTable, CommitTxn, Reply
<1>4. CASE ReadVersions(r)
  BY <1>4 DEF ReadVersions, CommitTxn, Reply
<1>5. CASE BeginTxn(r)
  BY <1>5 DEF BeginTxn, CommitTxn, Reply
<1>6. CASE ExecuteDDL(r)
  BY <1>6 DEF ExecuteDDL, CommitTxn, Reply
<1>7. CASE RecordVersion(r)
  BY <1>7 DEF RecordVersion, CommitTxn, Reply
<1>8. CASE CommitTxn(r)
  <2>1. Serving(r, "commit") /\ conn' = [conn EXCEPT ![r] = "replied"]
        /\ UNCHANGED <<stmt, rows, programs>>
    BY <1>8 DEF CommitTxn, Reply
  <2>2. CASE cmd[r] = "up"
    <3>1. Recorded' = Recorded \cup {target[r]} /\ todo[r] = files[r] \ Recorded
      BY <1>8, <2>1, <2>2, CommitEffect DEF History!Apply
    <3> QED
      BY <2>1, <2>2, <3>1
  <2>3. CASE cmd[r] # "up"
    BY <2>1, <2>3
  <2> QED
    BY <2>2, <2>3
<1>9. CASE AbortTxn(r)
  BY <1>9 DEF AbortTxn, CommitTxn, Reply
<1>10. CASE Refuse(r)
  BY <1>10 DEF Refuse, CommitTxn
<1>11. CASE EndSession(r)
  BY <1>11 DEF EndSession, CommitTxn
<1>12. CASE Start(r)
  BY <1>12 DEF Start, CommitTxn, Send
<1>13. CASE AfterLock(r)
  BY <1>13 DEF AfterLock, CommitTxn, Continue, Send, Leave, HangUp, Highest, Lowest
<1>14. CASE AfterEnsure(r)
  BY <1>14 DEF AfterEnsure, CommitTxn, Continue, Send, Leave, HangUp, Highest, Lowest
<1>15. CASE AfterRead(r)
  <2>0. ~CommitTxn(r)
    BY <1>15 DEF AfterRead, CommitTxn
  <2>1. CASE cmd[r] = "up"
    BY <1>15, <2>0, <2>1 DEF AfterRead, ApplyNext, Lowest, Continue, Send, Leave, HangUp, CommitTxn
  <2>2. CASE cmd[r] \in {"down", "downAll"}
    BY <1>15, <2>0, <2>2 DEF AfterRead, RevertNext, Highest, Continue, Send, Leave, HangUp, CommitTxn
  <2>3. CASE cmd[r] = "status"
    BY <1>15, <2>3 DEF AfterRead, Leave
  <2> QED
    BY <1>15, <2>1, <2>2, <2>3 DEF AfterRead
<1>16. CASE AfterTxStatement(r)
  BY <1>16 DEF AfterTxStatement, CommitTxn, Continue, Send, Leave, HangUp, Highest, Lowest
<1>17. CASE AfterCommit(r)
  <2>0. ~CommitTxn(r)
    BY <1>17 DEF AfterCommit, CommitTxn
  <2>1. CASE cmd[r] = "up"
    BY <1>17, <2>0, <2>1 DEF AfterCommit, ApplyNext, Lowest, Continue, Send, Leave, HangUp
  <2>2. CASE cmd[r] # "up"
    BY <1>17, <2>0, <2>2 DEF AfterCommit, Continue, Send, Leave, HangUp
  <2> QED
    BY <2>1, <2>2
<1>18. CASE AfterAbort(r)
  BY <1>18 DEF AfterAbort, CommitTxn, Send, Leave
<1>19. CASE AfterUnlock(r)
  BY <1>19 DEF AfterUnlock, CommitTxn
<1>20. CASE AfterError(r)
  BY <1>20 DEF AfterError, CommitTxn, Continue, Send, Leave, HangUp, Highest, Lowest
<1>21. CASE Expire(r)
  BY <1>21 DEF Expire, CommitTxn
<1>22. CASE Interrupt(r)
  BY <1>22 DEF Interrupt, CommitTxn, HangUp
<1>23. CASE NoticeLoss(r)
  BY <1>23 DEF NoticeLoss, CommitTxn, HangUp
<1>24. CASE Crash(r)
  BY <1>24 DEF Crash, CommitTxn
<1> QED
  BY <1>1, <1>2, <1>3, <1>4, <1>5, <1>6, <1>7, <1>8, <1>9, <1>10, <1>11, <1>12,
     <1>13, <1>14, <1>15, <1>16, <1>17, <1>18, <1>19, <1>20, <1>21, <1>22, <1>23, <1>24
     DEF Postgres, Program

(* The invariant holds at the start, when no run has done anything.           *)
LEMMA InductiveInit ==
  Init => Inductive
<1> SUFFICES ASSUME Init
             PROVE  Inductive
  OBVIOUS
<1> USE MigratorAssumption DEF Init
<1>1. TypeOK
  <2>1. schema \subseteq Versions /\ clock \in Nat \ {0} /\ lockHolder \in Runs \cup {NoRun}
    OBVIOUS
  <2>2. appliedAt \in [Versions -> Nat]
    OBVIOUS
  <2>3. tableReady \in BOOLEAN
    OBVIOUS
  <2>4. /\ conn \in [Runs -> {"closed", "busy", "replied", "refused", "idle"}]
        /\ stmt \in [Runs -> Statements]
        /\ phase \in [Runs -> {"idle", "running"} \cup Finished]
        /\ cmd \in [Runs -> AllCommands \cup {"none"}]
    BY DEF Statements
  <2>5. txn \in [Runs -> SUBSET {"ddl", "row"}]
    OBVIOUS
  <2>6. \A S \in {rows, files, todo, reported, changed} : S \in [Runs -> SUBSET Versions]
    OBVIOUS
  <2>7. failed \in [Runs -> BOOLEAN] /\ ctxDone \in [Runs -> BOOLEAN]
    OBVIOUS
  <2>8. target \in [Runs -> Versions \cup {Nothing}]
    OBVIOUS
  <2> QED
    BY <2>1, <2>2, <2>3, <2>4, <2>5, <2>6, <2>7, <2>8 DEF TypeOK
<1>2. Recorded = {}
  BY DEF Recorded
<1>3. LockExact
  BY DEF LockExact, HoldsLock
<1>4. \A r \in Runs : TxnShape(r) /\ SessionShape(r)
  BY DEF TxnShape, SessionShape, TxStatements
<1>5. \A r \in Runs : PlanShape(r)
  BY DEF PlanShape, Migrating, Got, Serving
<1>6. \A r \in Runs : ReportShape(r)
  BY DEF ReportShape, Got
<1>7. SchemaMatchesRecord /\ PrerequisitesKept
  BY <1>2 DEF SchemaMatchesRecord, PrerequisitesKept
<1> QED
  BY <1>1, <1>3, <1>4, <1>5, <1>6, <1>7 DEF Inductive

(* Every step keeps it.                                                       *)
LEMMA InductiveStep ==
  Inductive /\ [Next]_vars => Inductive'
<1> SUFFICES ASSUME Inductive, [Next]_vars
             PROVE  Inductive'
  OBVIOUS
<1>1. ASSUME NEW r \in Runs, Postgres(r) \/ Program(r)
      PROVE  Inductive'
  <2>1. TypeOK' /\ LockExact'
    BY <1>1, TypeStep, LockStep DEF Inductive
  <2>2. \A q \in Runs : TxnShape(q)' /\ SessionShape(q)'
    BY <1>1, TxnStep, SessionStep DEF Inductive
  <2>3. \A q \in Runs : PlanShape(q)'
    BY <1>1, OwnPlanStep, OthersPlanStep
  <2>4. \A q \in Runs : ReportShape(q)'
    BY <1>1, ReportStep DEF Inductive
  <2>5. SchemaMatchesRecord' /\ PrerequisitesKept'
    BY <1>1, HistoryStep, HistoryKeeps DEF Inductive, TypeOK, Next
  <2> QED
    BY <2>1, <2>2, <2>3, <2>4, <2>5 DEF Inductive
<1>2. CASE UNCHANGED vars
  BY <1>2 DEF vars, database, sessions, programs, Inductive, TypeOK, LockExact, HoldsLock,
         TxnShape, SessionShape, PlanShape, ReportShape, Migrating, Got, Serving, SchemaMatchesRecord,
         PrerequisitesKept, Recorded
<1> QED
  BY <1>1, <1>2 DEF Next, Done

(* The invariant holds throughout.                                            *)
THEOREM Invariance == Spec => []Inductive
  BY InductiveInit, InductiveStep, PTL DEF Spec

(* Every variable keeps its type: no run ever holds a plan, a report or a     *)
(* transaction that is not made of migrations.                                *)
THEOREM TypeCorrectness == Spec => []TypeOK
<1>1. Inductive => TypeOK
  BY DEF Inductive
<1> QED
  BY Invariance, <1>1, PTL

(* applyOne, revertOne: a migration is never applied but unrecorded, nor      *)
(* recorded but not applied, whatever fails or dies in between.               *)
THEOREM RecordIsTrue == Spec => []SchemaMatchesRecord
<1>1. Inductive => SchemaMatchesRecord
  BY DEF Inductive
<1> QED
  BY Invariance, <1>1, PTL

(* advisoryLockKey: only the session that holds the advisory lock has changes *)
(* in flight, even when its program is gone.                                  *)
THEOREM MutualExclusion == Spec => []OnlyHolderChanges
<1>1. Inductive => OnlyHolderChanges
  <2> SUFFICES ASSUME Inductive, NEW r \in Runs, txn[r] # {}
               PROVE  lockHolder = r
    BY DEF OnlyHolderChanges
  <2>1. stmt[r] \in {"ddl", "record", "commit", "abort"} /\ conn[r] # "closed"
    BY DEF Inductive, TxnShape, TypeOK
  <2>2. HoldsLock(r)
    BY <2>1 DEF HoldsLock, TxStatements
  <2> QED
    BY <2>2 DEF Inductive, LockExact
<1> QED
  BY Invariance, <1>1, PTL

(* MigrateVerbose and Rollback never act on a stale reading of                *)
(* schema_migrations: what they still have to do is what the table says.      *)
THEOREM PlanNeverStale == Spec => []PlanIsCurrent
<1>1. Inductive => PlanIsCurrent
  BY DEF Inductive, PlanIsCurrent, PlanShape
<1> QED
  BY Invariance, <1>1, PTL

(* No replica sends the SQL of a migration that another has applied, or that  *)
(* lacks the tables it needs: CREATE TABLE cannot fail for those reasons.     *)
THEOREM NoReplicaCollides == Spec => []NoCollision
<1>1. Inductive => NoCollision
  <2> SUFFICES ASSUME Inductive, NEW r \in Runs, Serving(r, "ddl"), cmd[r] = "up"
               PROVE  target[r] \notin schema /\ Needs[target[r]] \subseteq schema
    BY DEF NoCollision, Executable
  <2> DEFINE v == target[r]
  <2>1. todo[r] = files[r] \ Recorded /\ Lowest(v, todo[r]) /\ schema = Recorded
    BY DEF Inductive, PlanShape, Migrating, Serving, SchemaMatchesRecord
  <2>2. v \in Versions /\ files[r] \in Images /\ v \in files[r]
    BY <2>1 DEF Inductive, SessionShape, Serving, TxStatements, Lowest
  <2>3. ASSUME NEW w \in Needs[v]
        PROVE  w \in schema
    <3>1. w \in files[r] /\ w < v /\ w \in Nat /\ v \in Nat
      BY <2>2, MigratorAssumption
    <3>2. w \notin todo[r]
      BY <3>1, <2>1 DEF Lowest
    <3> QED
      BY <3>1, <3>2, <2>1
  <2> QED
    BY <2>1, <2>3 DEF Lowest
<1> QED
  BY Invariance, <1>1, PTL

(* Whatever the mix of builds, boots and rollbacks, no migration is left      *)
(* without the tables it needs.                                               *)
THEOREM NoOrphans == Spec => []PrerequisitesKept
<1>1. Inductive => PrerequisitesKept
  BY DEF Inductive
<1> QED
  BY Invariance, <1>1, PTL

(* A boot that is about to return without error leaves a database that has    *)
(* every migration of its build; -down -all leaves none.                      *)
THEOREM SuccessIsComplete == Spec => []SuccessMeansDone
<1>1. Inductive => SuccessMeansDone
  BY DEF Inductive, SuccessMeansDone, PlanShape, Serving
<1> QED
  BY Invariance, <1>1, PTL

(* The list that MigrateVerbose or Rollback returns names only migrations     *)
(* that did change, lacks at most the last of them, and with success none.    *)
THEOREM ReportTruthful == Spec => []ReportIsHonest
<1>1. Inductive => ReportIsHonest
  BY DEF Inductive, ReportIsHonest, ReportShape
<1> QED
  BY Invariance, <1>1, PTL

(* migrate.go implements SchemaHistory: to anyone who queries the database,   *)
(* the migrations come and go whole, one at a time and in order.              *)
THEOREM Refinement == Spec => ImplementsHistory
<1>1. Init => History!Init
  BY DEF Init, History!Init, Recorded
<1>2. Inductive /\ [Next]_vars => [History!Next]_(History!history)
  <2>1. Inductive /\ Next => [History!Next]_(History!history)
    BY HistoryStep
  <2>2. UNCHANGED vars => UNCHANGED History!history
    BY DEF vars, database, History!history, Recorded
  <2> QED
    BY <2>1, <2>2
<1> QED
  BY Invariance, <1>1, <1>2, PTL DEF Spec, ImplementsHistory, History!Spec
==============================================================================
