------------------------------ MODULE RdbStore ------------------------------
(***************************************************************************)
(* RdbStoreImpl with its sessions (rdb_store_impl.cpp, store_session.cpp), *)
(* the transaction stack they share (base_transaction.cpp), and step       *)
(* result sets as far as they hold a session (step_result_set.cpp), over   *)
(* the connection pool.                                                    *)
(*                                                                         *)
(* A thread's call is one action up to the first place where it may wait   *)
(* for a connection, and from there on one action per connection it takes  *)
(* or gives back.  The transaction stack has no lock: its reads and writes *)
(* stay where the code has them, before, between or after those places; a  *)
(* statement and the read and write next to it are one step.               *)
(*                                                                         *)
(* SQLite is external: of a connection only "is in a transaction" and the  *)
(* savepoints are kept, and any statement may fail.                        *)
(***************************************************************************)
EXTENDS ConnectionPool

CONSTANTS
    Threads,
    ResultSets,     \* step result sets
    MaxIdle,        \* MAX_IDLE_SESSION_SIZE
    MaxCalls        \* bound: calls in a behaviour

ASSUME BoundsAssumption == MaxIdle \in Nat /\ MaxCalls \in Nat

ASSUME FiniteAssumption == IsFiniteSet(Threads) /\ IsFiniteSet(ResultSets)

VARIABLES
    threadMap,      \* thread -> its session and use count
    idleSessions,
    connectionUseCount, isInStepQuery,      \* of each session
    transactionStack,
    inTransaction,  \* SQLite: connections with an open transaction
    savepoints,     \* SQLite: <<connection, id>> of the savepoints set
    resultSet,      \* StepResultSet: tid, connection of its statement, isClosed
    pc, op, arg,    \* per thread: place in the call, the call, what it has read
    calls, depth, owner, noted      \* bound and history, see below

sessionVars == <<threadMap, idleSessions, connectionUseCount, isInStepQuery>>

sqliteVars == <<inTransaction, savepoints>>

vars == <<poolVars, sessionVars, transactionStack, sqliteVars, resultSet,
          pc, op, arg, calls, depth, owner, noted>>

NoSession == "no session"
NoThread == "no thread"
NoArg == "nothing"

(* None of the three is one of the things it stands for the absence of.      *)
ASSUME NothingAssumption ==
    NoSession \notin Sessions /\ NoThread \notin Threads /\ NoArg \notin ResultSets

(* The statements, by what GetSqlStatementType and SQLite say of them.      *)
Statements == {"select", "update", "ddl", "pragma"}

IsSqlReadOnly(o) == o = "select"

IsReadOnlyStatement(o) == o \in {"select", "pragma"}

TransactionCalls == {"BeginTransaction", "Commit", "RollBack", "EndTransaction",
                     "BeginTransactionWithObserver", "GiveConnectionTemporarily"}

Session(t) == threadMap[t].session

-----------------------------------------------------------------------------
(* Thread sessions.  The map and the idle sessions after GetThreadSession,   *)
(* which finds the session in the map, takes an idle one or makes one.       *)
Present == [map |-> threadMap, idle |-> idleSessions]

FreeSessions ==
    {s \in Sessions : /\ connectionUseCount[s] = 0 /\ ~isInStepQuery[s]
                      /\ s \notin Elements(idleSessions)
                      /\ \A t \in Threads : Session(t) # s}

(* Bound: when t has no session and none is idle, one is left to be made.    *)
SessionLeft(t) == Session(t) # NoSession \/ idleSessions # <<>> \/ FreeSessions # {}

(* Defect: the session stays among the idle ones.                            *)
GetThreadSessionShared(t) ==
    LET s == IF Session(t) # NoSession THEN Session(t)
             ELSE IF idleSessions # <<>> THEN idleSessions[Len(idleSessions)]
             ELSE CHOOSE f \in FreeSessions : TRUE
    IN  [map |-> [threadMap EXCEPT ![t] = [session |-> s, useCount |-> @.useCount + 1]],
         idle |-> idleSessions]

GetThreadSession(t) ==
    IF Session(t) # NoSession
    THEN [map |-> [threadMap EXCEPT ![t].useCount = @ + 1], idle |-> idleSessions]
    ELSE LET known == idleSessions # <<>>
             s == IF known THEN idleSessions[Len(idleSessions)]
                           ELSE CHOOSE f \in FreeSessions : TRUE
         IN  [map |-> [threadMap EXCEPT ![t] = [session |-> s, useCount |-> 1]],
              idle |-> IF known THEN SubSeq(idleSessions, 1, Len(idleSessions) - 1) ELSE <<>>]

(* ... and after n calls of ReleaseThreadSession by t; releasing once too    *)
(* often is only logged, and a session that finds no room is dropped.        *)
ReleaseThreadSession(m, t, n) ==
    IF m.map[t].useCount > n
    THEN [m EXCEPT !.map[t].useCount = @ - n]
    ELSE [map |-> [m.map EXCEPT ![t] = [session |-> NoSession, useCount |-> 0]],
          idle |-> IF m.map[t].session # NoSession /\ Len(m.idle) < MaxIdle
                   THEN Append(m.idle, m.map[t].session) ELSE m.idle]

SetSessions(m) == threadMap' = m.map /\ idleSessions' = m.idle

-----------------------------------------------------------------------------
(* Defects: a connection is taken although the session has one; a            *)
(* connection is given back although the session still uses it.              *)
AcquireConnectionAgain(s, isReadOnly) ==
    /\ PoolAcquire(s, isReadOnly)
    /\ connectionUseCount' = [connectionUseCount EXCEPT ![s] = @ + 1]

ReleaseConnectionAtOnce(s) ==
    IF conn[s] = Null \/ connectionUseCount[s] <= 0
    THEN UNCHANGED <<poolVars, connectionUseCount>>
    ELSE /\ connectionUseCount' = [connectionUseCount EXCEPT ![s] = @ - 1]
         /\ PoolRelease(s)

(* StoreSession::AcquireConnection and ReleaseConnection: a session keeps    *)
(* the connection it has, of whatever kind, as long as its count is not 0.   *)
AcquireConnection(s, isReadOnly) ==
    /\ IF conn[s] = Null THEN PoolAcquire(s, isReadOnly) ELSE UNCHANGED poolVars
    /\ connectionUseCount' = [connectionUseCount EXCEPT ![s] = @ + 1]

ReleaseConnection(s) ==
    IF conn[s] = Null \/ connectionUseCount[s] <= 0
    THEN UNCHANGED <<poolVars, connectionUseCount>>
    ELSE /\ connectionUseCount' = [connectionUseCount EXCEPT ![s] = @ - 1]
         /\ IF connectionUseCount[s] = 1 THEN PoolRelease(s) ELSE UNCHANGED poolVars

-----------------------------------------------------------------------------
(* BaseTransaction: the outermost has id 0 and is BEGIN / COMMIT / ROLLBACK, *)
(* an inner one is a savepoint that Commit only forgets.  keeper is history: *)
(* the session that keeps its connection for the transaction.                *)
BaseTransaction(id, s) ==
    [id |-> id, markedSuccessful |-> FALSE, allBeforeSuccessful |-> TRUE, keeper |-> s]

Top == transactionStack[Len(transactionStack)]

Popped == IF transactionStack = <<>> THEN <<>>
          ELSE SubSeq(transactionStack, 1, Len(transactionStack) - 1)

Succeeds(transaction) == transaction.allBeforeSuccessful /\ transaction.markedSuccessful

(* SQLite, on connection c.  BEGIN IMMEDIATE and EXCLUSIVE are refused on a   *)
(* read connection by PrepareAndBind; SAVEPOINT, COMMIT and ROLLBACK are not. *)
SqlBegin(c) ==
    /\ c.isWriteConnection /\ c \notin inTransaction
    /\ inTransaction' = inTransaction \cup {c}
    /\ UNCHANGED savepoints

SqlSavepoint(c, id) ==
    /\ inTransaction' = inTransaction \cup {c}
    /\ savepoints' = savepoints \cup {<<c, id>>}

SqlEnd(c) ==
    /\ c \in inTransaction
    /\ inTransaction' = inTransaction \ {c}
    /\ savepoints' = {p \in savepoints : p[1] # c}

SqlRollBackTo(c, id) ==
    /\ <<c, id>> \in savepoints
    /\ savepoints' = {p \in savepoints : p[1] = c => p[2] <= id}
    /\ UNCHANGED inTransaction

(* getTransactionStr and getRollbackStr, executed on c.                       *)
ExecuteBegin(c, id) == IF id = 0 THEN SqlBegin(c) ELSE SqlSavepoint(c, id)

ExecuteRollback(c, id) == IF id = 0 THEN SqlEnd(c) ELSE SqlRollBackTo(c, id)

-----------------------------------------------------------------------------
(* The frame of a call.  depth counts the transactions that were begun and   *)
(* not yet ended with E_OK, as the application sees them, and stays 0 when   *)
(* more are ended than were begun; owner is the thread that has one open or  *)
(* is in such a call.                                                        *)
Running == \A t \in Threads : pc[t] # "crashed"

Call(t, o, next, a) ==
    /\ Running /\ pc[t] = "idle" /\ calls < MaxCalls /\ SessionLeft(t)
    /\ calls' = calls + 1
    /\ pc' = [pc EXCEPT ![t] = next]
    /\ op' = [op EXCEPT ![t] = IF next = "idle" THEN NoArg ELSE o]
    /\ arg' = [arg EXCEPT ![t] = IF next = "idle" THEN NoArg ELSE a]

At(t, place) == Running /\ pc[t] = place /\ UNCHANGED calls

Goto(t, place) ==
    /\ pc' = [pc EXCEPT ![t] = place]
    /\ op' = [op EXCEPT ![t] = IF place = "idle" THEN NoArg ELSE @]
    /\ arg' = [arg EXCEPT ![t] = IF place = "idle" THEN NoArg ELSE @]

(* The sessions that keep a connection for the transaction on the stack.     *)
Keepers == {s \in Sessions : transactionStack # <<>> /\ transactionStack[1].keeper = s}

(* A call of the transaction functions, with the circumstances that the      *)
(* properties have to know of.                                               *)
Note(t, o) ==
    noted' = noted
        \cup (IF owner \notin {NoThread, t} THEN {"overlap"} ELSE {})
        \cup (IF o = "RollBack" THEN {"rollBack"} ELSE {})
        \cup (IF \/ o \in {"Commit", "RollBack"} /\ Keepers # {}
                 \/ o \in {"EndTransaction", "GiveConnectionTemporarily"} /\ Keepers = {}
              THEN {"mixed"} ELSE {})
        \cup (IF isInStepQuery[GetThreadSession(t).map[t].session] THEN {"inStepQuery"} ELSE {})

Count(t, change, returns) ==
    /\ depth' = IF depth + change < 0 THEN 0 ELSE depth + change
    /\ owner' = IF returns /\ depth' <= 0 THEN NoThread ELSE t

NotTransactional == UNCHANGED <<transactionStack, sqliteVars, depth, owner>>

-----------------------------------------------------------------------------
(* ExecuteSql, Insert, Update, Delete, ExecuteAndGetLong, queries through a   *)
(* shared block ...: each is one statement in BeginExecuteSql's protocol.     *)
CallStatement(t, o) ==
    /\ Call(t, o, "acquire", NoArg)
    /\ SetSessions(GetThreadSession(t))
    /\ NotTransactional
    /\ UNCHANGED <<poolVars, connectionUseCount, isInStepQuery, resultSet, noted>>

(* Where every call that needs one waits for its connection.  A damaged pool *)
(* may give none, and the call uses a null pointer.                          *)
Acquire(t) ==
    /\ At(t, "acquire")
    /\ AcquireConnection(Session(t), IsSqlReadOnly(op[t]) \/ op[t] = "PrepareStep")
    /\ Goto(t, IF conn'[Session(t)] = Null THEN "crashed" ELSE "execute")
    /\ NotTransactional
    /\ UNCHANGED <<threadMap, idleSessions, isInStepQuery, resultSet, noted>>

(* The statement is done or was refused: the connection goes back, then, if  *)
(* the call returns, the session.                                            *)
FinishStatement(t, place) ==
    /\ ReleaseConnection(Session(t))
    /\ Goto(t, place)
    /\ SetSessions(IF place = "idle" THEN ReleaseThreadSession(Present, t, 1) ELSE Present)

NeedsOther(t) == IsReadOnlyStatement(op[t]) = conn[Session(t)].isWriteConnection

(* BeginExecuteSql after the first acquire: the statement does not compile;  *)
(* or SQLite says it is of the other kind, and the connection is exchanged;  *)
(* or it is executed, and DDL goes on with the read connections.             *)
ExecuteStatement(t) ==
    /\ At(t, "execute") /\ op[t] \in Statements
    /\ \/ FinishStatement(t, "idle")
       \/ NeedsOther(t) /\ FinishStatement(t, "exchange")
       \/ ~NeedsOther(t) /\ op[t] = "ddl" /\ FinishStatement(t, "reopen")
    /\ NotTransactional
    /\ UNCHANGED <<isInStepQuery, resultSet, noted>>

Exchange(t) ==
    /\ At(t, "exchange")
    /\ AcquireConnection(Session(t), IsReadOnlyStatement(op[t]))
    /\ Goto(t, IF conn'[Session(t)] = Null THEN "crashed" ELSE "run")
    /\ NotTransactional
    /\ UNCHANGED <<threadMap, idleSessions, isInStepQuery, resultSet, noted>>

(* A write that still has a read connection is refused.                      *)
RunExchanged(t) ==
    /\ At(t, "run")
    /\ \/ FinishStatement(t, "idle")
       \/ /\ op[t] = "ddl" /\ conn[Session(t)].isWriteConnection
          /\ FinishStatement(t, "reopen")
    /\ NotTransactional
    /\ UNCHANGED <<isInStepQuery, resultSet, noted>>

ReopenAfterDdl(t) ==
    /\ At(t, "reopen")
    /\ ReOpenAvailableReadConnections
    /\ Goto(t, "idle")
    /\ SetSessions(ReleaseThreadSession(Present, t, 1))
    /\ NotTransactional
    /\ UNCHANGED <<connectionUseCount, isInStepQuery, resultSet, noted>>

(* GetThreadSession without a matching release.                              *)
IsHoldingConnection(t) ==
    /\ Call(t, NoArg, "idle", NoArg)
    /\ SetSessions(GetThreadSession(t))
    /\ NotTransactional
    /\ UNCHANGED <<poolVars, connectionUseCount, isInStepQuery, resultSet, noted>>

CallChangeEncryptKey(t) ==
    /\ Call(t, NoArg, "idle", NoArg)
    /\ ChangeEncryptKey
    /\ NotTransactional
    /\ UNCHANGED <<sessionVars, resultSet, noted>>

CallRestore(t) ==
    /\ Call(t, "Restore", "close", NoArg)
    /\ RestoreCheck
    /\ NotTransactional
    /\ UNCHANGED <<poolVars, sessionVars, resultSet, noted>>

Restore(t) ==
    /\ \/ At(t, "close") /\ RestoreClose /\ Goto(t, "open")
       \/ At(t, "open") /\ RestoreInit /\ Goto(t, "idle")
    /\ NotTransactional
    /\ UNCHANGED <<sessionVars, resultSet, noted>>

-----------------------------------------------------------------------------
(* BeginTransaction(), Commit() and RollBack() give the session back only    *)
(* when they fail.  The end of such a call, having executed its statement:   *)
EndCall(t, place, fails) ==
    /\ ReleaseConnection(Session(t))
    /\ Goto(t, place)
    /\ SetSessions(IF fails THEN ReleaseThreadSession(Present, t, 1) ELSE Present)
    /\ UNCHANGED <<isInStepQuery, resultSet, noted>>

(* Defect: the connection is not given back on an error.                     *)
FailKeepsConnection(t) ==
    /\ Goto(t, "idle")
    /\ SetSessions(ReleaseThreadSession(Present, t, 1))
    /\ Count(t, 0, TRUE)
    /\ UNCHANGED <<poolVars, connectionUseCount, isInStepQuery, transactionStack, sqliteVars,
                   resultSet, noted>>

Fail(t) ==
    /\ EndCall(t, "idle", TRUE)
    /\ Count(t, 0, TRUE)
    /\ UNCHANGED <<transactionStack, sqliteVars>>

CallBeginTransaction(t) ==
    /\ Call(t, "BeginTransaction", "acquire", NoArg)
    /\ SetSessions(GetThreadSession(t))
    /\ Note(t, "BeginTransaction") /\ Count(t, 0, FALSE)
    /\ UNCHANGED <<poolVars, connectionUseCount, isInStepQuery, transactionStack,
                   sqliteVars, resultSet>>

(* Also the second half of GiveConnectionTemporarily, which ignores errors   *)
(* and keeps the session.                                                    *)
BeginTransaction(t) ==
    /\ At(t, "execute") /\ op[t] \in {"BeginTransaction", "GiveConnectionTemporarily"}
    /\ \/ /\ ExecuteBegin(conn[Session(t)], Len(transactionStack))
          /\ transactionStack' = Append(transactionStack, BaseTransaction(Len(transactionStack), NoSession))
          /\ EndCall(t, "idle", FALSE)
          /\ Count(t, 1, TRUE)
       \/ op[t] = "BeginTransaction" /\ Fail(t)
       \/ /\ op[t] = "GiveConnectionTemporarily"
          /\ EndCall(t, "idle", FALSE)
          /\ Count(t, 0, TRUE)
          /\ UNCHANGED <<transactionStack, sqliteVars>>

(* Commit reads the top before it has a connection and pops after it gave    *)
(* it back.  With an empty stack it returns E_OK.                            *)
CallCommit(t) ==
    /\ Call(t, "Commit", IF transactionStack = <<>> THEN "idle"
                         ELSE IF Top.id = 0 THEN "acquire" ELSE "pop", NoArg)
    /\ SetSessions(GetThreadSession(t))
    /\ Note(t, "Commit") /\ Count(t, 0, transactionStack = <<>>)
    /\ UNCHANGED <<poolVars, connectionUseCount, isInStepQuery, transactionStack,
                   sqliteVars, resultSet>>

(* Defect: the transaction is popped although COMMIT failed.                 *)
CommitIgnoresError(t) ==
    /\ At(t, "execute") /\ op[t] = "Commit"
    /\ SqlEnd(conn[Session(t)]) \/ UNCHANGED sqliteVars
    /\ EndCall(t, "pop", FALSE)
    /\ Count(t, 0, FALSE)
    /\ UNCHANGED transactionStack

Commit(t) ==
    /\ At(t, "execute") /\ op[t] = "Commit"
    /\ \/ /\ SqlEnd(conn[Session(t)])
          /\ EndCall(t, "pop", FALSE)
          /\ Count(t, 0, FALSE)
          /\ UNCHANGED transactionStack
       \/ Fail(t)

PopAfterCommit(t) ==
    /\ At(t, "pop")
    /\ transactionStack' = Popped
    /\ Goto(t, "idle")
    /\ Count(t, -1, TRUE)
    /\ UNCHANGED <<poolVars, sessionVars, sqliteVars, resultSet, noted>>

(* RollBack works on a copy of the stack.                                    *)
CallRollBack(t) ==
    /\ Call(t, "RollBack", IF transactionStack = <<>> THEN "idle" ELSE "acquire", Top.id)
    /\ SetSessions(IF transactionStack = <<>>
                   THEN ReleaseThreadSession(GetThreadSession(t), t, 1) ELSE GetThreadSession(t))
    /\ Note(t, "RollBack") /\ Count(t, 0, transactionStack = <<>>)
    /\ UNCHANGED <<poolVars, connectionUseCount, isInStepQuery, transactionStack,
                   sqliteVars, resultSet>>

RollBack(t) ==
    /\ At(t, "execute") /\ op[t] = "RollBack"
    /\ \/ /\ ExecuteRollback(conn[Session(t)], arg[t])
          /\ EndCall(t, "idle", FALSE)
          /\ Count(t, -1, TRUE)
          /\ UNCHANGED transactionStack
       \/ Fail(t)

-----------------------------------------------------------------------------
(* Transactions with an observer keep the connection until their end.  An    *)
(* inner one only goes onto the stack.                                       *)
CallBeginTransactionWithObserver(t) ==
    /\ Call(t, "BeginTransactionWithObserver",
            IF transactionStack = <<>> THEN "acquire" ELSE "idle", NoArg)
    /\ SetSessions(GetThreadSession(t))
    /\ Note(t, "BeginTransactionWithObserver")
    /\ IF transactionStack = <<>>
       THEN Count(t, 0, FALSE) /\ UNCHANGED transactionStack
       ELSE /\ transactionStack' = Append(transactionStack, BaseTransaction(Len(transactionStack), NoSession))
            /\ Count(t, 1, TRUE)
    /\ UNCHANGED <<poolVars, connectionUseCount, isInStepQuery, sqliteVars, resultSet>>

BeginTransactionWithObserver(t) ==
    /\ At(t, "execute") /\ op[t] = "BeginTransactionWithObserver"
    /\ \/ /\ SqlBegin(conn[Session(t)])
          /\ transactionStack' = Append(transactionStack, BaseTransaction(Len(transactionStack), Session(t)))
          /\ Goto(t, "idle") /\ Count(t, 1, TRUE)
          /\ UNCHANGED <<poolVars, sessionVars, resultSet, noted>>
       \/ Fail(t)

MarkTop == [transactionStack EXCEPT ![Len(transactionStack)].markedSuccessful = TRUE]

MarkAsCommit(t) ==
    /\ Call(t, NoArg, "idle", NoArg)
    /\ SetSessions(ReleaseThreadSession(GetThreadSession(t), t, 1))
    /\ transactionStack' = IF transactionStack = <<>> THEN <<>> ELSE MarkTop
    /\ UNCHANGED <<poolVars, connectionUseCount, isInStepQuery, sqliteVars, resultSet,
                   depth, owner, noted>>

(* The stack without its top; a failure below is remembered in the new top.  *)
EndTop ==
    IF Succeeds(Top) THEN Popped
    ELSE [Popped EXCEPT ![Len(Popped)].allBeforeSuccessful = FALSE]

(* The outermost transaction ends on the session's connection, with COMMIT   *)
(* or ROLLBACK, which may fail; without a connection it is a null pointer.   *)
EndOutermost(t, s, returns) ==
    /\ transactionStack' = <<>>
    /\ ReleaseConnection(s)
    /\ \/ SqlEnd(conn[s]) /\ Count(t, -1, returns)
       \/ UNCHANGED sqliteVars /\ Count(t, 0, returns)

(* EndTransaction gives back its own session and that of the begin.          *)
EndTransaction(t) ==
    LET m == GetThreadSession(t)
        s == m.map[t].session
        crashes == Len(transactionStack) = 1 /\ conn[s] = Null
    IN  /\ Call(t, "EndTransaction", IF crashes THEN "crashed" ELSE "idle", NoArg)
        /\ SetSessions(ReleaseThreadSession(m, t, 2))
        /\ Note(t, "EndTransaction")
        /\ IF Len(transactionStack) = 1 /\ ~crashes
           THEN EndOutermost(t, s, TRUE)
           ELSE /\ transactionStack' = IF Len(transactionStack) > 1 THEN EndTop ELSE <<>>
                /\ Count(t, IF Len(transactionStack) > 1 THEN -1 ELSE 0, TRUE)
                /\ UNCHANGED <<poolVars, connectionUseCount, sqliteVars>>
        /\ UNCHANGED <<isInStepQuery, resultSet>>

(* Marks, ends and begins anew the only transaction, unless it is marked;    *)
(* the session is never given back.                                          *)
GiveConnectionTemporarily(t) ==
    LET m == GetThreadSession(t)
        s == m.map[t].session
        refused == Len(transactionStack) # 1 \/ Top.markedSuccessful
    IN  /\ Call(t, "GiveConnectionTemporarily",
                IF refused THEN "idle" ELSE IF conn[s] = Null THEN "crashed" ELSE "acquire", NoArg)
        /\ SetSessions(m)
        /\ Note(t, "GiveConnectionTemporarily")
        /\ IF ~refused /\ conn[s] # Null
           THEN EndOutermost(t, s, FALSE)
           ELSE /\ Count(t, 0, TRUE)
                /\ UNCHANGED <<poolVars, connectionUseCount, transactionStack, sqliteVars>>
        /\ UNCHANGED <<isInStepQuery, resultSet>>

-----------------------------------------------------------------------------
(* Step result sets.  EndStepQuery of the store, in session map m: ends the  *)
(* query of the session, whichever result set began it.                      *)
EndStepQuery(t) ==
    LET m == GetThreadSession(t)
        s == m.map[t].session
    IN  /\ SetSessions(ReleaseThreadSession(m, t, 2))
        /\ isInStepQuery' = [isInStepQuery EXCEPT ![s] = FALSE]
        /\ IF isInStepQuery[s] THEN ReleaseConnection(s) ELSE UNCHANGED <<poolVars, connectionUseCount>>

(* A result set has no lock: two threads are not in its functions at once.   *)
NotInUse(r) == \A t \in Threads : arg[t] # r

(* PrepareStep of a result set without a statement.  A second query in one    *)
(* session is refused, and the refusal is followed by EndStepQuery.           *)
CallPrepareStep(t, r) ==
    LET m == GetThreadSession(t)
    IN  /\ NotInUse(r) /\ ~resultSet[r].isClosed /\ resultSet[r].statement = Null
        /\ Call(t, "PrepareStep", "acquire", r)
        /\ ~isInStepQuery[m.map[t].session]
        /\ SetSessions(m)
        /\ NotTransactional
        /\ UNCHANGED <<poolVars, connectionUseCount, isInStepQuery, resultSet, noted>>

PrepareSecondStep(t, r) ==
    /\ NotInUse(r) /\ ~resultSet[r].isClosed /\ resultSet[r].statement = Null
    /\ Session(t) # NoSession /\ isInStepQuery[Session(t)]
    /\ Call(t, "PrepareStep", "idle", NoArg)
    /\ isInStepQuery' = [isInStepQuery EXCEPT ![Session(t)] = FALSE]
    /\ ReleaseConnection(Session(t))
    /\ noted' = noted \cup {"secondStepQuery"}
    /\ NotTransactional
    /\ UNCHANGED <<threadMap, idleSessions, resultSet>>

PrepareStep(t) ==
    /\ At(t, "execute") /\ op[t] = "PrepareStep"
    /\ \/ /\ isInStepQuery' = [isInStepQuery EXCEPT ![Session(t)] = TRUE]
          /\ resultSet' = [resultSet EXCEPT ![arg[t]] =
                              [tid |-> t, statement |-> conn[Session(t)], isClosed |-> FALSE]]
          /\ UNCHANGED <<poolVars, threadMap, idleSessions, connectionUseCount>>
       \/ /\ ReleaseConnection(Session(t))
          /\ SetSessions(ReleaseThreadSession(Present, t, 1))
          /\ UNCHANGED <<isInStepQuery, resultSet>>
    /\ Goto(t, "idle")
    /\ NotTransactional
    /\ UNCHANGED noted

(* FinishStep, from Close or at the last row: only the thread that prepared  *)
(* the statement can end its query.  Closed by another thread the result set *)
(* is just marked.                                                           *)
FinishStep(t, r, closes) ==
    /\ NotInUse(r)
    /\ resultSet[r].statement # Null /\ resultSet[r].tid = t /\ ~resultSet[r].isClosed
    /\ Call(t, NoArg, "idle", NoArg)
    /\ resultSet' = [resultSet EXCEPT ![r].statement = Null, ![r].isClosed = closes]
    /\ EndStepQuery(t)
    /\ NotTransactional
    /\ UNCHANGED noted

CloseInOtherThread(t, r) ==
    /\ NotInUse(r)
    /\ resultSet[r].statement # Null /\ resultSet[r].tid # t /\ ~resultSet[r].isClosed
    /\ Call(t, NoArg, "idle", NoArg)
    /\ resultSet' = [resultSet EXCEPT ![r].isClosed = TRUE]
    /\ noted' = noted \cup {"otherThread"}
    /\ NotTransactional
    /\ UNCHANGED <<poolVars, sessionVars>>

-----------------------------------------------------------------------------
Init ==
    /\ PoolInit
    /\ threadMap = [t \in Threads |-> [session |-> NoSession, useCount |-> 0]]
    /\ idleSessions = <<>>
    /\ connectionUseCount = [s \in Sessions |-> 0]
    /\ isInStepQuery = [s \in Sessions |-> FALSE]
    /\ transactionStack = <<>>
    /\ inTransaction = {} /\ savepoints = {}
    /\ resultSet = [r \in ResultSets |-> [tid |-> NoThread, statement |-> Null, isClosed |-> FALSE]]
    /\ pc = [t \in Threads |-> "idle"]
    /\ op = [t \in Threads |-> NoArg]
    /\ arg = [t \in Threads |-> NoArg]
    /\ calls = 0 /\ depth = 0 /\ owner = NoThread /\ noted = {}

Next ==
    \E t \in Threads :
        \/ \E o \in Statements : CallStatement(t, o)
        \/ Acquire(t) \/ ExecuteStatement(t) \/ Exchange(t) \/ RunExchanged(t) \/ ReopenAfterDdl(t)
        \/ IsHoldingConnection(t) \/ CallChangeEncryptKey(t) \/ CallRestore(t) \/ Restore(t)
        \/ CallBeginTransaction(t) \/ BeginTransaction(t)
        \/ CallCommit(t) \/ Commit(t) \/ PopAfterCommit(t)
        \/ CallRollBack(t) \/ RollBack(t)
        \/ CallBeginTransactionWithObserver(t) \/ BeginTransactionWithObserver(t)
        \/ MarkAsCommit(t) \/ EndTransaction(t) \/ GiveConnectionTemporarily(t)
        \/ \E r \in ResultSets :
              \/ CallPrepareStep(t, r) \/ PrepareSecondStep(t, r) \/ CloseInOtherThread(t, r)
              \/ \E closes \in BOOLEAN : FinishStep(t, r, closes)
        \/ PrepareStep(t)

Spec == Init /\ [][Next]_vars

-----------------------------------------------------------------------------
(* The sessions and result sets use the pool as PoolSpec allows: a session   *)
(* takes a connection only when it has none and returns only what it has,    *)
(* on all paths of store_session.cpp.  What is proved of the pool therefore  *)
(* holds for the store.                                                      *)
UsesPool == PoolSpec

(* store_session.cpp:37-57, 285-360, 397-432: each use of a connection that  *)
(* a session counts has a reason: a call that is running, a step result set  *)
(* that is open, or a transaction with an observer.  No path of a failing or *)
(* succeeding call leaks a connection or gives it back too early, as long as *)
(* the two kinds of transaction calls are not mixed, transactions of threads *)
(* do not overlap, and a thread has one step query, which it closes itself.  *)
Uses(s) ==
    {<<t, "call">> : t \in {u \in Threads : Session(u) = s /\ pc[u] \in {"execute", "run"}}}
    \cup {<<r, "step">> : r \in {q \in ResultSets :
              /\ resultSet[q].statement # Null /\ ~resultSet[q].isClosed
              /\ Session(resultSet[q].tid) = s}}
    \cup {<<k, "observer">> : k \in Keepers \cap {s}}

UsesHaveReason ==
    Running /\ noted \cap {"mixed", "overlap", "secondStepQuery", "otherThread"} = {}
    => \A s \in Sessions :
          /\ connectionUseCount[s] = Cardinality(Uses(s))
          /\ (connectionUseCount[s] > 0) <=> (conn[s] # Null)

(* rdb_store_impl.cpp:91-135: a session serves one thread at a time, and one *)
(* that waits in idleSessions for the next thread has no connection and no   *)
(* query left from the last.                                                 *)
SessionsSeparate ==
    /\ \A t, u \in Threads : t # u /\ Session(t) # NoSession => Session(t) # Session(u)
    /\ \A t \in Threads : Session(t) \notin Elements(idleSessions)
    /\ noted \cap {"mixed", "overlap"} = {} =>
          \A s \in Elements(idleSessions) : conn[s] = Null /\ ~isInStepQuery[s]

NoTransactionCall == \A t \in Threads : op[t] \notin TransactionCalls

(* store_session.cpp:447-484: once every transaction that was begun has been *)
(* ended with E_OK, the write connection has none left open, also when other *)
(* threads execute statements, change the schema or read meanwhile.          *)
CommitTakesEffect ==
    /\ noted \cap {"rollBack", "overlap", "inStepQuery"} = {}
    /\ depth = 0 /\ NoTransactionCall
    /\ InOrder
    => transactionStack = <<>> /\ writeConnection \notin inTransaction

(* The same with RollBack, as the tests of the JavaScript interface expect   *)
(* of a rollback followed by a commit.                                       *)
RollBackTakesEffect ==
    /\ noted \cap {"mixed", "overlap", "inStepQuery"} = {}
    /\ depth = 0 /\ NoTransactionCall
    /\ InOrder
    => writeConnection \notin inTransaction

(* step_result_set.cpp:321-370: an open step result set steps through a      *)
(* statement of the connection that its thread's session holds.              *)
StepStatementHeld ==
    noted \cap {"inStepQuery", "secondStepQuery"} = {} =>
        \A r \in ResultSets : resultSet[r].statement # Null =>
            LET s == Session(resultSet[r].tid)
            IN  s # NoSession /\ isInStepQuery[s] /\ conn[s] = resultSet[r].statement

=============================================================================
