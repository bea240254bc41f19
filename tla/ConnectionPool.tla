--------------------------- MODULE ConnectionPool ---------------------------
(***************************************************************************)
(* SqliteConnectionPool (rdb/src/sqlite_connection_pool.cpp): one write    *)
(* connection, a vector of read connections used as a stack, and the two   *)
(* wait conditions "the writer is free" and "some reader is idle".         *)
(*                                                                         *)
(* A critical section of writeMutex or readMutex is one action; a thread   *)
(* in condition.wait is one whose Acquire is not enabled.  The pool's      *)
(* clients are the sessions; conn[s] is the member StoreSession::          *)
(* connection, null when the session has none.                             *)
(***************************************************************************)
EXTENDS Integers, Sequences, FiniteSets

CONSTANTS
    Sessions,       \* the store sessions
    ReaderCounts    \* possible values of readConnectionCount

ASSUME ReaderCountsAssumption == ReaderCounts \subseteq Nat

ASSUME SessionsAssumption == IsFiniteSet(Sessions)

VARIABLES
    readConnectionCount,
    writeConnection,
    writeConnectionUsed,
    readConnections,
    idleReadConnectionCount,
    conn,
    opened,         \* number of connections opened so far: a source of identities
    open,           \* the connections that are not deleted
    damaged         \* history: an open failed, or connections in use were closed

poolVars == <<readConnectionCount, writeConnection, writeConnectionUsed,
              readConnections, idleReadConnectionCount, conn, opened, open, damaged>>

Connections == [id : Nat, isWriteConnection : BOOLEAN]

Null == [id |-> 0, isWriteConnection |-> FALSE]

Writer(n) == [id |-> n, isWriteConnection |-> TRUE]

Reader(n) == [id |-> n, isWriteConnection |-> FALSE]

Elements(seq) == {seq[i] : i \in 1..Len(seq)}

(* n read connections whose identities follow k. *)
FreshReaders(k, n) == [i \in 1..n |-> Reader(k + i)]

-----------------------------------------------------------------------------
(* SqliteConnectionPool::Create and Init, on a pool that opened everything. *)
PoolInit ==
    /\ readConnectionCount \in ReaderCounts
    /\ writeConnection = Writer(1)
    /\ writeConnectionUsed = FALSE
    /\ readConnections = FreshReaders(1, readConnectionCount)
    /\ idleReadConnectionCount = readConnectionCount
    /\ conn = [s \in Sessions |-> Null]
    /\ opened = readConnectionCount + 1
    /\ open = {writeConnection} \cup Elements(readConnections)
    /\ damaged = FALSE

AcquireWriteConnection(s) ==
    /\ ~writeConnectionUsed
    /\ writeConnectionUsed' = TRUE
    /\ conn' = [conn EXCEPT ![s] = writeConnection]
    /\ UNCHANGED <<readConnections, idleReadConnectionCount>>

(* Defect: the connection stays in the vector.                              *)
AcquireReadConnectionShared(s) ==
    /\ idleReadConnectionCount > 0 /\ readConnections # <<>>
    /\ conn' = [conn EXCEPT ![s] = readConnections[Len(readConnections)]]
    /\ idleReadConnectionCount' = idleReadConnectionCount - 1
    /\ UNCHANGED <<readConnections, writeConnectionUsed>>

(* back() of an empty vector is undefined; the guard only stops a pool that *)
(* is damaged already (ReaderCountExact).                                   *)
AcquireReadConnection(s) ==
    /\ idleReadConnectionCount > 0 /\ readConnections # <<>>
    /\ conn' = [conn EXCEPT ![s] = readConnections[Len(readConnections)]]
    /\ readConnections' = SubSeq(readConnections, 1, Len(readConnections) - 1)
    /\ idleReadConnectionCount' = idleReadConnectionCount - 1
    /\ UNCHANGED writeConnectionUsed

(* A store without readers (memory, or no WAL) reads through the writer.    *)
PoolAcquire(s, isReadOnly) ==
    /\ IF isReadOnly /\ readConnectionCount # 0
       THEN AcquireReadConnection(s)
       ELSE AcquireWriteConnection(s)
    /\ UNCHANGED <<readConnectionCount, writeConnection, opened, open, damaged>>

(* What is not the present write connection goes to the read connections.   *)
PoolRelease(s) ==
    /\ IF conn[s] = writeConnection
       THEN /\ writeConnectionUsed' = FALSE
            /\ UNCHANGED <<readConnections, idleReadConnectionCount>>
       ELSE /\ readConnections' = Append(readConnections, conn[s])
            /\ idleReadConnectionCount' = idleReadConnectionCount + 1
            /\ UNCHANGED writeConnectionUsed
    /\ conn' = [conn EXCEPT ![s] = Null]
    /\ UNCHANGED <<readConnectionCount, writeConnection, opened, open, damaged>>

-----------------------------------------------------------------------------
(* CloseAllConnections deletes the writer and the readers in the vector,    *)
(* whether or not somebody uses the writer.                                 *)
CloseAllConnections ==
    /\ writeConnection' = Null
    /\ writeConnectionUsed' = TRUE
    /\ readConnections' = <<>>
    /\ idleReadConnectionCount' = 0
    /\ open' = open \ ({writeConnection} \cup Elements(readConnections))

(* Defect: the idle count starts anew with the new readers.                 *)
ReplaceReadersAndCount ==
    /\ readConnections' = FreshReaders(opened, readConnectionCount)
    /\ idleReadConnectionCount' = readConnectionCount
    /\ opened' = opened + readConnectionCount
    /\ open' = (open \ Elements(readConnections)) \cup Elements(readConnections')
    /\ UNCHANGED <<writeConnection, writeConnectionUsed, damaged>>

(* Deletes the readers in the vector and opens readConnectionCount new      *)
(* ones.  idleReadConnectionCount is left alone: readers in use come back   *)
(* later and make the vector longer.                                        *)
ReplaceReaders ==
    /\ readConnections' = FreshReaders(opened, readConnectionCount)
    /\ opened' = opened + readConnectionCount
    /\ open' = (open \ Elements(readConnections)) \cup Elements(readConnections')
    /\ UNCHANGED <<writeConnection, writeConnectionUsed, idleReadConnectionCount, damaged>>

(* Opening a reader failed: everything is closed, for good.                 *)
ReplaceFails ==
    /\ readConnectionCount > 0
    /\ CloseAllConnections
    /\ damaged' = TRUE
    /\ UNCHANGED opened

InnerReOpenReadConnections ==
    /\ ReplaceReaders \/ ReplaceFails
    /\ UNCHANGED <<readConnectionCount, conn>>

(* After DDL: under readMutex only, so the writer and readers may be in use. *)
ReOpenAvailableReadConnections == InnerReOpenReadConnections

(* Under both mutexes, and only when nothing is in use.                     *)
ChangeEncryptKey ==
    /\ ~writeConnectionUsed
    /\ idleReadConnectionCount >= readConnectionCount
    /\ InnerReOpenReadConnections

(* ChangeDbFileForRestore takes no mutex: the test whether the pool is      *)
(* busy, the closing and the opening of the restored file are three steps.  *)
RestoreCheck ==
    ~writeConnectionUsed /\ idleReadConnectionCount = readConnectionCount

RestoreClose ==
    /\ CloseAllConnections
    /\ damaged' = (damaged \/ \E s \in Sessions : conn[s] # Null)
    /\ UNCHANGED <<readConnectionCount, conn, opened>>

RestoreOpens ==
    /\ writeConnection' = Writer(opened + 1)
    /\ writeConnectionUsed' = FALSE
    /\ readConnections' = readConnections \o FreshReaders(opened + 1, readConnectionCount)
    /\ idleReadConnectionCount' = readConnectionCount
    /\ opened' = opened + readConnectionCount + 1
    /\ open' = open \cup {writeConnection'} \cup Elements(readConnections')
    /\ damaged' = (damaged \/ writeConnection # Null \/ readConnections # <<>>)

(* The writer or a reader cannot be opened.                                 *)
RestoreFails ==
    /\ \/ /\ writeConnection' = Null
          /\ UNCHANGED <<writeConnectionUsed, readConnections, idleReadConnectionCount, open>>
       \/ readConnectionCount > 0 /\ CloseAllConnections
    /\ damaged' = TRUE
    /\ UNCHANGED opened

RestoreInit ==
    /\ RestoreOpens \/ RestoreFails
    /\ UNCHANGED <<readConnectionCount, conn>>

-----------------------------------------------------------------------------
PoolNext ==
    \/ \E s \in Sessions :
          \/ conn[s] = Null /\ \E isReadOnly \in BOOLEAN : PoolAcquire(s, isReadOnly)
          \/ conn[s] # Null /\ PoolRelease(s)
    \/ ReOpenAvailableReadConnections
    \/ ChangeEncryptKey
    \/ RestoreClose
    \/ RestoreInit

PoolSpec == PoolInit /\ [][PoolNext]_poolVars

-----------------------------------------------------------------------------
HoldsReader == {s \in Sessions : conn[s] # Null /\ conn[s] # writeConnection}

HoldsWriter == {s \in Sessions : conn[s] # Null /\ conn[s] = writeConnection}

(* The pool is in order: no connection in use was closed under its user,    *)
(* and it is not between the two halves of a restore.                       *)
InOrder == ~damaged /\ writeConnection # Null

PoolTypeOK ==
    /\ readConnectionCount \in ReaderCounts
    /\ writeConnection \in Connections
    /\ writeConnectionUsed \in BOOLEAN
    /\ readConnections \in Seq(Connections)
    /\ idleReadConnectionCount \in Nat
    /\ conn \in [Sessions -> Connections]
    /\ opened \in Nat
    /\ open \in SUBSET Connections
    /\ damaged \in BOOLEAN

(* sqlite_connection_pool.cpp:144-178: the idle count is exact, whatever    *)
(* reopening happened while readers were out, and readConnections.back() is *)
(* never taken from an empty vector.  Every reader that was out at a        *)
(* reopening makes the pool one connection larger, but at most twice the    *)
(* configured number of readers is ever open.                               *)
ReaderCountExact ==
    /\ ~damaged => idleReadConnectionCount <= Len(readConnections)
    /\ InOrder =>
          /\ idleReadConnectionCount + Cardinality(HoldsReader) = readConnectionCount
          /\ Len(readConnections) + Cardinality(HoldsReader) <= 2 * readConnectionCount

(* sqlite_connection_pool.cpp:112-163: a connection is used by at most one  *)
(* session, is not deleted while it is used, is not at the same time        *)
(* offered to others, and the writer is marked used exactly when it is.     *)
HeldExclusively ==
    InOrder =>
        /\ \A s \in Sessions : conn[s] # Null =>
              conn[s] \in open /\ conn[s] \notin Elements(readConnections)
        /\ \A s, r \in Sessions : s # r /\ conn[s] # Null => conn[s] # conn[r]
        /\ writeConnectionUsed <=> (HoldsWriter # {})

=============================================================================
