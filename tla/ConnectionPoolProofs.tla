------------------------ MODULE ConnectionPoolProofs ------------------------
(* Theorems about ConnectionPool, for any sessions and any number of readers. *)
EXTENDS ConnectionPool, FiniteSetTheorems, TLAPS

(* A connection the pool has opened.                                         *)
Known(c) == c \in Connections /\ c.id \in 1..opened

(* The readers in the vector: distinct, open, and nobody's.                   *)
VectorInv ==
    /\ \A i \in 1..Len(readConnections) :
          /\ Known(readConnections[i]) /\ ~readConnections[i].isWriteConnection
          /\ readConnections[i] \in open
    /\ \A i, j \in 1..Len(readConnections) :
          readConnections[i] = readConnections[j] => i = j
    /\ \A i \in 1..Len(readConnections), s \in Sessions : conn[s] # readConnections[i]

(* The connections in use: open, known, each with one session.               *)
HeldInv ==
    /\ \A s \in Sessions : conn[s] # Null =>
          /\ Known(conn[s]) /\ conn[s] \in open
          /\ conn[s].isWriteConnection => conn[s] = writeConnection
    /\ \A s, r \in Sessions : s # r /\ conn[s] # Null => conn[s] # conn[r]

WriterInv ==
    /\ Known(writeConnection) /\ writeConnection.isWriteConnection
    /\ writeConnection \in open
    /\ writeConnectionUsed <=> \E s \in Sessions : conn[s] = writeConnection

(* The vector is longer than the idle count by the readers that were out at  *)
(* the last reopening and have come back.                                    *)
CountInv ==
    /\ idleReadConnectionCount + Cardinality(HoldsReader) = readConnectionCount
    /\ idleReadConnectionCount <= Len(readConnections)
    /\ Len(readConnections) <= readConnectionCount + idleReadConnectionCount

(* Between the two halves of a restore nobody has a connection or gets one.  *)
ClosedInv ==
    /\ writeConnectionUsed /\ idleReadConnectionCount = 0
    /\ \A s \in Sessions : conn[s] = Null

PoolInv ==
    ~damaged => IF writeConnection = Null THEN ClosedInv
                ELSE VectorInv /\ HeldInv /\ WriterInv /\ CountInv

-----------------------------------------------------------------------------
(* The null connection is numbered 0, and no other is.                      *)
LEMMA NullFacts ==
    /\ Null \in Connections /\ Null.id = 0 /\ ~Null.isWriteConnection
    /\ \A c \in Connections : c.id > 0 => c # Null
BY DEF Null, Connections

(* Connections opened together are readers, numbered one after the other.   *)
LEMMA FreshFacts ==
    ASSUME NEW k \in Nat, NEW n \in Nat
    PROVE  /\ FreshReaders(k, n) \in Seq(Connections)
           /\ Len(FreshReaders(k, n)) = n
           /\ \A i \in 1..n : /\ FreshReaders(k, n)[i] \in Connections
                              /\ FreshReaders(k, n)[i].id = k + i
                              /\ ~FreshReaders(k, n)[i].isWriteConnection
<1>1. \A i \in 1..n : Reader(k + i) \in Connections
  BY DEF Reader, Connections
<1>2. FreshReaders(k, n) \in [1..n -> Connections]
  BY <1>1 DEF FreshReaders
<1>3. FreshReaders(k, n) \in Seq(Connections) /\ Len(FreshReaders(k, n)) = n
  BY <1>2
<1>4. \A i \in 1..n : FreshReaders(k, n)[i] = Reader(k + i)
  BY DEF FreshReaders
<1> QED
  BY <1>1, <1>3, <1>4 DEF Reader

(* The elements of a sequence of connections are connections.               *)
LEMMA ElementsType ==
    ASSUME NEW q \in Seq(Connections)
    PROVE  Elements(q) \subseteq Connections
BY DEF Elements

(* A connection opened for writing is a write connection.                   *)
LEMMA WriterFacts ==
    ASSUME NEW k \in Nat
    PROVE  Writer(k) \in Connections /\ Writer(k).id = k /\ Writer(k).isWriteConnection
BY DEF Writer, Connections

(* Every step keeps the types.                                               *)
LEMMA PoolType ==
    PoolTypeOK /\ [PoolNext]_poolVars => PoolTypeOK'
<1> SUFFICES ASSUME PoolTypeOK, [PoolNext]_poolVars PROVE PoolTypeOK'
  OBVIOUS
<1> USE ReaderCountsAssumption
<1>0. readConnectionCount \in Nat /\ readConnections \in Seq(Connections) /\ Null \in Connections
      /\ idleReadConnectionCount \in Nat /\ opened \in Nat
  BY NullFacts DEF PoolTypeOK
<1>1. ASSUME NEW s \in Sessions, NEW isReadOnly \in BOOLEAN, PoolAcquire(s, isReadOnly)
      PROVE  PoolTypeOK'
  <2>1. CASE AcquireReadConnection(s)
    <3>1. readConnections # <<>> /\ Len(readConnections) \in 1..Len(readConnections)
      BY <2>1, <1>0 DEF AcquireReadConnection
    <3>2. readConnections[Len(readConnections)] \in Connections
      BY <3>1, <1>0
    <3>3. readConnections' \in Seq(Connections)
      BY <2>1, <3>1, <1>0 DEF AcquireReadConnection
    <3> QED
      BY <1>1, <2>1, <3>2, <3>3 DEF AcquireReadConnection, PoolAcquire, PoolTypeOK
  <2>2. CASE AcquireWriteConnection(s)
    BY <1>1, <2>2 DEF AcquireWriteConnection, PoolAcquire, PoolTypeOK
  <2> QED
    BY <1>1, <2>1, <2>2 DEF PoolAcquire
<1>2. ASSUME NEW s \in Sessions, PoolRelease(s) PROVE PoolTypeOK'
  <2>1. conn[s] \in Connections
    BY DEF PoolTypeOK
  <2>2. Append(readConnections, conn[s]) \in Seq(Connections)
    BY <2>1, <1>0
  <2>3. CASE conn[s] = writeConnection
    BY <1>2, <1>0, <2>3 DEF PoolRelease, PoolTypeOK
  <2>4. CASE conn[s] # writeConnection
    BY <1>2, <1>0, <2>2, <2>4 DEF PoolRelease, PoolTypeOK
  <2> QED
    BY <2>3, <2>4
<1>3. ASSUME InnerReOpenReadConnections PROVE PoolTypeOK'
  <2>1. /\ FreshReaders(opened, readConnectionCount) \in Seq(Connections)
        /\ Elements(FreshReaders(opened, readConnectionCount)) \subseteq Connections
    BY <1>0, FreshFacts, ElementsType
  <2>2. CASE ReplaceReaders
    BY <1>3, <2>2, <2>1, <1>0 DEF InnerReOpenReadConnections, ReplaceReaders, PoolTypeOK
  <2>3. CASE ReplaceFails
    BY <1>3, <2>3, <1>0 DEF InnerReOpenReadConnections, ReplaceFails, CloseAllConnections, PoolTypeOK
  <2> QED
    BY <1>3, <2>2, <2>3 DEF InnerReOpenReadConnections
<1>4. CASE RestoreClose
  BY <1>4, <1>0 DEF RestoreClose, CloseAllConnections, PoolTypeOK
<1>5. CASE RestoreInit
  <2>1. FreshReaders(opened + 1, readConnectionCount) \in Seq(Connections)
    BY <1>0, FreshFacts
  <2>2. readConnections \o FreshReaders(opened + 1, readConnectionCount) \in Seq(Connections)
    BY <1>0, <2>1
  <2>3. Writer(opened + 1) \in Connections
    BY <1>0, WriterFacts
  <2>4. CASE RestoreOpens
    <3>1. readConnections' \in Seq(Connections) /\ writeConnection' \in Connections
      BY <2>4, <2>2, <2>3 DEF RestoreOpens
    <3>2. open' \subseteq Connections
      BY <2>4, <3>1, ElementsType DEF RestoreOpens, PoolTypeOK
    <3>3. damaged' \in BOOLEAN
      BY <2>4 DEF RestoreOpens
    <3>4. /\ readConnectionCount' = readConnectionCount /\ conn' = conn
          /\ idleReadConnectionCount' = readConnectionCount /\ opened' \in Nat
          /\ writeConnectionUsed' = FALSE
      BY <1>5, <2>4, <1>0 DEF RestoreInit, RestoreOpens
    <3> QED
      BY <3>1, <3>2, <3>3, <3>4, <1>0 DEF PoolTypeOK
  <2>5. CASE RestoreFails
    <3>1. CASE UNCHANGED <<writeConnectionUsed, readConnections, idleReadConnectionCount, open>>
               /\ writeConnection' = Null
      BY <1>5, <2>5, <3>1, <1>0 DEF RestoreInit, RestoreFails, PoolTypeOK
    <3>2. CASE CloseAllConnections
      BY <1>5, <2>5, <3>2, <1>0 DEF RestoreInit, RestoreFails, CloseAllConnections, PoolTypeOK
    <3> QED
      BY <2>5, <3>1, <3>2 DEF RestoreFails
  <2> QED
    BY <1>5, <2>4, <2>5 DEF RestoreInit
<1>6. CASE UNCHANGED poolVars
  BY <1>6 DEF poolVars, PoolTypeOK
<1> QED
  BY <1>1, <1>2, <1>3, <1>4, <1>5, <1>6
     DEF PoolNext, ReOpenAvailableReadConnections, ChangeEncryptKey

-----------------------------------------------------------------------------
(* Taking a connection.                                                      *)
LEMMA AcquireKeepsInv ==
    ASSUME PoolTypeOK, PoolInv, NEW s \in Sessions, conn[s] = Null,
           NEW isReadOnly \in BOOLEAN, PoolAcquire(s, isReadOnly)
    PROVE  PoolInv'
<1> SUFFICES ASSUME ~damaged PROVE PoolInv'
  BY DEF PoolInv, PoolAcquire
<1>1. writeConnection # Null
  BY DEF PoolInv, ClosedInv, PoolAcquire, AcquireReadConnection, AcquireWriteConnection
<1>2. VectorInv /\ HeldInv /\ WriterInv /\ CountInv
  BY <1>1 DEF PoolInv
<1>3. /\ conn \in [Sessions -> Connections] /\ readConnections \in Seq(Connections)
      /\ idleReadConnectionCount \in Nat /\ readConnectionCount \in Nat
  BY ReaderCountsAssumption DEF PoolTypeOK
<1>4. UNCHANGED <<readConnectionCount, writeConnection, opened, open, damaged>>
  BY DEF PoolAcquire
<1>5. IsFiniteSet(HoldsReader) /\ s \notin HoldsReader
  BY FS_Subset, SessionsAssumption DEF HoldsReader
<1>6. CASE AcquireWriteConnection(s)
  <2>1. \A r \in Sessions : conn'[r] = IF r = s THEN writeConnection ELSE conn[r]
    BY <1>3, <1>6 DEF AcquireWriteConnection
  <2>2. UNCHANGED <<readConnections, idleReadConnectionCount>> /\ writeConnectionUsed' = TRUE
    BY <1>6 DEF AcquireWriteConnection
  <2>3. \A r \in Sessions : conn[r] # writeConnection
    BY <1>2, <1>6 DEF WriterInv, AcquireWriteConnection
  <2>4. HoldsReader' = HoldsReader
    BY <2>1, <1>4, <1>5 DEF HoldsReader
  <2>5. VectorInv'
    BY <1>2, <1>4, <2>1, <2>2 DEF VectorInv, WriterInv, Known
  <2>6. HeldInv'
    BY <1>2, <1>4, <2>1, <2>3 DEF HeldInv, WriterInv, Known
  <2>7. WriterInv'
    BY <1>2, <1>4, <2>1, <2>2 DEF WriterInv, Known
  <2>8. CountInv'
    BY <1>2, <1>4, <2>2, <2>4 DEF CountInv
  <2> QED
    BY <1>1, <1>4, <2>5, <2>6, <2>7, <2>8 DEF PoolInv
<1>7. CASE AcquireReadConnection(s)
  <2> DEFINE n == Len(readConnections)
  <2>1. n \in Nat /\ n > 0 /\ idleReadConnectionCount > 0
    BY <1>3, <1>7 DEF AcquireReadConnection
  <2>2. /\ Len(readConnections') = n - 1
        /\ \A i \in 1..(n - 1) : readConnections'[i] = readConnections[i]
    <3>1. readConnections' = SubSeq(readConnections, 1, n - 1) /\ n - 1 \in 0..n
      BY <1>7, <2>1 DEF AcquireReadConnection
    <3>2. \A i \in 1..(n - 1) : readConnections[i] \in Connections
      BY <1>3, <2>1
    <3>3. /\ Len(SubSeq(readConnections, 1, n - 1)) = IF 1 <= n - 1 THEN n - 1 - 1 + 1 ELSE 0
          /\ \A i \in 1..(n - 1 - 1 + 1) :
                SubSeq(readConnections, 1, n - 1)[i] = readConnections[1 + i - 1]
      <4> HIDE DEF n
      <4>1. 1 \in Int /\ n - 1 \in Int
        BY <2>1
      <4> QED
        BY <2>1, <3>2, <4>1
    <3>4. Len(SubSeq(readConnections, 1, n - 1)) = n - 1
      <4>1. (IF 1 <= n - 1 THEN n - 1 - 1 + 1 ELSE 0) = n - 1
        <5> HIDE DEF n
        <5> QED
          BY <2>1
      <4> QED
        BY <3>3, <4>1
    <3>5. ASSUME NEW i \in 1..(n - 1)
          PROVE  SubSeq(readConnections, 1, n - 1)[i] = readConnections[i]
      <4> HIDE DEF n
      <4>1. i \in 1..(n - 1 - 1 + 1) /\ 1 + i - 1 = i
        BY <2>1
      <4> QED
        BY <3>3, <4>1
    <3> QED
      BY <3>1, <3>4, <3>5
  <2>3. \A r \in Sessions : conn'[r] = IF r = s THEN readConnections[n] ELSE conn[r]
    BY <1>3, <1>7 DEF AcquireReadConnection
  <2>4. /\ Known(readConnections[n]) /\ ~readConnections[n].isWriteConnection
        /\ readConnections[n] \in open
        /\ \A r \in Sessions : conn[r] # readConnections[n]
        /\ \A i \in 1..(n - 1) : readConnections[i] # readConnections[n]
    BY <1>2, <2>1 DEF VectorInv
  <2>5. readConnections[n] # Null /\ readConnections[n] # writeConnection
    BY <1>2, <2>4, NullFacts DEF WriterInv, Known
  <2>6. HoldsReader' = HoldsReader \cup {s}
    BY <2>3, <2>5, <1>4 DEF HoldsReader
  <2>7. Cardinality(HoldsReader') = Cardinality(HoldsReader) + 1
    BY <2>6, <1>5, FS_AddElement
  <2>8. idleReadConnectionCount' = idleReadConnectionCount - 1 /\ writeConnectionUsed' = writeConnectionUsed
    BY <1>7 DEF AcquireReadConnection
  <2>9. VectorInv'
    BY <1>2, <1>4, <2>1, <2>2, <2>3, <2>4 DEF VectorInv, Known
  <2>10. HeldInv'
    BY <1>2, <1>4, <2>3, <2>4, <2>5 DEF HeldInv, Known
  <2>11. WriterInv'
    BY <1>1, <1>2, <1>4, <2>3, <2>5, <2>8 DEF WriterInv, Known
  <2>12. Cardinality(HoldsReader) \in Nat
    BY <1>5, FS_CardinalityType
  <2>13. CountInv'
    BY <1>2, <1>3, <1>4, <2>1, <2>2, <2>7, <2>8, <2>12 DEF CountInv
  <2> QED
    BY <1>1, <1>4, <2>9, <2>10, <2>11, <2>13 DEF PoolInv
<1> QED
  BY <1>6, <1>7 DEF PoolAcquire

(* Giving a connection back.                                                 *)
LEMMA ReleaseKeepsInv ==
    ASSUME PoolTypeOK, PoolInv, NEW s \in Sessions, conn[s] # Null, PoolRelease(s)
    PROVE  PoolInv'
<1> SUFFICES ASSUME ~damaged PROVE PoolInv'
  BY DEF PoolInv, PoolRelease
<1>1. writeConnection # Null
  BY DEF PoolInv, ClosedInv
<1>2. VectorInv /\ HeldInv /\ WriterInv /\ CountInv
  BY <1>1 DEF PoolInv
<1>3. /\ conn \in [Sessions -> Connections] /\ readConnections \in Seq(Connections)
      /\ idleReadConnectionCount \in Nat /\ readConnectionCount \in Nat
  BY ReaderCountsAssumption DEF PoolTypeOK
<1>4. UNCHANGED <<readConnectionCount, writeConnection, opened, open, damaged>>
  BY DEF PoolRelease
<1>5. IsFiniteSet(HoldsReader) /\ Cardinality(HoldsReader) \in Nat
  BY FS_Subset, FS_CardinalityType, SessionsAssumption DEF HoldsReader
<1>6. \A r \in Sessions : conn'[r] = IF r = s THEN Null ELSE conn[r]
  BY <1>3 DEF PoolRelease
<1>7. HeldInv'
  BY <1>2, <1>4, <1>6 DEF HeldInv, Known
<1>8. CASE conn[s] = writeConnection
  <2>1. UNCHANGED <<readConnections, idleReadConnectionCount>> /\ writeConnectionUsed' = FALSE
    BY <1>8 DEF PoolRelease
  <2>2. HoldsReader' = HoldsReader
    BY <1>8, <1>6, <1>4 DEF HoldsReader
  <2>3. VectorInv'
    BY <1>2, <1>4, <1>6, <2>1, NullFacts DEF VectorInv, Known
  <2>4. WriterInv'
    BY <1>1, <1>2, <1>4, <1>6, <1>8, <2>1 DEF WriterInv, HeldInv, Known
  <2>5. CountInv'
    BY <1>2, <1>4, <2>1, <2>2 DEF CountInv
  <2> QED
    BY <1>1, <1>4, <1>7, <2>3, <2>4, <2>5 DEF PoolInv
<1>9. CASE conn[s] # writeConnection
  <2> DEFINE n == Len(readConnections)
  <2>1. /\ readConnections' = Append(readConnections, conn[s])
        /\ idleReadConnectionCount' = idleReadConnectionCount + 1
        /\ writeConnectionUsed' = writeConnectionUsed
    BY <1>9 DEF PoolRelease
  <2>2. /\ n \in Nat /\ Len(readConnections') = n + 1 /\ readConnections'[n + 1] = conn[s]
        /\ \A i \in 1..n : readConnections'[i] = readConnections[i]
    BY <1>3, <2>1
  <2>3. /\ Known(conn[s]) /\ ~conn[s].isWriteConnection /\ conn[s] \in open
        /\ \A i \in 1..n : readConnections[i] # conn[s]
        /\ \A r \in Sessions : r # s => conn[r] # conn[s]
    BY <1>2, <1>9 DEF HeldInv, VectorInv
  <2>4. s \in HoldsReader /\ HoldsReader' = HoldsReader \ {s}
    BY <1>4, <1>6, <1>9 DEF HoldsReader
  <2>5. Cardinality(HoldsReader') = Cardinality(HoldsReader) - 1
    BY <2>4, <1>5, FS_RemoveElement
  <2>6. \A i \in 1..(n + 1) : i = n + 1 \/ i \in 1..n
    BY <2>2
  <2>7. VectorInv'
    <3>1. \A i \in 1..Len(readConnections') :
             /\ readConnections'[i] \in Connections /\ readConnections'[i].id \in 1..opened'
             /\ ~readConnections'[i].isWriteConnection
             /\ readConnections'[i] \in open'
      <4> SUFFICES ASSUME NEW i \in 1..(n + 1)
                   PROVE  /\ readConnections'[i] \in Connections
                          /\ readConnections'[i].id \in 1..opened'
                          /\ ~readConnections'[i].isWriteConnection
                          /\ readConnections'[i] \in open'
        BY <2>2
      <4>1. CASE i = n + 1
        BY <4>1, <1>4, <2>2, <2>3 DEF Known
      <4>2. CASE i \in 1..n
        BY <4>2, <1>2, <1>4, <2>2 DEF VectorInv, Known
      <4> QED
        BY <4>1, <4>2, <2>6
    <3>2. \A i, j \in 1..Len(readConnections') :
             readConnections'[i] = readConnections'[j] => i = j
      BY <1>2, <2>2, <2>3, <2>6 DEF VectorInv
    <3>3. \A i \in 1..Len(readConnections') : readConnections'[i] # Null
      BY <3>1, NullFacts
    <3>4. \A i \in 1..Len(readConnections'), r \in Sessions : conn'[r] # readConnections'[i]
      <4> SUFFICES ASSUME NEW i \in 1..(n + 1), NEW r \in Sessions
                   PROVE  conn'[r] # readConnections'[i]
        BY <2>2
      <4>1. CASE r = s
        BY <4>1, <1>6, <2>2, <3>3
      <4>2. CASE r # s /\ i = n + 1
        BY <4>2, <1>6, <2>2, <2>3
      <4>3. CASE r # s /\ i \in 1..n
        BY <4>3, <1>2, <1>6, <2>2 DEF VectorInv
      <4> QED
        BY <4>1, <4>2, <4>3, <2>6
    <3> QED
      BY <3>1, <3>2, <3>4 DEF VectorInv, Known
  <2>8. WriterInv'
    BY <1>1, <1>2, <1>4, <1>6, <1>9, <2>1 DEF WriterInv, Known
  <2>9. CountInv'
    <3>1. readConnectionCount' = readConnectionCount
      BY <1>4
    <3>2. /\ idleReadConnectionCount + Cardinality(HoldsReader) = readConnectionCount
          /\ idleReadConnectionCount <= n
          /\ n <= readConnectionCount + idleReadConnectionCount
      BY <1>2 DEF CountInv
    <3>3. Len(readConnections') = n + 1 /\ n \in Nat
          /\ idleReadConnectionCount' = idleReadConnectionCount + 1
          /\ idleReadConnectionCount \in Nat /\ readConnectionCount \in Nat
      BY <1>3, <2>1, <2>2
    <3>4. /\ idleReadConnectionCount' + Cardinality(HoldsReader') = readConnectionCount'
          /\ idleReadConnectionCount' <= Len(readConnections')
          /\ Len(readConnections') <= readConnectionCount' + idleReadConnectionCount'
      BY <3>1, <3>2, <3>3, <1>5, <2>5
    <3> QED
      BY <3>4 DEF CountInv
  <2> QED
    BY <1>1, <1>4, <1>7, <2>7, <2>8, <2>9 DEF PoolInv
<1> QED
  BY <1>8, <1>9

-----------------------------------------------------------------------------
(* Reopening the readers, with readers or the writer in use.                 *)
LEMMA ReopenKeepsInv ==
    ASSUME PoolTypeOK, PoolInv, InnerReOpenReadConnections
    PROVE  PoolInv'
<1> SUFFICES ASSUME ~damaged' PROVE PoolInv'
  BY DEF PoolInv
<1>1. ReplaceReaders /\ ~damaged /\ UNCHANGED <<readConnectionCount, conn, writeConnection,
                                   writeConnectionUsed, idleReadConnectionCount>>
  BY DEF InnerReOpenReadConnections, ReplaceReaders, ReplaceFails
<1>2. CASE writeConnection = Null
  BY <1>1, <1>2 DEF PoolInv, ClosedInv
<1>3. CASE writeConnection # Null
  <2> DEFINE n == readConnectionCount
  <2>1. VectorInv /\ HeldInv /\ WriterInv /\ CountInv
    BY <1>1, <1>3 DEF PoolInv
  <2>2. /\ conn \in [Sessions -> Connections] /\ opened \in Nat
        /\ idleReadConnectionCount \in Nat /\ n \in Nat
    BY ReaderCountsAssumption DEF PoolTypeOK
  <2>3. /\ readConnections' = FreshReaders(opened, n) /\ opened' = opened + n
        /\ open' = (open \ Elements(readConnections)) \cup Elements(readConnections')
    BY <1>1 DEF ReplaceReaders
  <2>4. /\ Len(readConnections') = n
        /\ \A i \in 1..n : /\ readConnections'[i] \in Connections
                           /\ readConnections'[i].id = opened + i
                           /\ ~readConnections'[i].isWriteConnection
    BY <2>2, <2>3, FreshFacts
  <2>5. \A i \in 1..n : readConnections'[i] \in open'
    BY <2>3, <2>4 DEF Elements
  <2>6. \A c \in open : (\A i \in 1..Len(readConnections) : readConnections[i] # c) => c \in open'
    BY <2>3 DEF Elements
  <2>7. \A c : Known(c) => Known(c)' /\ \A i \in 1..n : readConnections'[i] # c
    BY <2>2, <2>3, <2>4 DEF Known
  <2>8. VectorInv'
    <3>1. \A i \in 1..n, s \in Sessions : conn[s] # readConnections'[i]
      <4> SUFFICES ASSUME NEW i \in 1..n, NEW s \in Sessions PROVE conn[s] # readConnections'[i]
        OBVIOUS
      <4>1. CASE conn[s] = Null
        BY <4>1, <2>2, <2>4, NullFacts
      <4>2. CASE conn[s] # Null
        BY <4>2, <2>1, <2>7 DEF HeldInv
      <4> QED
        BY <4>1, <4>2
    <3>2. \A i, j \in 1..n : readConnections'[i] = readConnections'[j] => i = j
      <4> SUFFICES ASSUME NEW i \in 1..n, NEW j \in 1..n, readConnections'[i] = readConnections'[j]
                   PROVE  i = j
        OBVIOUS
      <4>1. opened + i = opened + j
        BY <2>4
      <4> QED
        BY <4>1, <2>2
    <3>3. \A i \in 1..n : readConnections'[i].id \in 1..opened'
      BY <2>2, <2>3, <2>4
    <3> QED
      BY <1>1, <2>4, <2>5, <3>1, <3>2, <3>3 DEF VectorInv, Known
  <2>9. HeldInv'
    BY <1>1, <2>1, <2>6, <2>7 DEF HeldInv, VectorInv
  <2>10. WriterInv'
    <3>1. \A i \in 1..Len(readConnections) : readConnections[i] # writeConnection
      BY <2>1 DEF VectorInv, WriterInv
    <3> QED
      BY <1>1, <2>1, <2>6, <2>7, <3>1 DEF WriterInv
  <2>11. CountInv'
    <3>1. IsFiniteSet(HoldsReader) /\ Cardinality(HoldsReader) \in Nat
      BY FS_Subset, FS_CardinalityType, SessionsAssumption DEF HoldsReader
    <3>2. HoldsReader' = HoldsReader
      BY <1>1 DEF HoldsReader
    <3> QED
      BY <1>1, <2>1, <2>2, <2>4, <3>1, <3>2 DEF CountInv
  <2> QED
    BY <1>1, <1>3, <2>8, <2>9, <2>10, <2>11 DEF PoolInv
<1> QED
  BY <1>2, <1>3

(* Opening the restored file, when nobody came in between.                   *)
LEMMA RestoreKeepsInv ==
    ASSUME PoolTypeOK, PoolInv, RestoreInit
    PROVE  PoolInv'
<1> SUFFICES ASSUME ~damaged' PROVE PoolInv'
  BY DEF PoolInv
<1>1. RestoreOpens /\ ~damaged /\ writeConnection = Null /\ readConnections = <<>>
      /\ UNCHANGED <<readConnectionCount, conn>>
  BY DEF RestoreInit, RestoreOpens, RestoreFails
<1>2. \A s \in Sessions : conn[s] = Null
  BY <1>1 DEF PoolInv, ClosedInv
<1> DEFINE n == readConnectionCount
<1>3. opened \in Nat /\ n \in Nat
  BY ReaderCountsAssumption DEF PoolTypeOK
<1>4. /\ readConnections' = FreshReaders(opened + 1, n)
      /\ Len(readConnections') = n
      /\ \A i \in 1..n : /\ readConnections'[i] \in Connections
                         /\ readConnections'[i].id = opened + 1 + i
                         /\ ~readConnections'[i].isWriteConnection
  <2>1. FreshReaders(opened + 1, n) \in Seq(Connections)
    BY <1>3, FreshFacts
  <2>2. readConnections' = <<>> \o FreshReaders(opened + 1, n)
    BY <1>1 DEF RestoreOpens
  <2>3. readConnections' = FreshReaders(opened + 1, n)
    BY <2>1, <2>2
  <2>4. opened + 1 \in Nat
    BY <1>3
  <2>5. /\ Len(FreshReaders(opened + 1, n)) = n
        /\ \A i \in 1..n : /\ FreshReaders(opened + 1, n)[i] \in Connections
                           /\ FreshReaders(opened + 1, n)[i].id = opened + 1 + i
                           /\ ~FreshReaders(opened + 1, n)[i].isWriteConnection
    BY <1>3, <2>4, FreshFacts
  <2> QED
    BY <2>3, <2>5
<1>5. /\ writeConnection' \in Connections /\ writeConnection'.id = opened + 1
      /\ writeConnection'.isWriteConnection /\ opened' = opened + n + 1
  BY <1>1, <1>3, WriterFacts DEF RestoreOpens
<1>6. /\ writeConnection' \in open' /\ \A i \in 1..n : readConnections'[i] \in open'
  BY <1>1, <1>4 DEF RestoreOpens, Elements
<1>7. writeConnection' # Null /\ \A i \in 1..n : readConnections'[i] # Null
  BY <1>3, <1>4, <1>5, NullFacts
<1>8. VectorInv'
  <2>1. \A i, j \in 1..n : readConnections'[i] = readConnections'[j] => i = j
    <3> SUFFICES ASSUME NEW i \in 1..n, NEW j \in 1..n, readConnections'[i] = readConnections'[j]
                 PROVE  i = j
      OBVIOUS
    <3>1. opened + 1 + i = opened + 1 + j
      BY <1>4
    <3> QED
      BY <3>1, <1>3
  <2>2. \A i \in 1..n : readConnections'[i].id \in 1..opened'
    BY <1>3, <1>4, <1>5
  <2> QED
    BY <1>1, <1>2, <1>4, <1>6, <1>7, <2>1, <2>2 DEF VectorInv, Known
<1>9. HeldInv'
  BY <1>1, <1>2 DEF HeldInv
<1>10. WriterInv'
  BY <1>1, <1>2, <1>3, <1>5, <1>6, <1>7 DEF WriterInv, Known, RestoreOpens
<1>11. CountInv'
  <2>1. HoldsReader' = {}
    BY <1>1, <1>2 DEF HoldsReader
  <2> QED
    BY <1>1, <1>3, <1>4, <2>1, FS_EmptySet DEF CountInv, RestoreOpens
<1> QED
  BY <1>7, <1>8, <1>9, <1>10, <1>11 DEF PoolInv

(* Closing everything, when nobody has a connection.                        *)
LEMMA CloseKeepsInv ==
    ASSUME RestoreClose
    PROVE  PoolInv'
<1> SUFFICES ASSUME ~damaged' PROVE PoolInv'
  BY DEF PoolInv
<1>1. \A s \in Sessions : conn'[s] = Null
  BY DEF RestoreClose
<1>2. writeConnection' = Null /\ writeConnectionUsed' /\ idleReadConnectionCount' = 0
  BY DEF RestoreClose, CloseAllConnections
<1> QED
  BY <1>1, <1>2 DEF PoolInv, ClosedInv

(* The pool starts within its invariant.                                    *)
LEMMA PoolInvInit ==
    PoolInit => PoolTypeOK /\ PoolInv
<1> SUFFICES ASSUME PoolInit PROVE PoolTypeOK /\ PoolInv
  OBVIOUS
<1> DEFINE n == readConnectionCount
<1>1. /\ n \in Nat /\ opened = n + 1 /\ readConnections = FreshReaders(1, n)
      /\ writeConnection = Writer(1) /\ ~writeConnectionUsed /\ idleReadConnectionCount = n
  BY ReaderCountsAssumption DEF PoolInit
<1>2. \A s \in Sessions : conn[s] = Null
  BY DEF PoolInit
<1>3. /\ readConnections \in Seq(Connections) /\ Len(readConnections) = n
      /\ \A i \in 1..n : /\ readConnections[i] \in Connections
                         /\ readConnections[i].id = 1 + i
                         /\ ~readConnections[i].isWriteConnection
  BY <1>1, FreshFacts
<1>4. writeConnection \in Connections /\ writeConnection.id = 1 /\ writeConnection.isWriteConnection
  BY <1>1, WriterFacts
<1>5. writeConnection \in open /\ \A i \in 1..n : readConnections[i] \in open
  BY <1>3 DEF PoolInit, Elements
<1>6. writeConnection # Null /\ \A i \in 1..n : readConnections[i] # Null
  BY <1>1, <1>3, <1>4, NullFacts
<1>7. PoolTypeOK
  <2>1. open \subseteq Connections
    BY <1>3, <1>4, ElementsType DEF PoolInit
  <2>2. conn \in [Sessions -> Connections]
    BY NullFacts DEF PoolInit
  <2>3. writeConnectionUsed \in BOOLEAN /\ damaged \in BOOLEAN
    BY DEF PoolInit
  <2> QED
    BY <1>1, <1>3, <1>4, <2>1, <2>2, <2>3 DEF PoolTypeOK, PoolInit
<1>8. VectorInv
  <2>1. \A i, j \in 1..n : readConnections[i] = readConnections[j] => i = j
    <3> SUFFICES ASSUME NEW i \in 1..n, NEW j \in 1..n, readConnections[i] = readConnections[j]
                 PROVE  i = j
      OBVIOUS
    <3>1. 1 + i = 1 + j
      BY <1>3
    <3> QED
      BY <3>1, <1>1
  <2>2. \A i \in 1..n : readConnections[i].id \in 1..opened
    BY <1>1, <1>3
  <2> QED
    BY <1>2, <1>3, <1>5, <1>6, <2>1, <2>2 DEF VectorInv, Known
<1>9. HeldInv
  BY <1>2 DEF HeldInv
<1>10. WriterInv
  BY <1>1, <1>2, <1>4, <1>5, <1>6 DEF WriterInv, Known
<1>11. CountInv
  <2>1. HoldsReader = {}
    BY <1>2 DEF HoldsReader
  <2> QED
    BY <1>1, <1>3, <2>1, FS_EmptySet DEF CountInv
<1> QED
  BY <1>6, <1>7, <1>8, <1>9, <1>10, <1>11 DEF PoolInv

(* Every step of the pool keeps it.                                         *)
LEMMA PoolStep ==
    PoolTypeOK /\ PoolInv /\ [PoolNext]_poolVars => PoolInv'
<1> SUFFICES ASSUME PoolTypeOK, PoolInv, [PoolNext]_poolVars PROVE PoolInv'
  OBVIOUS
<1>1. ASSUME NEW s \in Sessions, conn[s] = Null, NEW isReadOnly \in BOOLEAN,
             PoolAcquire(s, isReadOnly)
      PROVE  PoolInv'
  BY <1>1, AcquireKeepsInv
<1>2. ASSUME NEW s \in Sessions, conn[s] # Null, PoolRelease(s) PROVE PoolInv'
  BY <1>2, ReleaseKeepsInv
<1>3. CASE ReOpenAvailableReadConnections \/ ChangeEncryptKey
  BY <1>3, ReopenKeepsInv DEF ReOpenAvailableReadConnections, ChangeEncryptKey
<1>4. CASE RestoreClose
  BY <1>4, CloseKeepsInv
<1>5. CASE RestoreInit
  BY <1>5, RestoreKeepsInv
<1>6. CASE UNCHANGED poolVars
  BY <1>6 DEF poolVars, PoolInv, ClosedInv, VectorInv, HeldInv, WriterInv, CountInv,
              HoldsReader, Known
<1> QED
  BY <1>1, <1>2, <1>3, <1>4, <1>5, <1>6 DEF PoolNext

(* The inductive invariant of the pool: it holds whatever calls are made of *)
(* SqliteConnectionPool.                                                    *)
THEOREM PoolInvariant == PoolSpec => [](PoolTypeOK /\ PoolInv)
<1>1. PoolTypeOK /\ PoolInv /\ [PoolNext]_poolVars => (PoolTypeOK /\ PoolInv)'
  BY PoolType, PoolStep
<1> QED
  BY <1>1, PoolInvInit, PTL DEF PoolSpec

-----------------------------------------------------------------------------
(* sqlite_connection_pool.cpp:144-178: for any number of readers and         *)
(* sessions the idle count plus the readers in use is the configured number, *)
(* no reader is taken from an empty vector, and reopening at most doubles    *)
(* the open readers.                                                         *)
THEOREM ReaderCount == PoolSpec => []ReaderCountExact
<1>1. PoolTypeOK /\ PoolInv => ReaderCountExact
  <2> SUFFICES ASSUME PoolTypeOK, PoolInv, ~damaged PROVE ReaderCountExact
    BY DEF ReaderCountExact, InOrder
  <2>1. CASE writeConnection = Null
    BY <2>1 DEF PoolInv, ClosedInv, PoolTypeOK, ReaderCountExact, InOrder
  <2>2. CASE writeConnection # Null
    <3>1. CountInv
      BY <2>2 DEF PoolInv
    <3>2. /\ idleReadConnectionCount \in Nat /\ readConnectionCount \in Nat
          /\ Len(readConnections) \in Nat /\ Cardinality(HoldsReader) \in Nat
      BY ReaderCountsAssumption, SessionsAssumption, FS_Subset, FS_CardinalityType
         DEF PoolTypeOK, HoldsReader
    <3> QED
      BY <3>1, <3>2 DEF CountInv, ReaderCountExact
  <2> QED
    BY <2>1, <2>2
<1> QED
  BY <1>1, PoolInvariant, PTL

(* sqlite_connection_pool.cpp:112-163: for any number of readers and         *)
(* sessions a connection in use is open, has one user, and is not offered to *)
(* others; the writer is marked used exactly when it is.                     *)
THEOREM Exclusive == PoolSpec => []HeldExclusively
<1>1. PoolInv => HeldExclusively
  <2> SUFFICES ASSUME PoolInv, InOrder PROVE HeldExclusively
    BY DEF HeldExclusively
  <2>1. VectorInv /\ HeldInv /\ WriterInv
    BY DEF PoolInv, InOrder
  <2>2. \A s \in Sessions : conn[s] # Null =>
           conn[s] \in open /\ conn[s] \notin Elements(readConnections)
    BY <2>1 DEF VectorInv, HeldInv, Elements
  <2>3. writeConnectionUsed <=> (HoldsWriter # {})
    BY <2>1 DEF WriterInv, HoldsWriter, InOrder
  <2> QED
    BY <2>1, <2>2, <2>3 DEF HeldInv, HeldExclusively
<1> QED
  BY <1>1, PoolInvariant, PTL

(* The pool changes its writer only for one that is new.                       *)
LEMMA PoolWriter ==
    ASSUME PoolTypeOK, [PoolNext]_poolVars
    PROVE  /\ damaged => damaged'
           /\ opened' >= opened
           /\ InOrder' => \/ InOrder /\ writeConnection' = writeConnection
                          \/ writeConnection'.id > opened
<1>0. opened \in Nat /\ readConnectionCount \in Nat
  BY ReaderCountsAssumption DEF PoolTypeOK
<1>1. ASSUME NEW s \in Sessions, NEW b \in BOOLEAN, PoolAcquire(s, b) \/ PoolRelease(s)
      PROVE  UNCHANGED <<damaged, opened, writeConnection>>
  BY <1>1, Zenon DEF PoolAcquire, PoolRelease
<1>2. CASE UNCHANGED <<damaged, opened, writeConnection>>
  BY <1>0, <1>2 DEF InOrder
<1>3. ASSUME InnerReOpenReadConnections
      PROVE  \/ damaged' /\ opened' = opened
             \/ /\ UNCHANGED <<damaged, writeConnection>>
                /\ opened' = opened + readConnectionCount
  BY <1>3, Zenon DEF InnerReOpenReadConnections, ReplaceReaders, ReplaceFails
<1>4. CASE InnerReOpenReadConnections
  BY <1>0, <1>3, <1>4 DEF InOrder
<1>5. CASE RestoreClose
  <2>1. writeConnection' = Null /\ opened' = opened /\ (damaged => damaged')
    BY <1>5, Zenon DEF RestoreClose, CloseAllConnections
  <2> QED
    BY <1>0, <2>1 DEF InOrder
<1>6. CASE RestoreInit
  <2>1. CASE RestoreOpens
    <3>1. /\ writeConnection' = Writer(opened + 1) /\ opened' = opened + readConnectionCount + 1
          /\ damaged => damaged'
      BY <2>1, Zenon DEF RestoreOpens
    <3>2. writeConnection'.id = opened + 1
      BY <1>0, <3>1, WriterFacts
    <3> QED
      BY <1>0, <3>1, <3>2
  <2>2. CASE RestoreFails
    <3>1. damaged' /\ opened' = opened
      BY <2>2, Zenon DEF RestoreFails
    <3> QED
      BY <1>0, <3>1 DEF InOrder
  <2> QED
    BY <1>6, <2>1, <2>2, Zenon DEF RestoreInit
<1>7. CASE UNCHANGED poolVars
  BY <1>2, <1>7 DEF poolVars
<1> QED
  BY <1>1, <1>2, <1>4, <1>5, <1>6, <1>7, Zenon
     DEF PoolNext, ReOpenAvailableReadConnections, ChangeEncryptKey

=============================================================================
