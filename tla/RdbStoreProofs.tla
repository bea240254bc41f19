--------------------------- MODULE RdbStoreProofs ---------------------------
(***************************************************************************)
(* Theorems about RdbStore, for any threads, sessions, result sets, numbers *)
(* of read connections, idle sessions and calls.                            *)
(***************************************************************************)
EXTENDS RdbActionProofs, RdbUseProofs, ConnectionPoolProofs

-----------------------------------------------------------------------------
(* At the start no thread has a session.                                    *)
LEMMA CallInit == Init => CallInv
<1> SUFFICES ASSUME Init PROVE CallInv
  OBVIOUS
<1>1. threadMap \in Maps /\ idleSessions = <<>> /\ idleSessions \in Seq(Sessions)
  BY DEF Init, Maps
<1>2. \A t \in Threads : threadMap[t].session = NoSession /\ threadMap[t].useCount = 0
  BY DEF Init
<1>3. Apart(Present)
  BY <1>1, <1>2, SMTT(30) DEF Apart, Present
<1> QED
  BY <1>3 DEF Init, CallInv, Places, Busy

(* In every state sessions have one place, and a thread in a call has one.  *)
LEMMA CallInvariant == Spec => []CallInv
<1>1. Init => CallInv
  BY CallInit
<1>2. CallInv /\ [Next]_vars => CallInv'
  <2>1. ASSUME CallInv, Next PROVE CallInv'
    BY <2>1, NextFrame, CallNext, SMTT(30)
  <2>2. ASSUME CallInv, UNCHANGED vars PROVE CallInv'
    BY <2>2, SMTT(30) DEF vars, sessionVars, CallInv, Apart, Present, Session
  <2> QED
    BY <2>1, <2>2, SMTT(30)
<1> QED
  BY <1>1, <1>2, PTL DEF Spec

(* store_session.cpp:37-57 and all its callers: on every path the store uses  *)
(* the connection pool as SqliteConnectionPool expects, so that the store      *)
(* implements the specification of the pool.                                   *)
THEOREM StoreUsesPool == Spec => UsesPool
<1>1. Init => PoolInit
  BY DEF Init
<1>2. CallInv /\ [Next]_vars => [PoolNext]_poolVars
  <2>1. ASSUME CallInv, Next PROVE PoolNext \/ UNCHANGED poolVars
    BY <2>1, NextFrame, SMTT(30) DEF Frame
  <2>2. UNCHANGED vars => UNCHANGED poolVars
    BY DEF vars
  <2> QED
    BY <2>1, <2>2, SMTT(30)
<1> QED
  BY <1>1, <1>2, CallInvariant, PTL DEF Spec, UsesPool, PoolSpec

(* sqlite_connection_pool.cpp:112-178 under all calls of the store: the count  *)
(* of idle readers is exact, and a connection serves one session at a time.    *)
THEOREM StorePool == Spec => [](ReaderCountExact /\ HeldExclusively)
BY StoreUsesPool, ReaderCount, Exclusive, PTL DEF UsesPool

(* There are finitely many result sets, so that sets of them can be         *)
(* counted.                                                                 *)
LEMMA FiniteCounting == Counting
<1> SUFFICES ASSUME NEW S \in SUBSET ResultSets
             PROVE  /\ Cardinality(S) \in Nat
                    /\ Cardinality(S) = 0 <=> S = {}
                    /\ \A r \in ResultSets \ S : Cardinality(S \cup {r}) = Cardinality(S) + 1
                    /\ \A r \in S : Cardinality(S \ {r}) = Cardinality(S) - 1
  BY Zenon DEF Counting
<1>1. IsFiniteSet(S)
  BY FiniteAssumption, FS_Subset, Zenon
<1>2. Cardinality(S) \in Nat /\ (Cardinality(S) = 0 <=> S = {})
  BY <1>1, FS_CardinalityType, FS_EmptySet, Zenon
<1>3. \A r \in ResultSets \ S : Cardinality(S \cup {r}) = Cardinality(S) + 1
  BY <1>1, FS_AddElement, Zenon
<1>4. \A r \in S : Cardinality(S \ {r}) = Cardinality(S) - 1
  BY <1>1, FS_RemoveElement, Zenon
<1> QED
  BY <1>2, <1>3, <1>4, Zenon

(* Every step keeps the facts of Store.                                     *)
LEMMA StoreNext ==
    ASSUME Store, Next, CallInv', PoolTypeOK', Owned', Counting'
    PROVE  Store'
<1>1. PICK t \in Threads : Kind(t) /\ Steps(t)
  BY NextEffect, Zenon
<1>2. StoreTypes'
  BY <1>1, KindUntouched, Zenon DEF Untouched, Steps, StoreTypes
<1>3. PrepareInv' /\ ConnectedInv'
  BY <1>1, PrepareNext, ConnectedNext, Zenon DEF Steps
<1> QED
  BY <1>2, <1>3, Zenon DEF Store

(* They hold at the start.                                                  *)
LEMMA StoreInit == Init /\ CallInv /\ PoolTypeOK /\ Owned /\ Counting => Store
<1> SUFFICES ASSUME Init, CallInv, PoolTypeOK, Owned, Counting PROVE Store
  OBVIOUS
<1>1. /\ connectionUseCount \in [Sessions -> Nat] /\ isInStepQuery \in [Sessions -> BOOLEAN]
      /\ resultSet \in [ResultSets -> [tid : Threads \cup {NoThread}, statement : Connections,
                                       isClosed : BOOLEAN]]
  BY NullFacts, SMTT(30) DEF Init
<1>2. CallTypes
  BY DEF Init, CallTypes, Ops
<1>3. \A t \in Threads : ~Preparing(t)
  BY DEF Init, Preparing
<1>4. \A s \in Sessions : connectionUseCount[s] = 0 /\ conn[s] = Null
  BY DEF Init, PoolInit
<1>5. ConnectedInv
  BY <1>4, SMTT(30) DEF ConnectedInv
<1> QED
  BY <1>1, <1>2, <1>3, <1>5, Zenon DEF Store, StoreTypes, PrepareInv

(* They hold in every state.                                                *)
LEMMA StoreInvariant == Spec => []Store
<1>1. Spec => [](PoolTypeOK /\ PoolInv)
  BY StoreUsesPool, PoolInvariant, PTL DEF UsesPool
<1>2. Spec => [](CallInv /\ Owned /\ Counting)
  BY CallInvariant, CallOwned, FiniteCounting, PTL
<1>3. Store /\ [Next]_vars /\ CallInv' /\ PoolTypeOK' /\ Owned' /\ Counting' => Store'
  <2>1. ASSUME Store, UNCHANGED vars, CallInv', PoolTypeOK', Owned', Counting' PROVE Store'
    <3>1. /\ UNCHANGED <<conn, connectionUseCount, isInStepQuery, threadMap>>
          /\ UNCHANGED <<transactionStack, resultSet, pc, op, arg, depth, owner>>
      BY <2>1, Zenon DEF vars, poolVars, sessionVars
    <3>2. StoreTypes' /\ ConnectedInv'
      BY <2>1, <3>1, Zenon DEF Store, StoreTypes, CallTypes, ConnectedInv, Running
    <3>3. PrepareInv'
      BY <2>1, <3>1, Zenon DEF Store, PrepareInv, Preparing, Session
    <3> QED
      BY <2>1, <3>2, <3>3, Zenon DEF Store
  <2> QED
    BY <2>1, StoreNext, Zenon
<1> QED
  BY <1>1, <1>2, <1>3, StoreInit, PTL DEF Spec

(* At the start there is no step query.                                     *)
LEMMA StepInit == Init => StepInv
<1> SUFFICES ASSUME Init PROVE StepInv
  OBVIOUS
<1>1. \A t \in Threads : Opened(t) = {} /\ Session(t) = NoSession
  BY DEF Init, Opened, Session
<1>2. \A s \in Sessions : ~isInStepQuery[s]
  BY DEF Init
<1>3. \A r \in ResultSets : resultSet[r].statement = Null
  BY DEF Init
<1> QED
  BY <1>1, <1>2, <1>3, SMTT(30) DEF StepInv, StepThread

(* In every state the query of an open result set is that of its session.   *)
LEMMA StepInvariant == Spec => []StepInv
<1>1. Store /\ Store' /\ StepInv /\ [Next]_vars => StepInv'
  <2>1. ASSUME StepInv, UNCHANGED vars PROVE StepInv'
    <3>1. /\ UNCHANGED poolVars /\ UNCHANGED sessionVars /\ UNCHANGED <<resultSet, pc, noted>>
      BY <2>1, SMTT(30) DEF vars
    <3>2. \A t \in Threads : /\ Opened(t)' = Opened(t) /\ Session(t)' = Session(t)
                             /\ StepThread(t) => StepThread(t)'
      BY <3>1, SMTT(30) DEF poolVars, sessionVars, Opened, Session, StepThread, Used, Running
    <3>3. UNCHANGED <<resultSet, noted, isInStepQuery>>
      BY <3>1, SMTT(30) DEF sessionVars
    <3> QED
      BY <2>1, <3>2, <3>3, Zenon DEF StepInv
  <2> QED
    BY <2>1, NextEffect, StepNext, Zenon
<1> QED
  BY <1>1, StepInit, StoreInvariant, PTL DEF Spec

(* step_result_set.cpp:321-370, store_session.cpp:397-432: as long as a thread *)
(* makes no transaction call and prepares no second result set within a step   *)
(* query, an open step result set steps through a statement of the connection  *)
(* that its thread's session holds.                                            *)
THEOREM StatementHeld == Spec => []StepStatementHeld
<1>1. StepInv => StepStatementHeld
  <2> SUFFICES ASSUME StepInv, noted \cap {"inStepQuery", "secondStepQuery"} = {},
                      NEW r \in ResultSets, resultSet[r].statement # Null
               PROVE  LET s == Session(resultSet[r].tid)
                      IN  s # NoSession /\ isInStepQuery[s] /\ conn[s] = resultSet[r].statement
    BY DEF StepStatementHeld
  <2>1. resultSet[r].tid \in Threads /\ r \in Opened(resultSet[r].tid)
    BY DEF StepInv, Opened
  <2>2. StepThread(resultSet[r].tid)
    BY <2>1, SMTT(30) DEF StepInv, StepNotes
  <2> QED
    BY <2>1, <2>2, SMTT(30) DEF StepThread
<1> QED
  BY <1>1, StepInvariant, PTL

-----------------------------------------------------------------------------
(* At the start nothing is used.                                            *)
LEMMA QuietInit == Init => QuietInv
<1> SUFFICES ASSUME Init PROVE QuietInv
  OBVIOUS
<1>1. Keepers = {}
  BY Zenon DEF Init, Keepers
<1>2. ASSUME NEW t \in Threads
      PROVE  /\ Opened(t) = {} /\ Session(t) = NoSession /\ threadMap[t].useCount = 0
             /\ pc[t] = "idle"
  BY <1>2, SMTT(30) DEF Init, Opened, Session
<1>3. ASSUME NEW t \in Threads PROVE QuietThread(t)
  <2>1. ObserverUses(t) = 0 /\ B(pc[t] \in Busy) = 0 /\ Cardinality(Opened(t)) = 0
    BY <1>1, <1>2, FS_EmptySet, Zenon DEF ObserverUses, B, Busy
  <2>2. ~Transacting(t) /\ ~Starting(t) /\ ~Closing(t)
    BY <1>2, Zenon DEF Transacting, Starting, Closing, Busy
  <2>3. threadMap[t].useCount >= B(pc[t] \in Busy) + Cardinality(Opened(t)) + ObserverUses(t)
    BY <1>2, <2>1, SMTT(30)
  <2> QED
    BY <1>2, <2>2, <2>3, Zenon DEF QuietThread
<1>4. \A s \in Sessions : conn[s] = Null /\ ~isInStepQuery[s]
  BY SMTT(30) DEF Init, PoolInit
<1> QED
  BY <1>1, <1>3, <1>4, Zenon DEF QuietInv

(* In every state the uses of sessions and connections have reasons, unless *)
(* kinds of transaction calls were mixed or transactions overlapped.        *)
LEMMA QuietInvariant == Spec => []QuietInv
<1>1. Store /\ Store' /\ QuietInv /\ [Next]_vars => QuietInv'
  <2>1. ASSUME QuietInv, UNCHANGED vars PROVE QuietInv'
    <3>1. /\ UNCHANGED <<conn, connectionUseCount, isInStepQuery, threadMap, transactionStack>>
          /\ UNCHANGED <<resultSet, pc, op, depth, owner, noted>>
      BY <2>1, Zenon DEF vars, poolVars, sessionVars
    <3>2. /\ Keepers' = Keepers /\ (Running' <=> Running)
          /\ \A t \in Threads : /\ Opened(t)' = Opened(t) /\ Session(t)' = Session(t)
                                /\ Transacting(t)' <=> Transacting(t)
                                /\ Starting(t)' <=> Starting(t)
                                /\ Closing(t)' <=> Closing(t)
                                /\ Used(t)' <=> Used(t)
      BY <3>1, Zenon DEF Keepers, Running, Opened, Session, Transacting, Starting, Closing, Used
    <3>3. \A t \in Threads : ObserverUses(t)' = ObserverUses(t)
      BY <3>1, <3>2, Zenon DEF ObserverUses
    <3>4. \A t \in Threads : QuietThread(t) => QuietThread(t)'
      BY <3>1, <3>2, <3>3, SMTT(30) DEF QuietThread, B
    <3>5. Session(owner)' = Session(owner)
      BY <3>1, Zenon DEF Session
    <3> QED
      BY <2>1, <3>1, <3>2, <3>4, <3>5, Zenon DEF QuietInv
  <2>2. ASSUME Store, Store', QuietInv, Next PROVE QuietInv'
    BY <2>2, NextEffect, QuietNext, Zenon DEF Steps
  <2> QED
    BY <2>1, <2>2, Zenon
<1> QED
  BY <1>1, QuietInit, StoreInvariant, PTL DEF Spec

(* In every state an open result set is the only one of its thread, which   *)
(* is in its query, unless one of the four circumstances arose.             *)
LEMMA ReasonInvariant == Spec => []ReasonInv
<1>1. Init => ReasonInv
  <2>1. Init => \A r \in ResultSets : resultSet[r].statement = Null
    BY DEF Init
  <2> QED
    BY <2>1, Zenon DEF ReasonInv
<1>2. Store /\ Store' /\ QuietInv /\ QuietInv' /\ StepInv' /\ ReasonInv /\ [Next]_vars => ReasonInv'
  <2>1. ASSUME ReasonInv, UNCHANGED vars PROVE ReasonInv'
    BY <2>1, Zenon DEF vars, sessionVars, ReasonInv, Session
  <2>2. ASSUME Store, Store', QuietInv, QuietInv', StepInv', ReasonInv, Next PROVE ReasonInv'
    BY <2>2, NextEffect, ReasonNext, Zenon DEF Steps
  <2> QED
    BY <2>1, <2>2, Zenon
<1> QED
  BY <1>1, <1>2, QuietInvariant, StepInvariant, StoreInvariant, PTL DEF Spec

-----------------------------------------------------------------------------
(* No session has two threads, nor a thread while it is idle.               *)
LEMMA SessionsApart ==
    ASSUME CallInv
    PROVE  /\ \A t, u \in Threads : t # u /\ Session(t) # NoSession => Session(t) # Session(u)
           /\ \A t \in Threads : \A i \in 1..Len(idleSessions) : Session(t) # idleSessions[i]
           /\ idleSessions \in Seq(Sessions)
<1>1. Present.map = threadMap /\ Present.idle = idleSessions
  BY Zenon DEF Present
<1>2. Present \in [map : Maps, idle : Seq(Sessions)]
  BY Zenon DEF CallInv, Apart
<1>3. idleSessions \in Seq(Sessions)
  BY <1>1, <1>2, SMTT(30)
<1> QED
  BY <1>1, <1>3, Zenon DEF CallInv, Apart, Session

(* rdb_store_impl.cpp:91-135: no two threads ever have the same session, and   *)
(* as long as transactions are neither mixed nor overlap, a session that goes  *)
(* to idleSessions takes neither connection nor query with it.                 *)
THEOREM SeparateSessions == Spec => []SessionsSeparate
<1>1. CallInv /\ QuietInv => SessionsSeparate
  <2> SUFFICES ASSUME CallInv, QuietInv PROVE SessionsSeparate
    OBVIOUS
  <2>1. /\ \A t, u \in Threads : t # u /\ Session(t) # NoSession => Session(t) # Session(u)
        /\ \A t \in Threads : \A i \in 1..Len(idleSessions) : Session(t) # idleSessions[i]
        /\ idleSessions \in Seq(Sessions)
    BY SessionsApart, Zenon
  <2>2. \A t \in Threads : Session(t) \notin Elements(idleSessions)
    BY <2>1, Zenon DEF Elements
  <2>3. Elements(idleSessions) \subseteq Sessions
    BY <2>1, SMTT(30) DEF Elements
  <2>4. ASSUME noted \cap QuietNotes = {}, NEW s \in Elements(idleSessions)
        PROVE  conn[s] = Null /\ ~isInStepQuery[s]
    BY <2>2, <2>3, <2>4, Zenon DEF QuietInv
  <2> QED
    BY <2>1, <2>2, <2>4, Zenon DEF SessionsSeparate, QuietNotes
<1> QED
  BY <1>1, CallInvariant, QuietInvariant, PTL

(* The size of a set with a further part of at most one element.            *)
LEMMA AddPart ==
    ASSUME NEW S, IsFiniteSet(S), NEW x, x \notin S, NEW T, T = {} \/ T = {x}
    PROVE  IsFiniteSet(S \cup T) /\ Cardinality(S \cup T) = Cardinality(S) + Cardinality(T)
<1>1. Cardinality(S) \in Nat
  BY FS_CardinalityType, Zenon
<1>2. CASE T = {x}
  BY <1>2, FS_AddElement, FS_Singleton, Zenon
<1>3. CASE T = {}
  <2>1. S \cup T = S /\ Cardinality(T) = 0
    BY <1>3, FS_EmptySet, Zenon
  <2>2. Cardinality(S) = Cardinality(S) + 0
    BY <1>1, SMTT(30)
  <2> QED
    BY <2>1, <2>2, Zenon
<1> QED
  BY <1>2, <1>3, Zenon

(* The count of uses of a connection is the number of their reasons.        *)
LEMMA UsesCounted ==
    ASSUME Store, StepInv, QuietInv, ReasonInv, Running, noted \cap ReasonNotes = {},
           NEW s \in Sessions
    PROVE  connectionUseCount[s] = Cardinality(Uses(s))
<1>0. noted \cap QuietNotes = {}
  BY Zenon DEF ReasonNotes
<1>1. /\ connectionUseCount[s] \in Nat /\ s # NoSession
      /\ \A t, u \in Threads : t # u /\ Session(t) # NoSession => Session(t) # Session(u)
  BY NothingAssumption, SessionsApart, Zenon DEF Store, StoreTypes
<1>2. ASSUME NEW q \in ResultSets, resultSet[q].statement # Null
      PROVE  /\ resultSet[q].tid \in Threads /\ ~resultSet[q].isClosed
             /\ q \in Opened(resultSet[q].tid) /\ isInStepQuery[Session(resultSet[q].tid)]
  BY <1>2, Zenon DEF StepInv, ReasonInv, Opened
<1> DEFINE calling == {u \in Threads : Session(u) = s /\ pc[u] \in {"execute", "run"}}
           stepping == {q \in ResultSets : /\ resultSet[q].statement # Null /\ ~resultSet[q].isClosed
                                           /\ Session(resultSet[q].tid) = s}
<1>3. CASE \A t \in Threads : Session(t) # s
  <2>1. conn[s] = Null
    BY <1>0, <1>3, Zenon DEF QuietInv
  <2>2. ~(connectionUseCount[s] > 0)
    BY <2>1, Zenon DEF Store, ConnectedInv
  <2>3. connectionUseCount[s] = 0
    BY <1>1, <2>2, SMTT(30)
  <2>4. calling = {} /\ stepping = {}
    BY <1>2, <1>3, Zenon
  <2>5. Keepers \cap {s} = {}
    BY <1>0, <1>3, Zenon DEF QuietInv, Keepers
  <2>6. Uses(s) = {}
    BY <2>4, <2>5, Zenon DEF Uses
  <2> QED
    BY <2>3, <2>6, FS_EmptySet, Zenon
<1>4. ASSUME NEW t \in Threads, Session(t) = s PROVE connectionUseCount[s] = Cardinality(Uses(s))
  <2>1. /\ connectionUseCount[s] = B(Used(t)) + B(isInStepQuery[s]) + B(s \in Keepers)
        /\ isInStepQuery[s] => Opened(t) # {}
    BY <1>0, <1>1, <1>4, Zenon DEF QuietInv, QuietThread
  <2>2. \A u \in Threads : Session(u) = s => u = t
    BY <1>1, <1>4, Zenon
  <2>3. calling = IF Used(t) THEN {t} ELSE {}
    BY <1>4, <2>2, Zenon DEF Used
  <2>4. stepping = Opened(t)
    BY <1>2, <1>4, <2>2, Zenon DEF Opened
  <2>5. \A q \in Opened(t) : isInStepQuery[s] /\ Opened(t) = {q}
    BY <1>4, Zenon DEF ReasonInv, Opened
  <2>6. PICK r : stepping = IF isInStepQuery[s] THEN {r} ELSE {}
    BY <2>1, <2>4, <2>5, Zenon
  <2>7. Keepers \cap {s} = IF s \in Keepers THEN {s} ELSE {}
    BY Zenon
  <2> DEFINE C == {<<u, "call">> : u \in calling}
             S == {<<q, "step">> : q \in stepping}
             O == {<<k, "observer">> : k \in Keepers \cap {s}}
  <2>8. /\ C = IF Used(t) THEN {<<t, "call">>} ELSE {}
        /\ S = IF isInStepQuery[s] THEN {<<r, "step">>} ELSE {}
        /\ O = IF s \in Keepers THEN {<<s, "observer">>} ELSE {}
    BY <2>3, <2>6, <2>7, ZenonT(30)
  <2>9. Uses(s) = C \cup S \cup O
    BY Zenon DEF Uses
  <2> HIDE DEF C, S, O
  <2>10. Cardinality(C \cup S \cup O) = Cardinality(C) + Cardinality(S) + Cardinality(O)
    <3> DEFINE x == <<t, "call">>  y == <<r, "step">>  z == <<s, "observer">>
    <3>1. x # y /\ x # z /\ y # z
      OBVIOUS
    <3>2. (C = {} \/ C = {x}) /\ (S = {} \/ S = {y}) /\ (O = {} \/ O = {z})
      BY <2>8, ZenonT(30)
    <3> HIDE DEF x, y, z
    <3>3. IsFiniteSet(C)
      <4>1. IsFiniteSet({}) /\ IsFiniteSet({x})
        BY FS_EmptySet, FS_Singleton, Zenon
      <4> QED
        BY <3>2, <4>1, Zenon
    <3>4. y \notin C /\ z \notin C \cup S
      BY <3>1, <3>2, Zenon
    <3>5. IsFiniteSet(C \cup S) /\ Cardinality(C \cup S) = Cardinality(C) + Cardinality(S)
      BY <3>2, <3>3, <3>4, AddPart, ZenonT(30)
    <3> DEFINE D == C \cup S
    <3>6. IsFiniteSet(D) /\ z \notin D
      BY <3>4, <3>5, Zenon
    <3>7. Cardinality(D \cup O) = Cardinality(D) + Cardinality(O)
      <4> HIDE DEF D
      <4> QED
        BY <3>2, <3>6, AddPart, Zenon
    <3> QED
      BY <3>5, <3>7, Zenon
  <2>11. /\ Cardinality(C) = B(Used(t)) /\ Cardinality(S) = B(isInStepQuery[s])
         /\ Cardinality(O) = B(s \in Keepers)
    BY <2>8, FS_EmptySet, FS_Singleton, Zenon DEF B
  <2> QED
    BY <2>1, <2>9, <2>10, <2>11, Zenon
<1> QED
  BY <1>3, <1>4, Zenon

(* store_session.cpp:37-57, 285-360, 397-432: every use of a connection that a *)
(* session counts is one of a running call, an open step result set or a       *)
(* transaction with an observer, and the session has a connection exactly      *)
(* while there is one: on no path of any call, whichever statement fails, is a *)
(* connection leaked or given back too early.                                  *)
THEOREM ReasonForUse == Spec => []UsesHaveReason
<1>1. Store /\ StepInv /\ QuietInv /\ ReasonInv => UsesHaveReason
  <2> SUFFICES ASSUME Store, StepInv, QuietInv, ReasonInv, Running,
                      noted \cap ReasonNotes = {}, NEW s \in Sessions
               PROVE  /\ connectionUseCount[s] = Cardinality(Uses(s))
                      /\ (connectionUseCount[s] > 0) <=> (conn[s] # Null)
    BY Zenon DEF UsesHaveReason, ReasonNotes, QuietNotes
  <2>1. (connectionUseCount[s] > 0) <=> (conn[s] # Null)
    BY Zenon DEF Store, ConnectedInv
  <2> QED
    BY <2>1, UsesCounted, Zenon
<1> QED
  BY <1>1, StoreInvariant, StepInvariant, QuietInvariant, ReasonInvariant, PTL

(* What the pool promises of the write connection.                             *)
LEMMA PoolHeld ==
    ASSUME PoolTypeOK, PoolInv
    PROVE  WriterHeld
<1> SUFFICES ASSUME ~damaged
             PROVE  /\ \A s \in Sessions :
                          /\ conn[s].id \in 0..opened
                          /\ conn[s].isWriteConnection => conn[s] = writeConnection
                    /\ ~writeConnectionUsed => writeConnection.isWriteConnection
  BY Zenon DEF WriterHeld
<1>0. opened \in Nat /\ Null.id = 0 /\ ~Null.isWriteConnection
  BY NullFacts, Zenon DEF PoolTypeOK
<1>1. ASSUME NEW s \in Sessions
      PROVE  conn[s].id \in 0..opened /\ (conn[s].isWriteConnection => conn[s] = writeConnection)
  <2>1. CASE conn[s] = Null
    BY <1>0, <2>1, SMTT(30)
  <2>2. CASE conn[s] # Null
    <3>1. Known(conn[s]) /\ (conn[s].isWriteConnection => conn[s] = writeConnection)
      BY <2>2, Zenon DEF PoolInv, ClosedInv, HeldInv
    <3> QED
      BY <1>0, <3>1, SMTT(30) DEF Known
  <2> QED
    BY <2>1, <2>2, Zenon
<1>2. ~writeConnectionUsed => writeConnection.isWriteConnection
  BY Zenon DEF PoolInv, ClosedInv, WriterInv
<1> QED
  BY <1>1, <1>2, Zenon

(* At the start no transaction is open.                                     *)
LEMMA CommitInit == Init => ReadInv /\ OpenedInv /\ CommitInv
<1> SUFFICES ASSUME Init PROVE ReadInv /\ OpenedInv /\ CommitInv
  OBVIOUS
<1>1. /\ \A s \in Sessions : conn[s] = Null /\ isInStepQuery[s] = FALSE
      /\ \A t \in Threads : Session(t) = NoSession /\ pc[t] = "idle"
  BY DEF Init, PoolInit, Session
<1>2. inTransaction = {} /\ transactionStack = <<>> /\ depth = 0
  BY Zenon DEF Init
<1>3. ReadInv
  BY <1>1, Zenon DEF ReadInv, Reads
<1>4. OpenedInv
  BY <1>2, Zenon DEF OpenedInv
<1>5. \A t \in Threads : CommitThread(t)
  BY <1>1, Zenon DEF CommitThread, Transacting, Busy
<1>6. ~WriterOpen
  BY <1>2, Zenon DEF WriterOpen
<1>7. /\ \A i \in 1..Len(transactionStack) : transactionStack[i].id = i - 1
      /\ depth >= Len(transactionStack)
  BY <1>2, SMTT(30)
<1> QED
  BY <1>3, <1>4, <1>5, <1>6, <1>7, Zenon DEF CommitInv

(* A step that changes nothing keeps the three invariants.                  *)
LEMMA CommitStutters ==
    ASSUME UNCHANGED vars
    PROVE  /\ ReadInv => ReadInv'
           /\ OpenedInv => OpenedInv'
           /\ CommitInv => CommitInv'
<1>1. /\ UNCHANGED <<conn, connectionUseCount, isInStepQuery, threadMap, transactionStack>>
      /\ UNCHANGED <<pc, op, depth, owner, noted>>
      /\ UNCHANGED <<writeConnection, opened, damaged, inTransaction>>
  BY Zenon DEF vars, poolVars, sessionVars, sqliteVars
<1>2. /\ \A t : /\ Session(t)' = Session(t) /\ (Used(t)' <=> Used(t))
                /\ Transacts(t)' <=> Transacts(t)
                /\ Transacting(t)' <=> Transacting(t)
      /\ \A s : Reads(s)' <=> Reads(s)
      /\ Running' <=> Running
      /\ WriterOpen' <=> WriterOpen
  BY <1>1, Zenon DEF Session, Used, Transacts, Transacting, Reads, Running, WriterOpen, InOrder
<1>3. \A t : ReadThread(t) => ReadThread(t)'
  BY <1>1, <1>2, SMTT(30) DEF ReadThread, B
<1>4. \A t : CommitThread(t) => CommitThread(t)'
  BY <1>1, <1>2, Zenon DEF CommitThread
<1>5. ReadInv => ReadInv'
  BY <1>1, <1>2, <1>3, Zenon DEF ReadInv
<1>6. OpenedInv => OpenedInv'
  BY <1>1, Zenon DEF OpenedInv
<1>7. CommitInv => CommitInv'
  BY <1>1, <1>2, <1>4, Zenon DEF CommitInv
<1> QED
  BY <1>5, <1>6, <1>7, Zenon

(* In every state the stack is numbered from 0 and counted in depth, and so *)
(* is the transaction of the write connection, unless one of the three      *)
(* circumstances arose.                                                     *)
LEMMA CommitInvariant == Spec => []CommitInv
<1>1. Spec => [](PoolTypeOK /\ PoolInv)
  BY StoreUsesPool, PoolInvariant, PTL DEF UsesPool
<1>2. Spec => [][PoolNext]_poolVars
  BY StoreUsesPool, PTL DEF UsesPool, PoolSpec
<1>3. /\ Store /\ Store' /\ PoolTypeOK /\ PoolTypeOK' /\ PoolInv
      /\ ReadInv /\ OpenedInv /\ CommitInv /\ [PoolNext]_poolVars /\ [Next]_vars
      => ReadInv' /\ OpenedInv' /\ CommitInv'
  <2>1. ASSUME Store, Store', PoolTypeOK, PoolTypeOK', PoolInv, ReadInv, OpenedInv, CommitInv,
               [PoolNext]_poolVars, Next
        PROVE  ReadInv' /\ OpenedInv' /\ CommitInv'
    <3>0. WriterHeld
      BY <2>1, PoolHeld, Zenon
    <3>1. /\ damaged => damaged'
          /\ opened' >= opened
          /\ InOrder' => \/ InOrder /\ writeConnection' = writeConnection
                         \/ writeConnection'.id > opened
      BY <2>1, PoolWriter, Zenon
    <3>2. PICK t \in Threads : /\ Kind(t) /\ Steps(t) /\ ReadKind(t) /\ Granted(t) /\ Outcome(t)
                               /\ inTransaction' \subseteq Entered
      BY <2>1, <3>0, NextOutcome, Zenon
    <3>3. ReadInv'
      BY <2>1, <3>1, <3>2, ReadNext, Zenon
    <3>4. OpenedInv'
      BY <2>1, <3>0, <3>1, <3>2, OpenedNext, Zenon DEF Entered
    <3>5. CommitInv'
      BY <2>1, <3>0, <3>1, <3>2, CommitNext, Zenon
    <3> QED
      BY <3>3, <3>4, <3>5, Zenon
  <2> QED
    BY <2>1, CommitStutters, Zenon
<1> QED
  BY <1>1, <1>2, <1>3, CommitInit, StoreInvariant, PTL DEF Spec

(* store_session.cpp:447-484: once every transaction that was begun has been   *)
(* ended with E_OK, the stack is empty and the write connection has no         *)
(* transaction left open, whatever statements, schema changes, readers and     *)
(* result sets the other threads use meanwhile; as long as nobody rolls back,  *)
(* transactions do not overlap and none is made within a step query.           *)
THEOREM CommitEffect == Spec => []CommitTakesEffect
<1>1. Store /\ CommitInv => CommitTakesEffect
  <2> SUFFICES ASSUME Store, CommitInv, noted \cap CommitNotes = {}, depth = 0, InOrder
               PROVE  transactionStack = <<>> /\ writeConnection \notin inTransaction
    BY Zenon DEF CommitTakesEffect, CommitNotes
  <2>1. transactionStack \in Seq(Transactions)
    BY Zenon DEF Store, StoreTypes, CallTypes
  <2>2. depth >= Len(transactionStack) /\ (WriterOpen => depth >= 1)
    BY Zenon DEF CommitInv
  <2>3. ~WriterOpen
    BY <2>2, SMTT(30)
  <2>4. transactionStack = <<>>
    BY <2>1, <2>2, SMTT(30)
  <2> QED
    BY <2>3, <2>4, Zenon DEF WriterOpen
<1> QED
  BY <1>1, CommitInvariant, StoreInvariant, PTL
=============================================================================
