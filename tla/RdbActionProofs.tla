-------------------------- MODULE RdbActionProofs ---------------------------
(***************************************************************************)
(* Every action of RdbStore is a step of the kinds of RdbKinds, and uses the *)
(* pool as the pool expects.                                                 *)
(***************************************************************************)
EXTENDS RdbKinds, TLAPS

-----------------------------------------------------------------------------
(* Getting and giving back a session.                                        *)

(* A record of a map and idle sessions, field by field.                       *)
LEMMA PresentFields ==
    ASSUME NEW m \in [map : Maps, idle : Seq(Sessions)]
    PROVE  m = [map |-> m.map, idle |-> m.idle] /\ m.map \in Maps /\ m.idle \in Seq(Sessions)
OBVIOUS

(* A sequence without its last element.                                       *)
LEMMA ButLast ==
    ASSUME NEW S, NEW q \in Seq(S), q # <<>>
    PROVE  /\ Len(q) \in Nat \ {0} /\ q[Len(q)] \in S
           /\ SubSeq(q, 1, Len(q) - 1) \in Seq(S)
           /\ Len(SubSeq(q, 1, Len(q) - 1)) = Len(q) - 1
           /\ \A i \in 1..Len(q) - 1 : SubSeq(q, 1, Len(q) - 1)[i] = q[i]
<1>1. Len(q) \in Nat \ {0}
  OBVIOUS
<1>2. \A i \in 1..Len(q) : q[i] \in S
  OBVIOUS
<1> DEFINE n == Len(q) - 1
<1>3. n \in Nat /\ \A i \in 1..n : q[i] \in S
  BY <1>1, <1>2
<1> HIDE DEF n
<1>4. /\ SubSeq(q, 1, n) \in Seq(S) /\ Len(SubSeq(q, 1, n)) = IF 1 <= n THEN n - 1 + 1 ELSE 0
      /\ \A i \in 1..n - 1 + 1 : SubSeq(q, 1, n)[i] = q[1 + i - 1]
  BY <1>3
<1>5. Len(SubSeq(q, 1, n)) = n /\ \A i \in 1..n : SubSeq(q, 1, n)[i] = q[i]
  BY <1>3, <1>4
<1> QED
  BY <1>1, <1>2, <1>4, <1>5 DEF n

(* GetThreadSession gives t the session it has, or one that nobody has, and   *)
(* leaves the other threads alone.                                            *)
LEMMA GetFacts ==
    ASSUME Apart(Present), NEW t \in Threads, SessionLeft(t)
    PROVE  LET m == GetThreadSession(t)
           IN  /\ Apart(m)
               /\ m.map[t].session \in Sessions
               /\ m.map[t].useCount = threadMap[t].useCount + 1
               /\ Session(t) # NoSession => m.map[t].session = Session(t)
               /\ Session(t) = NoSession => \A u \in Threads : Session(u) # m.map[t].session
               /\ \A u \in Threads : u # t => m.map[u] = threadMap[u]
<1> DEFINE m == GetThreadSession(t)
<1>0. threadMap \in Maps /\ idleSessions \in Seq(Sessions)
  BY DEF Apart, Present
<1>1. CASE Session(t) # NoSession
  <2>1. m = [map |-> [threadMap EXCEPT ![t].useCount = @ + 1], idle |-> idleSessions]
    BY <1>1 DEF GetThreadSession
  <2>2. m.map \in Maps /\ m.idle = idleSessions
    <3> DEFINE k == [threadMap EXCEPT ![t].useCount = @ + 1]
    <3>1. k \in Maps
      BY <1>0 DEF Maps
    <3>2. m.map = k /\ m.idle = idleSessions
      BY <2>1
    <3> QED
      BY <3>1, <3>2, Zenon
  <2>3. /\ m.map[t].session = Session(t) /\ m.map[t].useCount = threadMap[t].useCount + 1
        /\ \A u \in Threads : u # t => m.map[u] = threadMap[u]
    BY <1>0, <2>1 DEF Maps, Session
  <2>4. \A u \in Threads : m.map[u].session = threadMap[u].session
    BY <2>3 DEF Session
  <2>5. threadMap[t].useCount \in Nat
    BY <1>0 DEF Maps
  <2>6. m \in [map : Maps, idle : Seq(Sessions)]
    BY <1>0, <2>1, <2>2
  <2>7. \A u \in Threads : m.map[u].session = NoSession <=> m.map[u].useCount = 0
    BY <1>1, <2>3, <2>5 DEF Apart, Present, Session
  <2>8. Apart(m)
    BY <2>2, <2>4, <2>6, <2>7 DEF Apart, Present
  <2>9. Session(t) \in Sessions
    BY <1>0, <1>1 DEF Maps, Session
  <2> QED
    BY <1>1, <2>3, <2>8, <2>9
<1>2. CASE Session(t) = NoSession
  <2> DEFINE s == IF idleSessions # <<>> THEN idleSessions[Len(idleSessions)]
                  ELSE CHOOSE f \in FreeSessions : TRUE
             q == IF idleSessions # <<>> THEN SubSeq(idleSessions, 1, Len(idleSessions) - 1)
                  ELSE <<>>
  <2>1. m = [map |-> [threadMap EXCEPT ![t] = [session |-> s, useCount |-> 1]], idle |-> q]
    BY <1>2 DEF GetThreadSession
  <2>2. /\ s \in Sessions /\ \A u \in Threads : threadMap[u].session # s
        /\ q \in Seq(Sessions) /\ Len(q) <= Len(idleSessions)
        /\ \A i \in 1..Len(q) : q[i] = idleSessions[i] /\ q[i] # s
    <3>1. CASE idleSessions # <<>>
      <4>1. s = idleSessions[Len(idleSessions)] /\ q = SubSeq(idleSessions, 1, Len(idleSessions) - 1)
        BY <3>1
      <4> HIDE DEF s, q
      <4>2. /\ Len(idleSessions) \in Nat \ {0} /\ s \in Sessions
            /\ q \in Seq(Sessions) /\ Len(q) = Len(idleSessions) - 1
            /\ \A i \in 1..Len(idleSessions) - 1 : q[i] = idleSessions[i]
        BY <1>0, <3>1, <4>1, ButLast
      <4>3. \A u \in Threads : threadMap[u].session # s
        BY <4>1, <4>2 DEF Apart, Present
      <4>4. \A i \in 1..Len(idleSessions) - 1 : idleSessions[i] # s
        BY <4>1, <4>2 DEF Apart, Present
      <4> QED
        BY <4>2, <4>3, <4>4
    <3>2. CASE idleSessions = <<>>
      <4>1. s \in FreeSessions /\ q = <<>>
        BY <1>2, <3>2 DEF SessionLeft
      <4> HIDE DEF s, q
      <4> QED
        BY <1>0, <4>1 DEF FreeSessions, Session
    <3> QED
      BY <3>1, <3>2, Zenon
  <2> HIDE DEF s, q
  <2>3. /\ m.map[t] = [session |-> s, useCount |-> 1] /\ m.idle = q
        /\ \A u \in Threads : u # t => m.map[u] = threadMap[u]
    BY <1>0, <2>1 DEF Maps
  <2>4. m \in [map : Maps, idle : Seq(Sessions)]
    BY <1>0, <2>1, <2>2 DEF Maps
  <2>5. threadMap[t].useCount = 0
    BY <1>2 DEF Apart, Present, Session
  <2> HIDE DEF m
  <2>6. \A u \in Threads : m.map[u].session = NoSession <=> m.map[u].useCount = 0
    BY <2>2, <2>3, NothingAssumption DEF Apart, Present
  <2>7. \A u, v \in Threads :
           u # v /\ m.map[u].session # NoSession => m.map[u].session # m.map[v].session
    BY <2>2, <2>3 DEF Apart, Present
  <2>8. \A u \in Threads : \A i \in 1..Len(m.idle) : m.map[u].session # m.idle[i]
    BY <1>0, <2>2, <2>3 DEF Apart, Present
  <2>9. \A i, j \in 1..Len(m.idle) : m.idle[i] = m.idle[j] => i = j
    BY <1>0, <2>2, <2>3 DEF Apart, Present
  <2>10. Apart(m)
    BY <2>4, <2>6, <2>7, <2>8, <2>9, Zenon DEF Apart
  <2> QED
    BY <1>2, <2>2, <2>3, <2>5, <2>10 DEF m, Session
<1> QED
  BY <1>1, <1>2

(* ReleaseThreadSession keeps the session while a use is left, and leaves the *)
(* other threads alone.                                                       *)
LEMMA ReleaseFacts ==
    ASSUME NEW m, Apart(m), NEW t \in Threads, NEW n \in Nat
    PROVE  LET k == ReleaseThreadSession(m, t, n)
           IN  /\ Apart(k)
               /\ m.map[t].useCount > n => /\ k.map[t].session = m.map[t].session
                                           /\ k.map[t].useCount = m.map[t].useCount - n
               /\ m.map[t].useCount <= n => /\ k.map[t].session = NoSession
                                            /\ k.map[t].useCount = 0
               /\ \A u \in Threads : u # t => k.map[u] = m.map[u]
<1> DEFINE k == ReleaseThreadSession(m, t, n)
<1>0. m.map \in Maps /\ m.idle \in Seq(Sessions) /\ m.map[t].useCount \in Nat
  BY DEF Apart, Maps
<1>1. CASE m.map[t].useCount > n
  <2>1. k = [m EXCEPT !.map[t].useCount = @ - n]
    BY <1>1 DEF ReleaseThreadSession
  <2>2. k.map = [m.map EXCEPT ![t].useCount = @ - n] /\ k.idle = m.idle
    BY <2>1 DEF Apart
  <2>3. k.map \in Maps /\ k \in [map : Maps, idle : Seq(Sessions)]
    <3>1. m.map[t].useCount - n \in Nat
      BY <1>0, <1>1
    <3>2. k.map \in Maps
      BY <1>0, <2>2, <3>1, Zenon DEF Maps
    <3> QED
      BY <2>1, <2>2, <3>2 DEF Apart
  <2> HIDE DEF k
  <2>4. /\ k.map[t].session = m.map[t].session /\ k.map[t].useCount = m.map[t].useCount - n
        /\ \A u \in Threads : u # t => k.map[u] = m.map[u]
    BY <1>0, <2>2 DEF Maps
  <2>5. \A u \in Threads : k.map[u].session = m.map[u].session
    BY <2>4
  <2>6. \A u \in Threads : k.map[u].session = NoSession <=> k.map[u].useCount = 0
    BY <1>0, <1>1, <2>4 DEF Apart
  <2>7. Apart(k)
    BY <2>2, <2>3, <2>5, <2>6 DEF Apart
  <2> QED
    BY <1>0, <1>1, <2>4, <2>7 DEF k
<1>2. CASE ~(m.map[t].useCount > n)
  <2> DEFINE q == IF m.map[t].session # NoSession /\ Len(m.idle) < MaxIdle
                  THEN Append(m.idle, m.map[t].session) ELSE m.idle
  <2>1. k = [map |-> [m.map EXCEPT ![t] = [session |-> NoSession, useCount |-> 0]], idle |-> q]
    BY <1>2, Zenon DEF ReleaseThreadSession
  <2>2. /\ q \in Seq(Sessions)
        /\ \/ q = m.idle
           \/ /\ m.map[t].session # NoSession /\ Len(q) = Len(m.idle) + 1
              /\ q[Len(q)] = m.map[t].session
              /\ \A i \in 1..Len(m.idle) : q[i] = m.idle[i]
    BY <1>0 DEF Maps
  <2> HIDE DEF q
  <2>3. /\ k.map[t] = [session |-> NoSession, useCount |-> 0] /\ k.idle = q
        /\ \A u \in Threads : u # t => k.map[u] = m.map[u]
        /\ k \in [map : Maps, idle : Seq(Sessions)]
    BY <1>0, <2>1, <2>2 DEF Maps
  <2> HIDE DEF k
  <2>4. \A u \in Threads : k.map[u].session = NoSession <=> k.map[u].useCount = 0
    BY <2>3 DEF Apart
  <2>5. \A u, v \in Threads :
           u # v /\ k.map[u].session # NoSession => k.map[u].session # k.map[v].session
    BY <2>3 DEF Apart
  <2>6. ASSUME NEW u \in Threads, NEW i \in 1..Len(k.idle)
        PROVE  k.map[u].session # k.idle[i]
    <3>1. k.idle[i] \in Sessions
      BY <2>2, <2>3
    <3>2. CASE u = t
      BY <2>3, <3>1, <3>2, NothingAssumption, SMTT(30)
    <3>3. CASE u # t /\ i \in 1..Len(m.idle)
      BY <2>2, <2>3, <3>3 DEF Apart
    <3>4. CASE u # t /\ i \notin 1..Len(m.idle)
      <4>1. k.idle[i] = m.map[t].session /\ m.map[t].session # NoSession
        BY <1>0, <2>2, <2>3, <3>4
      <4> QED
        BY <2>3, <3>4, <4>1 DEF Apart
    <3> QED
      BY <3>2, <3>3, <3>4
  <2>7. \A i, j \in 1..Len(k.idle) : k.idle[i] = k.idle[j] => i = j
    <3>1. CASE q = m.idle
      BY <2>3, <3>1 DEF Apart
    <3>2. CASE q # m.idle
      <4>1. /\ Len(q) = Len(m.idle) + 1 /\ q[Len(q)] = m.map[t].session
            /\ \A i \in 1..Len(m.idle) : q[i] = m.idle[i] /\ q[i] # q[Len(q)]
        BY <2>2, <3>2 DEF Apart
      <4>2. Len(m.idle) \in Nat
        BY <1>0
      <4>3. \A i \in 1..Len(q) : i = Len(q) \/ i \in 1..Len(m.idle)
        BY <4>1, <4>2
      <4> QED
        BY <2>3, <4>1, <4>3 DEF Apart
    <3> QED
      BY <3>1, <3>2
  <2>8. Apart(k)
    BY <2>3, <2>4, <2>5, <2>6, <2>7 DEF Apart
  <2> QED
    BY <1>0, <1>2, <2>3, <2>8 DEF k
<1> QED
  BY <1>1, <1>2

-----------------------------------------------------------------------------
(* What a step of t does to its place, its session and the pool.             *)

(* A session takes a connection when it has none, and returns what it has.    *)
LEMMA AcquireUse ==
    ASSUME NEW s \in Sessions, NEW b \in BOOLEAN, AcquireConnection(s, b)
    PROVE  PoolNext \/ UNCHANGED poolVars
BY DEF AcquireConnection, PoolNext

(* Giving back a connection is a step of the pool, or none.                 *)
LEMMA ReleaseUse ==
    ASSUME NEW s \in Sessions, ReleaseConnection(s)
    PROVE  PoolNext \/ UNCHANGED poolVars
BY DEF ReleaseConnection, PoolNext, poolVars

(* Leaving the maps alone sets them to what they are.                       *)
LEMMA UnchangedSessions ==
    ASSUME UNCHANGED <<threadMap, idleSessions>>
    PROVE  SetSessions(Present)
BY Zenon DEF SetSessions, Present

(* Every step of a statement, a change of the key or a Restore stays within *)
(* Frame.                                                                   *)
LEMMA StatementFrame ==
    ASSUME CallInv, NEW t \in Threads
    PROVE  /\ \A o \in Statements : CallStatement(t, o) => Frame(t)
           /\ Acquire(t) => Frame(t)
           /\ ExecuteStatement(t) => Frame(t)
           /\ Exchange(t) => Frame(t)
           /\ RunExchanged(t) => Frame(t)
           /\ ReopenAfterDdl(t) => Frame(t)
           /\ IsHoldingConnection(t) => Frame(t)
           /\ CallChangeEncryptKey(t) => Frame(t)
           /\ CallRestore(t) => Frame(t)
           /\ Restore(t) => Frame(t)
<1> USE DEF Frame, SessionStep, PlaceStep, Places, Busy
<1>1. ASSUME NEW o \in Statements, CallStatement(t, o) PROVE Frame(t)
  <2>1. SessionLeft(t) /\ SetSessions(GetThreadSession(t)) /\ UNCHANGED poolVars
    BY <1>1 DEF CallStatement, Call
  <2>2. pc' = [pc EXCEPT ![t] = "acquire"]
    BY <1>1 DEF CallStatement, Call
  <2> QED
    BY <2>1, <2>2
<1>2. ASSUME Acquire(t) PROVE Frame(t)
  <2>1. pc[t] = "acquire" /\ SetSessions(Present)
    BY <1>2, UnchangedSessions DEF Acquire, At
  <2>2. \E place \in {"crashed", "execute"} : pc' = [pc EXCEPT ![t] = place]
    BY <1>2, Zenon DEF Acquire, Goto
  <2>3. PoolNext \/ UNCHANGED poolVars
    <3>1. Session(t) \in Sessions
      BY <2>1 DEF CallInv
    <3>2. AcquireConnection(Session(t), IsSqlReadOnly(op[t]) \/ op[t] = "PrepareStep")
      BY <1>2 DEF Acquire
    <3> QED
      BY <3>1, <3>2, AcquireUse, Zenon DEF IsSqlReadOnly
  <2> QED
    BY <2>1, <2>2, <2>3, Zenon
<1>3. ASSUME NEW place \in {"idle", "exchange", "reopen"}, FinishStatement(t, place), pc[t] \in Busy
      PROVE  Frame(t)
  <2>1. pc' = [pc EXCEPT ![t] = place]
    BY <1>3 DEF FinishStatement, Goto
  <2>2. IF place = "idle" THEN SetSessions(ReleaseThreadSession(Present, t, 1))
                          ELSE SetSessions(Present)
    BY <1>3 DEF FinishStatement
  <2>3. PoolNext \/ UNCHANGED poolVars
    BY <1>3, ReleaseUse, SMTT(30) DEF FinishStatement, CallInv
  <2> QED
    BY <1>3, <2>1, <2>2, <2>3, Zenon
<1>4. ASSUME ExecuteStatement(t) PROVE Frame(t)
  <2>1. pc[t] \in Busy
    BY <1>4 DEF ExecuteStatement, At
  <2>2. \E place \in {"idle", "exchange", "reopen"} : FinishStatement(t, place)
    BY <1>4 DEF ExecuteStatement
  <2> QED
    BY <1>3, <2>1, <2>2
<1>5. ASSUME Exchange(t) PROVE Frame(t)
  <2>1. pc[t] = "exchange" /\ SetSessions(Present)
    BY <1>5, UnchangedSessions DEF Exchange, At
  <2>2. \E place \in {"crashed", "run"} : pc' = [pc EXCEPT ![t] = place]
    BY <1>5, Zenon DEF Exchange, Goto
  <2>3. PoolNext \/ UNCHANGED poolVars
    <3>1. Session(t) \in Sessions
      BY <2>1 DEF CallInv
    <3>2. AcquireConnection(Session(t), IsReadOnlyStatement(op[t]))
      BY <1>5 DEF Exchange
    <3>3. IsReadOnlyStatement(op[t]) \in BOOLEAN
      BY DEF IsReadOnlyStatement
    <3> QED
      BY <3>1, <3>2, <3>3, AcquireUse
  <2> QED
    BY <2>1, <2>2, <2>3, Zenon
<1>6. ASSUME RunExchanged(t) PROVE Frame(t)
  <2>1. pc[t] \in Busy
    BY <1>6 DEF RunExchanged, At
  <2>2. \E place \in {"idle", "exchange", "reopen"} : FinishStatement(t, place)
    BY <1>6 DEF RunExchanged
  <2> QED
    BY <1>3, <2>1, <2>2
<1>7. ASSUME ReopenAfterDdl(t) PROVE Frame(t)
  <2>1. pc' = [pc EXCEPT ![t] = "idle"] /\ SetSessions(ReleaseThreadSession(Present, t, 1))
    BY <1>7 DEF ReopenAfterDdl, Goto
  <2>2. PoolNext
    BY <1>7 DEF ReopenAfterDdl, PoolNext
  <2> QED
    BY <2>1, <2>2
<1>8. ASSUME IsHoldingConnection(t) PROVE Frame(t)
  <2>1. /\ SessionLeft(t) /\ SetSessions(GetThreadSession(t)) /\ UNCHANGED poolVars
        /\ pc' = [pc EXCEPT ![t] = "idle"]
    BY <1>8 DEF IsHoldingConnection, Call
  <2> QED
    BY <2>1
<1>9. ASSUME CallChangeEncryptKey(t) PROVE Frame(t)
  <2>1. SetSessions(Present) /\ pc' = [pc EXCEPT ![t] = "idle"]
    BY <1>9, UnchangedSessions DEF CallChangeEncryptKey, Call, sessionVars
  <2>2. PoolNext
    BY <1>9 DEF CallChangeEncryptKey, PoolNext
  <2> QED
    BY <2>1, <2>2
<1>10. ASSUME CallRestore(t) PROVE Frame(t)
  <2>1. SetSessions(Present) /\ pc' = [pc EXCEPT ![t] = "close"] /\ UNCHANGED poolVars
    BY <1>10, UnchangedSessions, Zenon DEF CallRestore, Call, sessionVars
  <2> QED
    BY <2>1
<1>11. ASSUME Restore(t) PROVE Frame(t)
  <2>1. SetSessions(Present) /\ \E place \in {"open", "idle"} : pc' = [pc EXCEPT ![t] = place]
    BY <1>11, UnchangedSessions DEF Restore, Goto, sessionVars
  <2>2. PoolNext
    BY <1>11 DEF Restore, PoolNext
  <2> QED
    BY <2>1, <2>2, Zenon
<1> QED
  BY <1>1, <1>2, <1>4, <1>5, <1>6, <1>7, <1>8, <1>9, <1>10, <1>11, Zenon

(* So does every step of a transaction without an observer ...              *)
LEMMA TransactionFrame ==
    ASSUME CallInv, NEW t \in Threads
    PROVE  /\ CallBeginTransaction(t) => Frame(t)
           /\ BeginTransaction(t) => Frame(t)
           /\ CallCommit(t) => Frame(t)
           /\ Commit(t) => Frame(t)
           /\ PopAfterCommit(t) => Frame(t)
           /\ CallRollBack(t) => Frame(t)
           /\ RollBack(t) => Frame(t)
<1> USE DEF Frame, SessionStep, PlaceStep, Places, Busy
<1>1. ASSUME CallBeginTransaction(t) PROVE Frame(t)
  <2>1. /\ SessionLeft(t) /\ SetSessions(GetThreadSession(t)) /\ UNCHANGED poolVars
        /\ pc' = [pc EXCEPT ![t] = "acquire"]
    BY <1>1 DEF CallBeginTransaction, Call
  <2> QED
    BY <2>1
<1>2. ASSUME NEW place \in {"idle", "pop"}, NEW fails \in BOOLEAN, EndCall(t, place, fails),
             pc[t] = "execute"
      PROVE  Frame(t)
  <2>1. pc' = [pc EXCEPT ![t] = place]
    BY <1>2 DEF EndCall, Goto
  <2>2. SetSessions(ReleaseThreadSession(Present, t, 1)) \/ SetSessions(Present)
    BY <1>2 DEF EndCall
  <2>3. PoolNext \/ UNCHANGED poolVars
    BY <1>2, ReleaseUse, SMTT(30) DEF EndCall, CallInv
  <2> QED
    BY <2>1, <2>2, <2>3, Zenon
<1>3. ASSUME BeginTransaction(t) PROVE Frame(t)
  <2>1. pc[t] = "execute"
    BY <1>3 DEF BeginTransaction, At
  <2>2. \E place \in {"idle", "pop"}, fails \in BOOLEAN : EndCall(t, place, fails)
    BY <1>3, Zenon DEF BeginTransaction, Fail
  <2> QED
    BY <1>2, <2>1, <2>2, SMTT(30)
<1>4. ASSUME CallCommit(t) PROVE Frame(t)
  <2>1. SessionLeft(t) /\ SetSessions(GetThreadSession(t)) /\ UNCHANGED poolVars
    BY <1>4 DEF CallCommit, Call
  <2>2. \E place \in {"idle", "acquire", "pop"} : pc' = [pc EXCEPT ![t] = place]
    BY <1>4, Zenon DEF CallCommit, Call
  <2> QED
    BY <2>1, <2>2, Zenon
<1>5. ASSUME Commit(t) PROVE Frame(t)
  <2>1. pc[t] = "execute"
    BY <1>5 DEF Commit, At
  <2>2. \E place \in {"idle", "pop"}, fails \in BOOLEAN : EndCall(t, place, fails)
    BY <1>5, Zenon DEF Commit, Fail
  <2> QED
    BY <1>2, <2>1, <2>2
<1>6. ASSUME PopAfterCommit(t) PROVE Frame(t)
  <2>1. SetSessions(Present) /\ pc' = [pc EXCEPT ![t] = "idle"] /\ UNCHANGED poolVars
    BY <1>6, UnchangedSessions, SMTT(30) DEF PopAfterCommit, Goto, sessionVars
  <2> QED
    BY <2>1
<1>7. ASSUME CallRollBack(t) PROVE Frame(t)
  <2>1. SessionLeft(t) /\ UNCHANGED poolVars
    BY <1>7 DEF CallRollBack, Call
  <2>2. CASE transactionStack = <<>>
    <3>1. /\ pc' = [pc EXCEPT ![t] = "idle"]
          /\ SetSessions(ReleaseThreadSession(GetThreadSession(t), t, 1))
      BY <1>7, <2>2 DEF CallRollBack, Call
    <3> QED
      BY <2>1, <3>1
  <2>3. CASE transactionStack # <<>>
    <3>1. pc' = [pc EXCEPT ![t] = "acquire"] /\ SetSessions(GetThreadSession(t))
      BY <1>7, <2>3, Zenon DEF CallRollBack, Call
    <3> QED
      BY <2>1, <3>1
  <2> QED
    BY <2>2, <2>3, SMTT(30)
<1>8. ASSUME RollBack(t) PROVE Frame(t)
  <2>1. pc[t] = "execute"
    BY <1>8, Zenon DEF RollBack, At
  <2>2. \E place \in {"idle", "pop"}, fails \in BOOLEAN : EndCall(t, place, fails)
    BY <1>8, Zenon DEF RollBack, Fail
  <2> QED
    BY <1>2, <2>1, <2>2
<1> QED
  BY <1>1, <1>3, <1>4, <1>5, <1>6, <1>7, <1>8, Zenon

(* ... of one with an observer ...                                          *)
LEMMA ObserverFrame ==
    ASSUME CallInv, NEW t \in Threads
    PROVE  /\ CallBeginTransactionWithObserver(t) => Frame(t)
           /\ BeginTransactionWithObserver(t) => Frame(t)
           /\ MarkAsCommit(t) => Frame(t)
           /\ EndTransaction(t) => Frame(t)
           /\ GiveConnectionTemporarily(t) => Frame(t)
<1> USE DEF Frame, SessionStep, PlaceStep, Places, Busy
<1>1. ASSUME CallBeginTransactionWithObserver(t) PROVE Frame(t)
  <2>1. SessionLeft(t) /\ SetSessions(GetThreadSession(t)) /\ UNCHANGED poolVars
    BY <1>1 DEF CallBeginTransactionWithObserver, Call
  <2>2. \E place \in {"idle", "acquire"} : pc' = [pc EXCEPT ![t] = place]
    BY <1>1, Zenon DEF CallBeginTransactionWithObserver, Call
  <2> QED
    BY <2>1, <2>2, Zenon
<1>2. ASSUME BeginTransactionWithObserver(t) PROVE Frame(t)
  <2>1. pc[t] = "execute"
    BY <1>2 DEF BeginTransactionWithObserver, At
  <2>2. CASE Fail(t)
    <3>1. pc' = [pc EXCEPT ![t] = "idle"] /\ SetSessions(ReleaseThreadSession(Present, t, 1))
      BY <2>2 DEF Fail, EndCall, Goto
    <3>2. PoolNext \/ UNCHANGED poolVars
      BY <2>1, <2>2, ReleaseUse, Zenon DEF Fail, EndCall, CallInv
    <3> QED
      BY <3>1, <3>2
  <2>3. CASE ~Fail(t)
    <3>1. SetSessions(Present) /\ pc' = [pc EXCEPT ![t] = "idle"] /\ UNCHANGED poolVars
      BY <1>2, <2>3, UnchangedSessions, Zenon DEF BeginTransactionWithObserver, Goto, sessionVars
    <3> QED
      BY <3>1
  <2> QED
    BY <2>2, <2>3, SMTT(30)
<1>3. ASSUME MarkAsCommit(t) PROVE Frame(t)
  <2>1. /\ SessionLeft(t) /\ SetSessions(ReleaseThreadSession(GetThreadSession(t), t, 1))
        /\ UNCHANGED poolVars /\ pc' = [pc EXCEPT ![t] = "idle"]
    BY <1>3, SMTT(30) DEF MarkAsCommit, Call
  <2> QED
    BY <2>1
<1>4. ASSUME SessionLeft(t) PROVE GetThreadSession(t).map[t].session \in Sessions
  BY <1>4, GetFacts DEF CallInv
<1>5. ASSUME EndTransaction(t) PROVE Frame(t)
  <2>1. SessionLeft(t) /\ SetSessions(ReleaseThreadSession(GetThreadSession(t), t, 2))
    BY <1>5 DEF EndTransaction, Call
  <2>2. \E place \in {"idle", "crashed"} : pc' = [pc EXCEPT ![t] = place]
    BY <1>5, Zenon DEF EndTransaction, Call
  <2>3. PoolNext \/ UNCHANGED poolVars
    <3>1. ReleaseConnection(GetThreadSession(t).map[t].session) \/ UNCHANGED poolVars
      BY <1>5, Zenon DEF EndTransaction, EndOutermost
    <3> QED
      BY <1>4, <2>1, <3>1, ReleaseUse
  <2> QED
    BY <2>1, <2>2, <2>3, Zenon
<1>6. ASSUME GiveConnectionTemporarily(t) PROVE Frame(t)
  <2>1. SessionLeft(t) /\ SetSessions(GetThreadSession(t))
    BY <1>6, Zenon DEF GiveConnectionTemporarily, Call
  <2>2. \E place \in {"idle", "crashed", "acquire"} : pc' = [pc EXCEPT ![t] = place]
    BY <1>6, Zenon DEF GiveConnectionTemporarily, Call
  <2>3. PoolNext \/ UNCHANGED poolVars
    <3>1. ReleaseConnection(GetThreadSession(t).map[t].session) \/ UNCHANGED poolVars
      BY <1>6, Zenon DEF GiveConnectionTemporarily, EndOutermost
    <3> QED
      BY <1>4, <2>1, <3>1, ReleaseUse
  <2> QED
    BY <2>1, <2>2, <2>3, Zenon
<1> QED
  BY <1>1, <1>2, <1>3, <1>5, <1>6, Zenon

(* ... and of a step result set.                                            *)
LEMMA StepFrame ==
    ASSUME CallInv, NEW t \in Threads
    PROVE  /\ PrepareStep(t) => Frame(t)
           /\ \A r \in ResultSets :
                 /\ CallPrepareStep(t, r) => Frame(t)
                 /\ PrepareSecondStep(t, r) => Frame(t)
                 /\ CloseInOtherThread(t, r) => Frame(t)
                 /\ \A closes \in BOOLEAN : FinishStep(t, r, closes) => Frame(t)
<1> USE DEF Frame, SessionStep, PlaceStep, Places, Busy
<1>1. ASSUME PrepareStep(t) PROVE Frame(t)
  <2>1. Session(t) \in Sessions
    BY <1>1, Zenon DEF PrepareStep, At, CallInv
  <2>2. pc' = [pc EXCEPT ![t] = "idle"]
    BY <1>1, Zenon DEF PrepareStep, Goto
  <2>3. \/ UNCHANGED <<poolVars, threadMap, idleSessions>>
        \/ ReleaseConnection(Session(t)) /\ SetSessions(ReleaseThreadSession(Present, t, 1))
    BY <1>1, Zenon DEF PrepareStep
  <2> QED
    BY <2>1, <2>2, <2>3, ReleaseUse, UnchangedSessions, Zenon
<1>2. ASSUME NEW r \in ResultSets, CallPrepareStep(t, r) PROVE Frame(t)
  <2>1. /\ SessionLeft(t) /\ SetSessions(GetThreadSession(t)) /\ UNCHANGED poolVars
        /\ pc' = [pc EXCEPT ![t] = "acquire"]
    BY <1>2 DEF CallPrepareStep, Call
  <2> QED
    BY <2>1, Zenon
<1>3. ASSUME NEW r \in ResultSets, PrepareSecondStep(t, r) PROVE Frame(t)
  <2>1. SetSessions(Present) /\ pc' = [pc EXCEPT ![t] = "idle"]
    BY <1>3, UnchangedSessions, Zenon DEF PrepareSecondStep, Call
  <2>2. Session(t) \in Sessions
    BY <1>3, Zenon DEF PrepareSecondStep, CallInv, Apart, Present, Maps, Session
  <2>3. PoolNext \/ UNCHANGED poolVars
    BY <1>3, <2>2, ReleaseUse, Zenon DEF PrepareSecondStep
  <2> QED
    BY <2>1, <2>3, Zenon
<1>4. ASSUME NEW r \in ResultSets, CloseInOtherThread(t, r) PROVE Frame(t)
  <2>1. SetSessions(Present) /\ pc' = [pc EXCEPT ![t] = "idle"] /\ UNCHANGED poolVars
    BY <1>4, UnchangedSessions, Zenon DEF CloseInOtherThread, Call, sessionVars
  <2> QED
    BY <2>1
<1>5. ASSUME NEW r \in ResultSets, NEW closes \in BOOLEAN, FinishStep(t, r, closes)
      PROVE  Frame(t)
  <2>1. SessionLeft(t) /\ pc' = [pc EXCEPT ![t] = "idle"]
    BY <1>5 DEF FinishStep, Call
  <2>2. SetSessions(ReleaseThreadSession(GetThreadSession(t), t, 2))
    BY <1>5 DEF FinishStep, EndStepQuery
  <2>3. PoolNext \/ UNCHANGED poolVars
    <3>1. GetThreadSession(t).map[t].session \in Sessions
      BY <2>1, GetFacts, SMTT(30) DEF CallInv
    <3>2. ReleaseConnection(GetThreadSession(t).map[t].session) \/ UNCHANGED poolVars
      BY <1>5 DEF FinishStep, EndStepQuery
    <3> QED
      BY <3>1, <3>2, ReleaseUse, Zenon
  <2> QED
    BY <2>1, <2>2, <2>3
<1> QED
  BY <1>1, <1>2, <1>3, <1>4, <1>5, Zenon

(* Every step is that of a thread and has its frame.                          *)
LEMMA NextFrame ==
    ASSUME CallInv, Next
    PROVE  \E t \in Threads : Frame(t)
BY StatementFrame, TransactionFrame, ObserverFrame, StepFrame, Zenon DEF Next

(* A step changes the session of no other thread.                             *)
LEMMA SessionNext ==
    ASSUME Apart(Present), NEW t \in Threads, SessionStep(t)
    PROVE  Apart(Present)' /\ \A u \in Threads : u # t => threadMap'[u] = threadMap[u]
<1>1. ASSUME NEW m, Apart(m), SetSessions(m), \A u \in Threads : u # t => m.map[u] = threadMap[u]
      PROVE  Apart(Present)' /\ \A u \in Threads : u # t => threadMap'[u] = threadMap[u]
  <2>1. Present' = m
    <3>1. m = [map |-> m.map, idle |-> m.idle]
      BY <1>1, PresentFields DEF Apart
    <3> QED
      BY <1>1, <3>1, ZenonT(30) DEF SetSessions, Present
  <2> QED
    BY <1>1, <2>1 DEF SetSessions, Apart
<1>2. \A u \in Threads : Present.map[u] = threadMap[u]
  BY Zenon DEF Present
<1>3. /\ Apart(ReleaseThreadSession(Present, t, 1))
      /\ \A u \in Threads : u # t => ReleaseThreadSession(Present, t, 1).map[u] = threadMap[u]
  BY <1>2, ReleaseFacts
<1>4. ASSUME SessionLeft(t), NEW n \in Nat
      PROVE  /\ Apart(GetThreadSession(t))
             /\ \A u \in Threads : u # t => GetThreadSession(t).map[u] = threadMap[u]
             /\ Apart(ReleaseThreadSession(GetThreadSession(t), t, n))
             /\ \A u \in Threads : u # t =>
                   ReleaseThreadSession(GetThreadSession(t), t, n).map[u] = threadMap[u]
  <2>1. /\ Apart(GetThreadSession(t))
        /\ \A u \in Threads : u # t => GetThreadSession(t).map[u] = threadMap[u]
    BY <1>4, GetFacts, Zenon
  <2> QED
    BY <2>1, ReleaseFacts, Zenon
<1> QED
  BY <1>1, <1>2, <1>3, <1>4, Zenon DEF SessionStep

(* CallInv is inductive.                                                      *)
LEMMA CallNext ==
    ASSUME CallInv, NEW t \in Threads, Frame(t)
    PROVE  CallInv'
<1>1. Apart(Present)' /\ \A u \in Threads : u # t => threadMap'[u] = threadMap[u]
  BY SessionNext DEF CallInv, Frame
<1>2. PICK place \in Places :
         /\ pc' = [pc EXCEPT ![t] = place]
         /\ place \in Busy => \/ SessionLeft(t) /\ SetSessions(GetThreadSession(t))
                              \/ pc[t] \in Busy /\ SetSessions(Present)
  BY Zenon DEF Frame, PlaceStep
<1>3. pc' \in [Threads -> Places] /\ pc'[t] = place /\ \A u \in Threads : u # t => pc'[u] = pc[u]
  BY <1>2 DEF CallInv
<1>4. ASSUME place \in Busy PROVE Session(t)' \in Sessions
  <2>1. CASE SessionLeft(t) /\ SetSessions(GetThreadSession(t))
    BY <2>1, GetFacts DEF CallInv, SetSessions, Session
  <2>2. CASE pc[t] \in Busy /\ SetSessions(Present)
    BY <2>2 DEF CallInv, SetSessions, Present, Session
  <2> QED
    BY <1>2, <1>4, <2>1, <2>2, SMTT(30)
<1>5. \A u \in Threads : u # t => Session(u)' = Session(u)
  BY <1>1, Zenon DEF Session
<1> QED
  BY <1>1, <1>3, <1>4, <1>5, Zenon DEF CallInv

-----------------------------------------------------------------------------
(* Types.                                                                    *)

(* A call of an idle thread puts it at its first place with its operation   *)
(* and argument.                                                            *)
LEMMA CallMoves ==
    ASSUME StoreTypes, NEW t \in Threads, NEW o, NEW place, NEW a, Call(t, o, place, a)
    PROVE  /\ Moves(t, place) /\ Running /\ pc[t] = "idle" /\ SessionLeft(t)
           /\ place # "idle" => op'[t] = o /\ arg'[t] = a
           /\ o \in Ops => op' \in [Threads -> Ops]
           /\ a \in ResultSets \cup Nat \cup {NoArg} \/ place = "idle"
                 => arg' \in [Threads -> ResultSets \cup Nat \cup {NoArg}]
BY Zenon DEF Call, Moves, StoreTypes, CallTypes, Ops

(* A call that goes on keeps its operation and argument until it returns.   *)
LEMMA GotoMoves ==
    ASSUME StoreTypes, NEW t \in Threads, NEW place, Goto(t, place)
    PROVE  /\ Moves(t, place)
           /\ place # "idle" => op'[t] = op[t] /\ arg'[t] = arg[t]
           /\ op' \in [Threads -> Ops]
           /\ arg' \in [Threads -> ResultSets \cup Nat \cup {NoArg}]
BY Zenon DEF Goto, Moves, StoreTypes, CallTypes, Ops

(* Taking and giving back a connection concerns one session; a session keeps   *)
(* what it has as long as a use is left.                                       *)
LEMMA AcquireConn ==
    ASSUME PoolTypeOK, StoreTypes, NEW s \in Sessions, NEW b \in BOOLEAN, AcquireConnection(s, b)
    PROVE  /\ connectionUseCount' \in [Sessions -> Nat]
           /\ connectionUseCount'[s] = connectionUseCount[s] + 1
           /\ conn[s] # Null => conn'[s] = conn[s]
           /\ \A x \in Sessions : x # s => /\ conn'[x] = conn[x]
                                           /\ connectionUseCount'[x] = connectionUseCount[x]
<1>1. connectionUseCount' = [connectionUseCount EXCEPT ![s] = @ + 1]
  BY Zenon DEF AcquireConnection
<1>2. conn' = conn \/ \E c : conn[s] = Null /\ conn' = [conn EXCEPT ![s] = c]
  BY Zenon DEF AcquireConnection, PoolAcquire, AcquireReadConnection, AcquireWriteConnection, poolVars
<1> QED
  BY <1>1, <1>2 DEF PoolTypeOK, StoreTypes

(* ReleaseConnection takes one use, the connection goes with the last, and  *)
(* other sessions keep theirs.                                              *)
LEMMA ReleaseConn ==
    ASSUME PoolTypeOK, StoreTypes, ConnectedInv, Running, NEW s \in Sessions, ReleaseConnection(s)
    PROVE  /\ connectionUseCount' \in [Sessions -> Nat]
           /\ connectionUseCount[s] = 0 => conn'[s] = conn[s] /\ connectionUseCount'[s] = 0
           /\ connectionUseCount[s] > 0 => connectionUseCount'[s] = connectionUseCount[s] - 1
           /\ connectionUseCount[s] > 1 => conn'[s] = conn[s]
           /\ connectionUseCount'[s] > 0 <=> conn'[s] # Null
           /\ \A x \in Sessions : x # s => /\ conn'[x] = conn[x]
                                           /\ connectionUseCount'[x] = connectionUseCount[x]
<1>0. connectionUseCount[s] \in Nat /\ (connectionUseCount[s] > 0 <=> conn[s] # Null)
  BY DEF StoreTypes, ConnectedInv
<1>1. CASE connectionUseCount[s] = 0
  <2>1. UNCHANGED <<conn, connectionUseCount>>
    BY <1>1, SMTT(30) DEF ReleaseConnection, poolVars
  <2> QED
    BY <1>0, <1>1, <2>1 DEF StoreTypes
<1>2. CASE connectionUseCount[s] = 1
  <2>1. connectionUseCount' = [connectionUseCount EXCEPT ![s] = @ - 1]
    BY <1>0, <1>2 DEF ReleaseConnection
  <2>2. conn' = [conn EXCEPT ![s] = Null]
    BY <1>0, <1>2 DEF ReleaseConnection, PoolRelease
  <2> QED
    BY <1>2, <2>1, <2>2, SMTT(30) DEF StoreTypes, PoolTypeOK
<1>3. CASE connectionUseCount[s] > 1
  <2>1. connectionUseCount' = [connectionUseCount EXCEPT ![s] = @ - 1] /\ conn' = conn
    BY <1>0, <1>3, SMTT(30) DEF ReleaseConnection, poolVars
  <2>2. /\ connectionUseCount' \in [Sessions -> Nat]
        /\ connectionUseCount'[s] = connectionUseCount[s] - 1
        /\ \A x \in Sessions : x # s => connectionUseCount'[x] = connectionUseCount[x]
    BY <1>0, <1>3, <2>1, SMTT(30) DEF StoreTypes
  <2> QED
    BY <1>0, <1>3, <2>1, <2>2, SMTT(30)
<1> QED
  BY <1>0, <1>1, <1>2, <1>3, SMTT(30)

(* The transaction stack, and the history of the transaction calls.            *)
LEMMA CountFacts ==
    ASSUME NEW t \in Threads, NEW n \in Int, NEW b \in BOOLEAN, depth \in Nat, Count(t, n, b)
    PROVE  /\ depth' \in Nat /\ owner' \in {t, NoThread}
           /\ depth' >= depth + n
           /\ b /\ depth' = 0 <=> owner' = NoThread
<1>1. depth' \in Nat /\ depth' >= depth + n
  BY DEF Count
<1>2. owner' = IF b /\ depth' <= 0 THEN NoThread ELSE t
  BY DEF Count
<1> QED
  BY <1>1, <1>2, NothingAssumption

(* The stack after each of its operations.                                     *)
LEMMA StackFacts ==
    ASSUME transactionStack \in Seq(Transactions)
    PROVE  /\ Len(transactionStack) \in Nat
           /\ transactionStack # <<>> => Len(transactionStack) > 0 /\ Top \in Transactions
           /\ \A k \in Sessions \cup {NoSession} :
                 LET q == Append(transactionStack, BaseTransaction(Len(transactionStack), k))
                 IN  /\ q \in Seq(Transactions) /\ Len(q) = Len(transactionStack) + 1
                     /\ transactionStack # <<>> => q[1] = transactionStack[1]
                     /\ transactionStack = <<>> => q[1].keeper = k
           /\ Popped \in Seq(Transactions)
           /\ transactionStack # <<>> => Len(Popped) = Len(transactionStack) - 1
           /\ Popped # <<>> => transactionStack # <<>> /\ Popped[1] = transactionStack[1]
<1>1. Len(transactionStack) \in Nat
  OBVIOUS
<1>2. ASSUME transactionStack # <<>> PROVE Len(transactionStack) > 0 /\ Top \in Transactions
  BY <1>2, ButLast DEF Top
<1>3. ASSUME NEW k \in Sessions \cup {NoSession}
      PROVE  BaseTransaction(Len(transactionStack), k) \in Transactions
             /\ BaseTransaction(Len(transactionStack), k).keeper = k
  BY <1>1, Zenon DEF BaseTransaction, Transactions
<1>4. ASSUME NEW k \in Sessions \cup {NoSession}
      PROVE  LET q == Append(transactionStack, BaseTransaction(Len(transactionStack), k))
             IN  /\ q \in Seq(Transactions) /\ Len(q) = Len(transactionStack) + 1
                 /\ transactionStack # <<>> => q[1] = transactionStack[1]
                 /\ transactionStack = <<>> => q[1].keeper = k
  <2> DEFINE b == BaseTransaction(Len(transactionStack), k)
  <2>1. b \in Transactions /\ b.keeper = k
    BY <1>3
  <2> HIDE DEF b
  <2>2. /\ Append(transactionStack, b) \in Seq(Transactions)
        /\ Len(Append(transactionStack, b)) = Len(transactionStack) + 1
    BY <2>1
  <2>3. transactionStack # <<>> => Append(transactionStack, b)[1] = transactionStack[1]
    BY <1>2, <2>1
  <2>4. transactionStack = <<>> => Append(transactionStack, b)[1] = b
    BY <2>1
  <2> QED
    BY <2>1, <2>2, <2>3, <2>4, Zenon DEF b
<1>5. ASSUME transactionStack # <<>>
      PROVE  /\ Popped \in Seq(Transactions) /\ Len(Popped) = Len(transactionStack) - 1
             /\ Popped # <<>> => Popped[1] = transactionStack[1]
  <2>1. Popped = SubSeq(transactionStack, 1, Len(transactionStack) - 1)
    BY <1>5 DEF Popped
  <2> QED
    BY <1>5, <2>1, ButLast
<1>6. transactionStack = <<>> => Popped = <<>>
  BY DEF Popped
<1> QED
  BY <1>1, <1>2, <1>4, <1>5, <1>6

(* MarkAsCommit and the end of an inner transaction keep the outermost, and *)
(* with it the keeper of the connection.                                    *)
LEMMA MarkFacts ==
    ASSUME transactionStack \in Seq(Transactions)
    PROVE  /\ transactionStack # <<>> =>
                 /\ MarkTop \in Seq(Transactions) /\ Len(MarkTop) = Len(transactionStack)
                 /\ MarkTop[1].keeper = transactionStack[1].keeper
           /\ Len(transactionStack) > 1 =>
                 /\ EndTop \in Seq(Transactions) /\ Len(EndTop) = Len(transactionStack) - 1
                 /\ EndTop # <<>> /\ EndTop[1].keeper = transactionStack[1].keeper
<1>1. ASSUME NEW q \in Seq(Transactions), q # <<>>
      PROVE  /\ Len(q) \in Nat \ {0}
             /\ LET m == [q EXCEPT ![Len(q)].markedSuccessful = TRUE]
                    e == [q EXCEPT ![Len(q)].allBeforeSuccessful = FALSE]
                IN  /\ m \in Seq(Transactions) /\ Len(m) = Len(q) /\ m[1].keeper = q[1].keeper
                    /\ e \in Seq(Transactions) /\ Len(e) = Len(q) /\ e[1].keeper = q[1].keeper
  <2>1. Len(q) \in Nat \ {0} /\ Len(q) \in 1..Len(q) /\ 1 \in 1..Len(q) /\ q[Len(q)] \in Transactions
    BY <1>1
  <2>2. ASSUME NEW c \in Transactions, c.keeper = q[Len(q)].keeper
        PROVE  /\ [q EXCEPT ![Len(q)] = c] \in Seq(Transactions)
               /\ Len([q EXCEPT ![Len(q)] = c]) = Len(q)
               /\ [q EXCEPT ![Len(q)] = c][1].keeper = q[1].keeper
    <3>1. /\ [q EXCEPT ![Len(q)] = c] \in Seq(Transactions)
          /\ Len([q EXCEPT ![Len(q)] = c]) = Len(q)
          /\ [q EXCEPT ![Len(q)] = c][1] = IF 1 = Len(q) THEN c ELSE q[1]
      BY <2>1
    <3> QED
      BY <2>2, <3>1
  <2>3. \A c \in Transactions :
           /\ [c EXCEPT !.markedSuccessful = TRUE] \in Transactions
           /\ [c EXCEPT !.markedSuccessful = TRUE].keeper = c.keeper
           /\ [c EXCEPT !.allBeforeSuccessful = FALSE] \in Transactions
           /\ [c EXCEPT !.allBeforeSuccessful = FALSE].keeper = c.keeper
    BY Zenon DEF Transactions
  <2> DEFINE c == [q[Len(q)] EXCEPT !.markedSuccessful = TRUE]
             d == [q[Len(q)] EXCEPT !.allBeforeSuccessful = FALSE]
  <2>4. /\ c \in Transactions /\ c.keeper = q[Len(q)].keeper
        /\ d \in Transactions /\ d.keeper = q[Len(q)].keeper
    <3>1. q[Len(q)] \in Transactions
      BY <2>1
    <3> QED
      BY <2>3, <3>1, Zenon
  <2>5. /\ [q EXCEPT ![Len(q)].markedSuccessful = TRUE] = [q EXCEPT ![Len(q)] = c]
        /\ [q EXCEPT ![Len(q)].allBeforeSuccessful = FALSE] = [q EXCEPT ![Len(q)] = d]
    OBVIOUS
  <2> HIDE DEF c, d
  <2>6. /\ [q EXCEPT ![Len(q)] = c] \in Seq(Transactions) /\ Len([q EXCEPT ![Len(q)] = c]) = Len(q)
        /\ [q EXCEPT ![Len(q)] = c][1].keeper = q[1].keeper
    BY <2>2, <2>4
  <2>7. /\ [q EXCEPT ![Len(q)] = d] \in Seq(Transactions) /\ Len([q EXCEPT ![Len(q)] = d]) = Len(q)
        /\ [q EXCEPT ![Len(q)] = d][1].keeper = q[1].keeper
    BY <2>2, <2>4
  <2> QED
    BY <2>1, <2>5, <2>6, <2>7, Zenon
<1>2. ASSUME transactionStack # <<>>
      PROVE  /\ MarkTop \in Seq(Transactions) /\ Len(MarkTop) = Len(transactionStack)
             /\ MarkTop[1].keeper = transactionStack[1].keeper
  BY <1>1, <1>2, Zenon DEF MarkTop
<1>3. ASSUME Len(transactionStack) > 1
      PROVE  /\ EndTop \in Seq(Transactions) /\ Len(EndTop) = Len(transactionStack) - 1
             /\ EndTop # <<>> /\ EndTop[1].keeper = transactionStack[1].keeper
  <2>1. /\ Popped \in Seq(Transactions) /\ Len(Popped) = Len(transactionStack) - 1
        /\ Len(transactionStack) \in Nat /\ Popped # <<>> /\ Popped[1] = transactionStack[1]
    <3>1. transactionStack # <<>>
      BY <1>3, SMTT(30)
    <3>2. Len(Popped) = Len(transactionStack) - 1 /\ Len(Popped) > 0 /\ Popped \in Seq(Transactions)
      BY <1>3, <3>1, StackFacts, SMTT(30)
    <3>3. Popped # <<>>
      BY <3>2
    <3> QED
      BY <3>2, <3>3, StackFacts
  <2>2. EndTop = Popped \/ EndTop = [Popped EXCEPT ![Len(Popped)].allBeforeSuccessful = FALSE]
    BY DEF EndTop
  <2>3. /\ EndTop \in Seq(Transactions) /\ Len(EndTop) = Len(Popped)
        /\ EndTop[1].keeper = Popped[1].keeper
    BY <1>1, <2>1, <2>2, Zenon
  <2>4. EndTop # <<>>
    <3>1. Len(EndTop) > 0
      BY <1>3, <2>1, <2>3, SMTT(30)
    <3> QED
      BY <3>1
  <2> QED
    BY <2>1, <2>3, <2>4
<1> QED
  BY <1>2, <1>3

-----------------------------------------------------------------------------
(* The actions are steps of the kinds of RdbKinds.                       *)

(* A thread uses its session as long as it counts a use, and no other       *)
(* thread has it.                                                           *)
LEMMA SessionFacts ==
    ASSUME CallInv, NEW t \in Threads
    PROVE  /\ Session(t) # NoSession => Own(t) = Session(t)
           /\ Session(t) # NoSession <=> threadMap[t].useCount > 0
           /\ Session(t) # NoSession => Session(t) \in Sessions
           /\ SessionLeft(t) => /\ Own(t) \in Sessions
                                /\ \A u \in Threads : u # t => Session(u) # Own(t)
           /\ Session(t) # NoSession => SessionLeft(t)
           /\ pc[t] \in Busy => Session(t) # NoSession
           /\ threadMap[t].useCount \in Nat
<1>1. Session(t) # NoSession => Session(t) \in Sessions /\ SessionLeft(t)
  BY Zenon DEF CallInv, Apart, Present, Maps, Session, SessionLeft
<1>2. threadMap[t].useCount \in Nat /\ (Session(t) # NoSession <=> threadMap[t].useCount > 0)
  BY DEF CallInv, Apart, Present, Maps, Session
<1>3. pc[t] \in Busy => Session(t) # NoSession
  BY NothingAssumption, Zenon DEF CallInv
<1>4. Session(t) # NoSession => Own(t) = Session(t)
  BY <1>1, GetFacts, Zenon DEF CallInv, Own
<1>5. ASSUME SessionLeft(t)
      PROVE  Own(t) \in Sessions /\ \A u \in Threads : u # t => Session(u) # Own(t)
  <2>1. Own(t) \in Sessions /\ (Session(t) = NoSession => \A u \in Threads : Session(u) # Own(t))
    BY <1>5, GetFacts, Zenon DEF CallInv, Own
  <2>2. Session(t) # NoSession => \A u \in Threads : u # t => Session(u) # Session(t)
    BY DEF CallInv, Apart, Present, Session
  <2> QED
    BY <1>4, <2>1, <2>2, Zenon
<1> QED
  BY <1>1, <1>2, <1>3, <1>4, <1>5

(* The same as one fact about all threads.                                  *)
LEMMA CallOwned == CallInv => Owned
BY SessionFacts, Zenon DEF Owned

(* What getting and giving back the session does to its uses: one more,     *)
(* none or one less.                                                        *)
LEMMA TurnFacts ==
    ASSUME CallInv, NEW t \in Threads
    PROVE  /\ SetSessions(Present) => Turns(t, 0)
           /\ SetSessions(ReleaseThreadSession(Present, t, 1)) => Turns(t, -1)
           /\ SessionLeft(t) =>
                 /\ SetSessions(GetThreadSession(t)) => Turns(t, 1)
                 /\ SetSessions(ReleaseThreadSession(GetThreadSession(t), t, 1)) => Turns(t, 0)
                 /\ SetSessions(ReleaseThreadSession(GetThreadSession(t), t, 2)) => Turns(t, -1)
<1>0. /\ threadMap[t].useCount \in Nat /\ (Session(t) # NoSession <=> threadMap[t].useCount > 0)
      /\ Session(t) # NoSession => Own(t) = Session(t)
  BY SessionFacts, Zenon
<1> DEFINE c == threadMap[t].useCount
<1>1. ASSUME SetSessions(Present) PROVE Turns(t, 0)
  <2>1. threadMap' = threadMap
    BY <1>1, Zenon DEF SetSessions, Present
  <2> QED
    BY <1>0, <2>1, SMTT(30) DEF Turns, Plus, Session
<1>2. ASSUME SetSessions(ReleaseThreadSession(Present, t, 1)) PROVE Turns(t, -1)
  <2>1. /\ c > 1 => Session(t)' = Session(t) /\ threadMap'[t].useCount = c - 1
        /\ c <= 1 => Session(t)' = NoSession /\ threadMap'[t].useCount = 0
        /\ \A u \in Threads : u # t => threadMap'[u] = threadMap[u]
    <3>0. PICK n \in Nat : n = 1
      OBVIOUS
    <3> DEFINE m == Present
               k == ReleaseThreadSession(m, t, n)
    <3>1. Apart(m) /\ threadMap' = k.map /\ m.map = threadMap
      BY <1>2, <3>0, Zenon DEF CallInv, SetSessions, Present
    <3> HIDE DEF m
    <3>2. /\ m.map[t].useCount > n => /\ k.map[t].session = m.map[t].session
                                      /\ k.map[t].useCount = m.map[t].useCount - n
          /\ m.map[t].useCount <= n => k.map[t].session = NoSession /\ k.map[t].useCount = 0
          /\ \A u \in Threads : u # t => k.map[u] = m.map[u]
      BY <3>1, ReleaseFacts, ZenonT(30)
    <3> HIDE DEF k
    <3> QED
      BY <3>0, <3>1, <3>2, Zenon DEF Session
  <2> QED
    BY <1>0, <2>1 DEF Turns, Plus
<1>3. ASSUME SessionLeft(t)
      PROVE  LET m == GetThreadSession(t)
             IN  /\ Apart(m) /\ m.map[t].session = Own(t) /\ m.map[t].useCount = c + 1
                 /\ \A u \in Threads : u # t => m.map[u] = threadMap[u]
  BY <1>3, GetFacts, Zenon DEF CallInv, Own
<1>4. ASSUME SessionLeft(t), SetSessions(GetThreadSession(t)) PROVE Turns(t, 1)
  <2>1. /\ Session(t)' = Own(t) /\ threadMap'[t].useCount = c + 1
        /\ \A u \in Threads : u # t => threadMap'[u] = threadMap[u]
    BY <1>3, <1>4, Zenon DEF SetSessions, Session
  <2> QED
    BY <1>0, <2>1 DEF Turns, Plus
<1>5. ASSUME SessionLeft(t), NEW n \in {1, 2},
             SetSessions(ReleaseThreadSession(GetThreadSession(t), t, n))
      PROVE  Turns(t, 1 - n)
  <2>1. /\ c + 1 > n => Session(t)' = Own(t) /\ threadMap'[t].useCount = c + 1 - n
        /\ c + 1 <= n => Session(t)' = NoSession /\ threadMap'[t].useCount = 0
        /\ \A u \in Threads : u # t => threadMap'[u] = threadMap[u]
    <3> DEFINE m == GetThreadSession(t)
    <3>1. /\ Apart(m) /\ m.map[t].session = Own(t) /\ m.map[t].useCount = c + 1
          /\ \A u \in Threads : u # t => m.map[u] = threadMap[u]
      BY <1>3, <1>5, Zenon
    <3>2. threadMap' = ReleaseThreadSession(m, t, n).map
      BY <1>5, Zenon DEF SetSessions
    <3> DEFINE k == ReleaseThreadSession(m, t, n)
    <3> HIDE DEF m
    <3>3. /\ m.map[t].useCount > n => /\ k.map[t].session = m.map[t].session
                                      /\ k.map[t].useCount = m.map[t].useCount - n
          /\ m.map[t].useCount <= n => k.map[t].session = NoSession /\ k.map[t].useCount = 0
          /\ \A u \in Threads : u # t => k.map[u] = m.map[u]
      <4>1. n \in Nat
        BY <1>5
      <4> QED
        BY <3>1, <4>1, ReleaseFacts, ZenonT(30)
    <3>4. threadMap' = k.map
      BY <3>2
    <3> HIDE DEF k
    <3> QED
      BY <1>0, <3>1, <3>3, <3>4 DEF Session
  <2> QED
    BY <1>0, <2>1, SMTT(30) DEF Turns, Plus
<1>6. 1 - 1 = 0 /\ 1 - 2 = -1
  OBVIOUS
<1> QED
  BY <1>1, <1>2, <1>4, <1>5, <1>6, Zenon

(* What AcquireConnection and ReleaseConnection do to the uses of the       *)
(* connection.                                                              *)
LEMMA LinkFacts ==
    ASSUME PoolTypeOK, StoreTypes, ConnectedInv, Running, NEW t \in Threads
    PROVE  /\ UNCHANGED <<conn, connectionUseCount>> => Linked(t, 0)
           /\ \A b \in BOOLEAN :
                 /\ Own(t) \in Sessions /\ AcquireConnection(Own(t), b)
                 /\ conn'[Own(t)] = Null => ~Running'
                 => Linked(t, 1)
           /\ Own(t) \in Sessions /\ ReleaseConnection(Own(t)) => Linked(t, -1)
<1>0. Own(t) \in Sessions => /\ connectionUseCount[Own(t)] \in Nat
                             /\ connectionUseCount[Own(t)] > 0 <=> conn[Own(t)] # Null
  BY Zenon DEF StoreTypes, ConnectedInv
<1>1. UNCHANGED <<conn, connectionUseCount>> => Linked(t, 0)
  BY <1>0, SMTT(30) DEF Linked, Plus, StoreTypes
<1>2. ASSUME NEW b \in BOOLEAN, Own(t) \in Sessions, AcquireConnection(Own(t), b),
             conn'[Own(t)] = Null => ~Running'
      PROVE  Linked(t, 1)
  <2>1. /\ connectionUseCount' \in [Sessions -> Nat]
        /\ connectionUseCount'[Own(t)] = connectionUseCount[Own(t)] + 1
        /\ conn[Own(t)] # Null => conn'[Own(t)] = conn[Own(t)]
        /\ \A x \in Sessions : x # Own(t) =>
              conn'[x] = conn[x] /\ connectionUseCount'[x] = connectionUseCount[x]
    BY <1>2, AcquireConn, Zenon
  <2> QED
    BY <1>0, <1>2, <2>1, SMTT(30) DEF Linked, Plus
<1>3. ASSUME Own(t) \in Sessions, ReleaseConnection(Own(t)) PROVE Linked(t, -1)
  <2>1. /\ connectionUseCount' \in [Sessions -> Nat]
        /\ connectionUseCount[Own(t)] = 0 => connectionUseCount'[Own(t)] = 0
        /\ connectionUseCount[Own(t)] > 0 =>
              connectionUseCount'[Own(t)] = connectionUseCount[Own(t)] - 1
        /\ connectionUseCount[Own(t)] > 1 => conn'[Own(t)] = conn[Own(t)]
        /\ connectionUseCount'[Own(t)] > 0 <=> conn'[Own(t)] # Null
        /\ \A x \in Sessions : x # Own(t) =>
              conn'[x] = conn[x] /\ connectionUseCount'[x] = connectionUseCount[x]
    BY <1>3, ReleaseConn, Zenon
  <2> QED
    BY <1>0, <1>3, <2>1 DEF Linked, Plus
<1> QED
  BY <1>1, <1>2, <1>3

(* The operations of the pool itself take no connection from a session.     *)
LEMMA PoolConn ==
    ASSUME ReOpenAvailableReadConnections \/ ChangeEncryptKey \/ RestoreClose \/ RestoreInit
    PROVE  conn' = conn
BY DEF ReOpenAvailableReadConnections, ChangeEncryptKey, InnerReOpenReadConnections, RestoreClose,
       RestoreInit

(* The end of a statement or of a transaction call.                            *)
LEMMA EndKinds ==
    ASSUME Store, Running, NEW t \in Threads, pc[t] \in {"execute", "run"}
    PROVE  /\ \A place \in {"idle", "exchange", "reopen"} :
                 FinishStatement(t, place) /\ Same => Ends(t)
           /\ \A place \in {"idle", "pop"}, fails \in BOOLEAN :
                 EndCall(t, place, fails) /\ (fails => place = "idle") => Ends(t)
<1>1. Session(t) # NoSession /\ Own(t) = Session(t) /\ Own(t) \in Sessions
  BY SessionFacts, Zenon DEF Store, Busy
<1>2. ReleaseConnection(Session(t)) => Linked(t, -1)
  BY <1>1, LinkFacts, Zenon DEF Store
<1>3. /\ SetSessions(Present) => Turns(t, 0)
      /\ SetSessions(ReleaseThreadSession(Present, t, 1)) => Turns(t, -1)
  BY TurnFacts, Zenon DEF Store
<1>4. ASSUME NEW place \in {"idle", "exchange", "reopen", "pop"}, Goto(t, place)
      PROVE  Moves(t, place) /\ (place # "idle" => op'[t] = op[t])
  BY <1>4, GotoMoves, Zenon DEF Store
<1>5. ASSUME NEW place \in {"idle", "exchange", "reopen"}, FinishStatement(t, place), Same
      PROVE  Ends(t)
  <2>1. ReleaseConnection(Session(t)) /\ Goto(t, place)
    BY <1>5 DEF FinishStatement
  <2>2. \/ place = "idle" /\ SetSessions(ReleaseThreadSession(Present, t, 1))
        \/ SetSessions(Present)
    BY <1>5, Zenon DEF FinishStatement
  <2> QED
    BY <1>2, <1>3, <1>4, <1>5, <2>1, <2>2, Zenon DEF Ends
<1>6. ASSUME NEW place \in {"idle", "pop"}, NEW fails \in BOOLEAN, EndCall(t, place, fails),
             fails => place = "idle"
      PROVE  Ends(t)
  <2>1. ReleaseConnection(Session(t)) /\ Goto(t, place) /\ Same
    BY <1>6 DEF EndCall, Same
  <2>2. \/ place = "idle" /\ SetSessions(ReleaseThreadSession(Present, t, 1))
        \/ SetSessions(Present)
    BY <1>6, Zenon DEF EndCall
  <2> QED
    BY <1>2, <1>3, <1>4, <1>6, <2>1, <2>2, Zenon DEF Ends
<1> QED
  BY <1>5, <1>6, Zenon

(* The kinds of the statements, and of the calls outside of transactions.      *)
LEMMA StatementKinds ==
    ASSUME Store, NEW t \in Threads
    PROVE  /\ \A o \in Statements : CallStatement(t, o) => Begins(t) /\ Steps(t)
           /\ Acquire(t) => Acquires(t) /\ Steps(t)
           /\ ExecuteStatement(t) => Ends(t) /\ Steps(t)
           /\ Exchange(t) => Acquires(t) /\ Steps(t)
           /\ RunExchanged(t) => Ends(t) /\ Steps(t)
           /\ ReopenAfterDdl(t) => Reopens(t) /\ Steps(t)
           /\ IsHoldingConnection(t) => Begins(t) /\ Steps(t)
           /\ CallChangeEncryptKey(t) => Passes(t) /\ Steps(t)
           /\ CallRestore(t) => Passes(t) /\ Steps(t)
           /\ Restore(t) => Passes(t) /\ Steps(t)
<1> USE DEF Store
<1>t. ASSUME NotTransactional, op' \in [Threads -> Ops], UNCHANGED noted, Running,
             arg' \in [Threads -> ResultSets \cup Nat \cup {NoArg}]
      PROVE  Steps(t)
  BY <1>t DEF Steps, NotTransactional, StoreTypes, CallTypes
<1>c. ASSUME NEW o \in Ops, NEW place, Call(t, o, place, NoArg), NotTransactional, UNCHANGED noted
      PROVE  /\ Steps(t) /\ Moves(t, place) /\ Running /\ pc[t] = "idle" /\ SessionLeft(t)
             /\ place # "idle" => op'[t] = o
             /\ place = "idle" => op'[t] = NoArg
  <2>1. /\ Moves(t, place) /\ Running /\ pc[t] = "idle" /\ SessionLeft(t)
        /\ place # "idle" => op'[t] = o
        /\ op' \in [Threads -> Ops] /\ arg' \in [Threads -> ResultSets \cup Nat \cup {NoArg}]
    BY <1>c, CallMoves
  <2>2. place = "idle" => op'[t] = NoArg
    BY <2>1, Zenon DEF Moves
  <2> QED
    BY <1>c, <1>t, <2>1, <2>2, Zenon
<1>g. ASSUME NEW p, NEW place, At(t, p), Goto(t, place), NotTransactional, UNCHANGED noted
      PROVE  /\ Steps(t) /\ Moves(t, place) /\ Running /\ pc[t] = p
             /\ place # "idle" => op'[t] = op[t] /\ arg'[t] = arg[t]
  <2>1. Running /\ pc[t] = p
    BY <1>g DEF At
  <2> QED
    BY <1>g, <1>t, <2>1, GotoMoves
<1>o. {"acquire", "exchange"} \subseteq Busy /\ Statements \subseteq Ops /\ NoArg \in Ops
      /\ "Restore" \in Ops /\ "PrepareStep" \notin Statements /\ NoArg # "PrepareStep"
  BY DEF Busy, Ops, Statements, NoArg
<1>l. Running /\ UNCHANGED <<conn, connectionUseCount>> => Linked(t, 0)
  BY LinkFacts, Zenon
<1>1. ASSUME NEW o \in Statements, CallStatement(t, o) PROVE Begins(t) /\ Steps(t)
  <2>1. /\ Steps(t) /\ Moves(t, "acquire") /\ pc[t] = "idle" /\ SessionLeft(t) /\ op'[t] = o
        /\ Running
    BY <1>1, <1>c, <1>o, SMTT(30) DEF CallStatement
  <2>2. SetSessions(GetThreadSession(t)) /\ UNCHANGED <<conn, connectionUseCount>> /\ Same
    BY <1>1 DEF CallStatement, poolVars, Same
  <2>3. Turns(t, 1) /\ Linked(t, 0)
    BY <1>l, <2>1, <2>2, TurnFacts, Zenon
  <2> QED
    BY <1>o, <2>1, <2>2, <2>3, Zenon DEF Begins
<1>a. ASSUME NEW b \in BOOLEAN, NEW place \in {"execute", "run"}, AcquireConnection(Session(t), b),
             At(t, IF place = "execute" THEN "acquire" ELSE "exchange"),
             Goto(t, IF conn'[Session(t)] = Null THEN "crashed" ELSE place),
             NotTransactional, UNCHANGED <<threadMap, idleSessions, isInStepQuery, resultSet, noted>>
      PROVE  Acquires(t) /\ Steps(t)
  <2> DEFINE p == IF place = "execute" THEN "acquire" ELSE "exchange"
             q == IF conn'[Session(t)] = Null THEN "crashed" ELSE place
  <2>1. /\ Steps(t) /\ Moves(t, q) /\ Running /\ pc[t] = p
        /\ q # "idle" => op'[t] = op[t] /\ arg'[t] = arg[t]
    <3>1. At(t, p) /\ Goto(t, q) /\ NotTransactional /\ UNCHANGED noted
      BY <1>a, Zenon
    <3> HIDE DEF p, q
    <3> QED
      BY <1>g, <3>1, Zenon
  <2>2. pc[t] \in {"acquire", "exchange"} /\ q \in {"execute", "run", "crashed"}
    BY <2>1, Zenon
  <2>3. Own(t) = Session(t) /\ Own(t) \in Sessions
    BY <1>o, <2>2, SessionFacts, Zenon
  <2>4. conn'[Own(t)] = Null => ~Running'
    <3>1. ASSUME conn'[Session(t)] = Null PROVE pc'[t] = "crashed"
      BY <2>1, <3>1, Zenon DEF Moves, CallInv
    <3> QED
      BY <2>3, <3>1, Zenon DEF Running
  <2>5. Linked(t, 1)
    BY <1>a, <2>1, <2>3, <2>4, LinkFacts, Zenon
  <2>6. Turns(t, 0)
    BY <1>a, TurnFacts, UnchangedSessions, Zenon
  <2>7. q \in {IF pc[t] = "acquire" THEN "execute" ELSE "run", "crashed"}
    BY <2>1, <2>2, Zenon
  <2>8. Same /\ op'[t] = op[t] /\ arg'[t] = arg[t]
    BY <1>a, <2>1, <2>2, Zenon DEF Same
  <2> HIDE DEF p, q
  <2> QED
    BY <2>1, <2>2, <2>5, <2>6, <2>7, <2>8, Zenon DEF Acquires
<1>2. ASSUME Acquire(t) PROVE Acquires(t) /\ Steps(t)
  <2>1. (IsSqlReadOnly(op[t]) \/ op[t] = "PrepareStep") \in BOOLEAN
    BY DEF IsSqlReadOnly
  <2> QED
    BY <1>2, <1>a, <2>1, Zenon DEF Acquire
<1>3. ASSUME Exchange(t) PROVE Acquires(t) /\ Steps(t)
  <2>1. IsReadOnlyStatement(op[t]) \in BOOLEAN
    BY DEF IsReadOnlyStatement
  <2> QED
    BY <1>3, <1>a, <2>1 DEF Exchange
<1>e. ASSUME NEW p \in {"execute", "run"}, At(t, p), NotTransactional,
             UNCHANGED <<isInStepQuery, resultSet, noted>>,
             NEW place \in {"idle", "exchange", "reopen"}, FinishStatement(t, place)
      PROVE  Ends(t) /\ Steps(t)
  <2>1. Goto(t, place) /\ Same
    BY <1>e DEF FinishStatement, Same
  <2>2. Steps(t) /\ Running /\ pc[t] = p
    BY <1>e, <1>g, <2>1, Zenon
  <2> QED
    BY <1>e, <2>1, <2>2, EndKinds, SMTT(30)
<1>4. ASSUME ExecuteStatement(t) PROVE Ends(t) /\ Steps(t)
  <2>1. \E place \in {"idle", "exchange", "reopen"} : FinishStatement(t, place)
    BY <1>4, Zenon DEF ExecuteStatement
  <2> QED
    BY <1>4, <1>e, <2>1, Zenon DEF ExecuteStatement
<1>5. ASSUME RunExchanged(t) PROVE Ends(t) /\ Steps(t)
  <2>1. \E place \in {"idle", "exchange", "reopen"} : FinishStatement(t, place)
    BY <1>5 DEF RunExchanged
  <2> QED
    BY <1>5, <1>e, <2>1, SMTT(30) DEF RunExchanged
<1>6. ASSUME ReopenAfterDdl(t) PROVE Reopens(t) /\ Steps(t)
  <2>1. Steps(t) /\ Moves(t, "idle") /\ Running /\ pc[t] = "reopen"
    BY <1>6, <1>g, Zenon DEF ReopenAfterDdl
  <2>2. UNCHANGED <<conn, connectionUseCount>> /\ Same
    BY <1>6, PoolConn, Zenon DEF ReopenAfterDdl, Same
  <2>3. Turns(t, -1)
    BY <1>6, TurnFacts, Zenon DEF ReopenAfterDdl
  <2> QED
    BY <1>l, <2>1, <2>2, <2>3, Zenon DEF Reopens
<1>7. ASSUME IsHoldingConnection(t) PROVE Begins(t) /\ Steps(t)
  <2>1. /\ Steps(t) /\ Moves(t, "idle") /\ pc[t] = "idle" /\ SessionLeft(t) /\ op'[t] = NoArg
        /\ Running
    BY <1>7, <1>c, <1>o, Zenon DEF IsHoldingConnection
  <2>2. SetSessions(GetThreadSession(t)) /\ UNCHANGED <<conn, connectionUseCount>> /\ Same
    BY <1>7, Zenon DEF IsHoldingConnection, poolVars, Same
  <2>3. Turns(t, 1) /\ Linked(t, 0)
    BY <1>l, <2>1, <2>2, TurnFacts, Zenon
  <2> QED
    BY <1>o, <2>1, <2>2, <2>3, Zenon DEF Begins
<1>8. ASSUME CallChangeEncryptKey(t) \/ CallRestore(t) PROVE Passes(t) /\ Steps(t)
  <2>1. \E place \in {"idle", "close"} :
           Steps(t) /\ Moves(t, place) /\ pc[t] = "idle" /\ Running
    BY <1>8, <1>c, <1>o, Zenon DEF CallChangeEncryptKey, CallRestore
  <2>2. UNCHANGED <<conn, connectionUseCount>> /\ Same /\ UNCHANGED <<threadMap, idleSessions>>
    BY <1>8, PoolConn, Zenon DEF CallChangeEncryptKey, CallRestore, sessionVars, poolVars, Same
  <2>3. Turns(t, 0)
    BY <2>2, TurnFacts, UnchangedSessions, Zenon
  <2> QED
    BY <1>l, <2>1, <2>2, <2>3, Zenon DEF Passes
<1>9. ASSUME Restore(t) PROVE Passes(t) /\ Steps(t)
  <2>1. \E p \in {"close", "open"}, place \in {"open", "idle"} : At(t, p) /\ Goto(t, place)
    BY <1>9, Zenon DEF Restore
  <2>2. \E p \in {"close", "open"}, place \in {"open", "idle"} :
           Steps(t) /\ Moves(t, place) /\ Running /\ pc[t] = p
    BY <1>9, <1>g, <2>1, Zenon DEF Restore
  <2>3. UNCHANGED <<conn, connectionUseCount>> /\ Same /\ UNCHANGED <<threadMap, idleSessions>>
    BY <1>9, PoolConn, Zenon DEF Restore, sessionVars, Same
  <2>4. Turns(t, 0)
    BY <2>3, TurnFacts, UnchangedSessions
  <2> QED
    BY <1>l, <2>2, <2>3, <2>4, Zenon DEF Passes
<1> QED
  BY <1>1, <1>2, <1>3, <1>4, <1>5, <1>6, <1>7, <1>8, <1>9, Zenon

(* The stack stays one, whatever is done to it.                                *)
LEMMA StackTypes ==
    ASSUME Store
    PROVE  /\ transactionStack \in Seq(Transactions) /\ Popped \in Seq(Transactions)
           /\ \A k \in Sessions \cup {NoSession} :
                 Append(transactionStack, BaseTransaction(Len(transactionStack), k))
                    \in Seq(Transactions)
           /\ transactionStack # <<>> => Top.id \in Nat /\ MarkTop \in Seq(Transactions)
           /\ Len(transactionStack) > 1 => EndTop \in Seq(Transactions)
           /\ <<>> \in Seq(Transactions)
<1>1. transactionStack \in Seq(Transactions)
  BY DEF Store, StoreTypes, CallTypes
<1>2. /\ transactionStack # <<>> => MarkTop \in Seq(Transactions)
      /\ Len(transactionStack) > 1 => EndTop \in Seq(Transactions)
  BY <1>1, MarkFacts
<1>3. /\ Popped \in Seq(Transactions)
      /\ \A k \in Sessions \cup {NoSession} :
            Append(transactionStack, BaseTransaction(Len(transactionStack), k)) \in Seq(Transactions)
      /\ transactionStack # <<>> => Top \in Transactions
  BY <1>1, StackFacts, Zenon
<1>4. Top \in Transactions => Top.id \in Nat
  BY DEF Transactions
<1>5. <<>> \in Seq(Transactions)
  OBVIOUS
<1> QED
  BY <1>1, <1>2, <1>3, <1>4, <1>5, Zenon

(* What a call of a transaction function has in common with the others.        *)
LEMMA CallCommon ==
    ASSUME Store, NEW t \in Threads, NEW o \in TransactionCalls, NEW place, NEW a,
           Call(t, o, place, a), Note(t, o), NEW n \in Int, NEW b \in BOOLEAN, Count(t, n, b),
           a \in Nat \cup {NoArg} \/ place = "idle", transactionStack' \in Seq(Transactions)
    PROVE  /\ Steps(t) /\ Moves(t, place) /\ Running /\ pc[t] = "idle" /\ SessionLeft(t)
           /\ op'[t] # "PrepareStep" /\ (place # "idle" => op'[t] = o)
           /\ isInStepQuery[Own(t)] => "inStepQuery" \in noted'
           /\ /\ SetSessions(GetThreadSession(t)) /\ UNCHANGED <<conn, connectionUseCount>> /\ Same
              /\ place \in {"idle", "acquire", "pop", "crashed"}
              => Begins(t)
<1>1. /\ Moves(t, place) /\ Running /\ pc[t] = "idle" /\ SessionLeft(t)
      /\ place # "idle" => op'[t] = o
      /\ op' \in [Threads -> Ops] /\ arg' \in [Threads -> ResultSets \cup Nat \cup {NoArg}]
  BY CallMoves DEF Store, Ops
<1>2. noted \subseteq noted' /\ (isInStepQuery[Own(t)] => "inStepQuery" \in noted')
  BY Zenon DEF Note, Own
<1>3. op'[t] # "PrepareStep"
  BY <1>1, Zenon DEF Moves, TransactionCalls, NoArg
<1>4. depth' \in Nat /\ owner' \in Threads \cup {NoThread}
  BY CountFacts DEF Store, StoreTypes, CallTypes
<1>5. Steps(t)
  BY <1>1, <1>2, <1>4, Zenon DEF Steps, CallTypes
<1>6. ASSUME SetSessions(GetThreadSession(t)), UNCHANGED <<conn, connectionUseCount>>, Same,
             place \in {"idle", "acquire", "pop", "crashed"}
      PROVE  Begins(t)
  <2>1. Turns(t, 1) /\ Linked(t, 0)
    BY <1>1, <1>6, TurnFacts, LinkFacts, Zenon DEF Store
  <2> QED
    BY <1>1, <1>3, <1>6, <2>1, Zenon DEF Begins
<1> QED
  BY <1>1, <1>2, <1>3, <1>5, <1>6, ZenonT(30)

(* ... and what the step that ends it has.                                     *)
LEMMA EndCommon ==
    ASSUME Store, NEW t \in Threads, NEW p, At(t, p), NEW place, Goto(t, place), UNCHANGED noted,
           NEW n \in Int, NEW b \in BOOLEAN, Count(t, n, b), transactionStack' \in Seq(Transactions)
    PROVE  Steps(t) /\ Running /\ pc[t] = p /\ Moves(t, place)
<1>1. /\ Moves(t, place) /\ op' \in [Threads -> Ops]
      /\ arg' \in [Threads -> ResultSets \cup Nat \cup {NoArg}]
  BY GotoMoves, Zenon DEF Store
<1>2. Running /\ pc[t] = p
  BY Zenon DEF At
<1>3. depth' \in Nat /\ owner' \in Threads \cup {NoThread}
  BY CountFacts DEF Store, StoreTypes, CallTypes
<1> QED
  BY <1>1, <1>2, <1>3, Zenon DEF Steps, CallTypes

(* A call that gives back its connection ends.                              *)
LEMMA EndCallKind ==
    ASSUME Store, NEW t \in Threads, At(t, "execute"),
           NEW place \in {"idle", "pop"}, NEW fails \in BOOLEAN, EndCall(t, place, fails),
           fails => place = "idle",
           NEW n \in Int, NEW b \in BOOLEAN, Count(t, n, b), transactionStack' \in Seq(Transactions)
    PROVE  Ends(t) /\ Steps(t)
<1>1. Goto(t, place) /\ UNCHANGED noted
  BY Zenon DEF EndCall
<1>2. Steps(t) /\ Running /\ pc[t] = "execute"
  BY <1>1, EndCommon, Zenon
<1> QED
  BY <1>2, EndKinds, Zenon

(* So does one that fails.                                                  *)
LEMMA FailKind ==
    ASSUME Store, NEW t \in Threads, At(t, "execute"), Fail(t)
    PROVE  Ends(t) /\ Steps(t)
<1>1. EndCall(t, "idle", TRUE) /\ Count(t, 0, TRUE) /\ UNCHANGED transactionStack
  BY Zenon DEF Fail
<1>2. transactionStack \in Seq(Transactions) /\ 0 \in Int /\ TRUE \in BOOLEAN
  BY StackTypes, SMTT(30)
<1> QED
  BY <1>1, <1>2, EndCallKind, Zenon

(* The kinds of the steps of transactions without an observer ...           *)
LEMMA TransactionKinds ==
    ASSUME Store, NEW t \in Threads
    PROVE  /\ CallBeginTransaction(t) => Begins(t) /\ Steps(t)
           /\ BeginTransaction(t) => Ends(t) /\ Steps(t)
           /\ CallCommit(t) => Begins(t) /\ Steps(t)
           /\ Commit(t) => Ends(t) /\ Steps(t)
           /\ PopAfterCommit(t) => Passes(t) /\ Steps(t)
           /\ CallRollBack(t) => (Begins(t) \/ Passes(t)) /\ Steps(t)
           /\ RollBack(t) => Ends(t) /\ Steps(t)
<1>0. /\ transactionStack \in Seq(Transactions) /\ Popped \in Seq(Transactions)
      /\ Append(transactionStack, BaseTransaction(Len(transactionStack), NoSession)) \in Seq(Transactions)
      /\ transactionStack # <<>> => Top.id \in Nat
      /\ 0 \in Int /\ 1 \in Int /\ -1 \in Int /\ TRUE \in BOOLEAN /\ FALSE \in BOOLEAN
  BY StackTypes
<1>c. {"BeginTransaction", "Commit", "RollBack"} \subseteq TransactionCalls
  BY Zenon DEF TransactionCalls
<1>1. ASSUME CallBeginTransaction(t) PROVE Begins(t) /\ Steps(t)
  <2>1. UNCHANGED <<conn, connectionUseCount>> /\ Same
    BY <1>1, Zenon DEF CallBeginTransaction, poolVars, Same
  <2>2. /\ Call(t, "BeginTransaction", "acquire", NoArg) /\ Note(t, "BeginTransaction")
        /\ Count(t, 0, FALSE) /\ transactionStack' \in Seq(Transactions)
        /\ SetSessions(GetThreadSession(t))
    BY <1>0, <1>1, Zenon DEF CallBeginTransaction
  <2> QED
    BY <1>0, <1>c, <2>1, <2>2, CallCommon, Zenon
<1>2. ASSUME BeginTransaction(t) PROVE Ends(t) /\ Steps(t)
  <2>1. At(t, "execute") /\ TRUE \in BOOLEAN /\ FALSE \in BOOLEAN
    BY <1>2, Zenon DEF BeginTransaction
  <2>2. CASE Fail(t)
    BY <2>1, <2>2, FailKind, Zenon
  <2>3. CASE ~Fail(t)
    <3>1. /\ EndCall(t, "idle", FALSE) /\ transactionStack' \in Seq(Transactions)
          /\ Count(t, 1, TRUE) \/ Count(t, 0, TRUE)
      BY <1>0, <1>2, <2>3, Zenon DEF BeginTransaction
    <3> QED
      BY <1>0, <2>1, <3>1, EndCallKind, Zenon
  <2> QED
    BY <2>2, <2>3
<1>3. ASSUME CallCommit(t) PROVE Begins(t) /\ Steps(t)
  <2>1. UNCHANGED <<conn, connectionUseCount>> /\ Same
    BY <1>3, Zenon DEF CallCommit, poolVars, Same
  <2>2. /\ Note(t, "Commit") /\ transactionStack' \in Seq(Transactions)
        /\ SetSessions(GetThreadSession(t))
        /\ \/ Call(t, "Commit", "idle", NoArg) /\ Count(t, 0, TRUE)
           \/ Call(t, "Commit", "acquire", NoArg) /\ Count(t, 0, FALSE)
           \/ Call(t, "Commit", "pop", NoArg) /\ Count(t, 0, FALSE)
    BY <1>0, <1>3, Zenon DEF CallCommit
  <2> QED
    BY <1>0, <1>c, <2>1, <2>2, CallCommon, Zenon
<1>4. ASSUME Commit(t) PROVE Ends(t) /\ Steps(t)
  <2>1. At(t, "execute") /\ TRUE \in BOOLEAN /\ FALSE \in BOOLEAN
    BY <1>4, Zenon DEF Commit
  <2>2. CASE Fail(t)
    BY <2>1, <2>2, FailKind
  <2>3. CASE ~Fail(t)
    <3>1. /\ EndCall(t, "pop", FALSE) /\ transactionStack' \in Seq(Transactions)
          /\ Count(t, 0, FALSE)
      BY <1>0, <1>4, <2>3, Zenon DEF Commit
    <3> QED
      BY <1>0, <2>1, <3>1, EndCallKind, Zenon
  <2> QED
    BY <2>2, <2>3
<1>5. ASSUME PopAfterCommit(t) PROVE Passes(t) /\ Steps(t)
  <2>1. /\ At(t, "pop") /\ Goto(t, "idle") /\ UNCHANGED noted /\ Count(t, -1, TRUE)
        /\ transactionStack' \in Seq(Transactions) /\ TRUE \in BOOLEAN
    BY <1>0, <1>5, Zenon DEF PopAfterCommit
  <2>2. Steps(t) /\ Running /\ pc[t] = "pop" /\ Moves(t, "idle")
    BY <1>0, <2>1, EndCommon, Zenon
  <2>3. UNCHANGED <<conn, connectionUseCount>> /\ Same /\ UNCHANGED <<threadMap, idleSessions>>
    BY <1>5 DEF PopAfterCommit, poolVars, sessionVars, Same
  <2>4. Turns(t, 0) /\ Linked(t, 0)
    BY <2>2, <2>3, TurnFacts, UnchangedSessions, LinkFacts, Zenon DEF Store
  <2> QED
    BY <2>2, <2>3, <2>4 DEF Passes
<1>6. ASSUME CallRollBack(t) PROVE (Begins(t) \/ Passes(t)) /\ Steps(t)
  <2>1. UNCHANGED <<conn, connectionUseCount>> /\ Same
    BY <1>6, Zenon DEF CallRollBack, poolVars, Same
  <2>2. CASE transactionStack = <<>>
    <3>1. /\ Call(t, "RollBack", "idle", Top.id) /\ Note(t, "RollBack") /\ Count(t, 0, TRUE)
          /\ transactionStack' \in Seq(Transactions)
          /\ SetSessions(ReleaseThreadSession(GetThreadSession(t), t, 1))
      BY <1>0, <1>6, <2>2, Zenon DEF CallRollBack
    <3>2. Steps(t) /\ Moves(t, "idle") /\ Running /\ pc[t] = "idle" /\ SessionLeft(t)
      BY <1>0, <1>c, <3>1, CallCommon, Zenon
    <3>3. Turns(t, 0) /\ Linked(t, 0)
      BY <2>1, <3>1, <3>2, TurnFacts, LinkFacts, Zenon DEF Store
    <3> QED
      BY <2>1, <3>2, <3>3, Zenon DEF Passes
  <2>3. CASE transactionStack # <<>>
    <3>1. /\ Call(t, "RollBack", "acquire", Top.id) /\ Note(t, "RollBack") /\ Count(t, 0, FALSE)
          /\ transactionStack' \in Seq(Transactions) /\ Top.id \in Nat
          /\ SetSessions(GetThreadSession(t))
      BY <1>0, <1>6, <2>3, Zenon DEF CallRollBack
    <3> QED
      BY <1>0, <1>c, <2>1, <3>1, CallCommon, Zenon
  <2> QED
    BY <2>2, <2>3, Zenon
<1>7. ASSUME RollBack(t) PROVE Ends(t) /\ Steps(t)
  <2>1. At(t, "execute") /\ TRUE \in BOOLEAN /\ FALSE \in BOOLEAN
    BY <1>7, Zenon DEF RollBack
  <2>2. CASE Fail(t)
    BY <2>1, <2>2, FailKind
  <2>3. CASE ~Fail(t)
    <3>1. /\ EndCall(t, "idle", FALSE) /\ transactionStack' \in Seq(Transactions)
          /\ Count(t, -1, TRUE)
      BY <1>0, <1>7, <2>3, Zenon DEF RollBack
    <3> QED
      BY <1>0, <2>1, <3>1, EndCallKind, Zenon
  <2> QED
    BY <2>2, <2>3
<1> QED
  BY <1>1, <1>2, <1>3, <1>4, <1>5, <1>6, <1>7, SMTT(30)

(* ... of those with an observer ...                                        *)
LEMMA ObserverKinds ==
    ASSUME Store, NEW t \in Threads
    PROVE  /\ CallBeginTransactionWithObserver(t) => Begins(t) /\ Steps(t)
           /\ BeginTransactionWithObserver(t) => (Keeps(t) \/ Ends(t)) /\ Steps(t)
           /\ MarkAsCommit(t) => Passes(t) /\ Steps(t)
           /\ EndTransaction(t) => Leaves(t) /\ Steps(t)
           /\ GiveConnectionTemporarily(t) => (Leaves(t) \/ Begins(t)) /\ Steps(t)
<1>0. /\ transactionStack \in Seq(Transactions) /\ <<>> \in Seq(Transactions)
      /\ 0 \in Int /\ 1 \in Int /\ -1 \in Int /\ TRUE \in BOOLEAN /\ FALSE \in BOOLEAN
  BY StackTypes
<1>1. ASSUME CallBeginTransactionWithObserver(t) PROVE Begins(t) /\ Steps(t)
  <2> DEFINE o == "BeginTransactionWithObserver"
  <2>1. UNCHANGED <<conn, connectionUseCount>> /\ Same /\ SetSessions(GetThreadSession(t))
    BY <1>1, Zenon DEF CallBeginTransactionWithObserver, poolVars, Same
  <2>2. \E place \in {"acquire", "idle"} : Call(t, o, place, NoArg)
    BY <1>1, Zenon DEF CallBeginTransactionWithObserver
  <2>3. Note(t, o) /\ o \in TransactionCalls
    BY <1>1, Zenon DEF CallBeginTransactionWithObserver, TransactionCalls
  <2>4. transactionStack' \in Seq(Transactions) /\ (Count(t, 0, FALSE) \/ Count(t, 1, TRUE))
    BY <1>1, StackTypes, Zenon DEF CallBeginTransactionWithObserver
  <2>5. \E place \in {"acquire", "idle"} :
           /\ Steps(t) /\ Moves(t, place) /\ Running /\ pc[t] = "idle" /\ SessionLeft(t)
           /\ op'[t] # "PrepareStep"
    BY <1>0, <2>2, <2>3, <2>4, CallCommon, Zenon
  <2>6. Turns(t, 1) /\ Linked(t, 0)
    BY <2>1, <2>5, TurnFacts, LinkFacts, Zenon DEF Store
  <2> QED
    BY <2>1, <2>5, <2>6, Zenon DEF Begins
<1>2. ASSUME BeginTransactionWithObserver(t) PROVE (Keeps(t) \/ Ends(t)) /\ Steps(t)
  <2>1. At(t, "execute")
    BY <1>2 DEF BeginTransactionWithObserver
  <2>2. CASE Fail(t)
    BY <2>1, <2>2, FailKind, Zenon
  <2>3. CASE ~Fail(t)
    <3>1. /\ Goto(t, "idle") /\ Count(t, 1, TRUE) /\ UNCHANGED noted
          /\ transactionStack' = Append(transactionStack,
                                        BaseTransaction(Len(transactionStack), Session(t)))
      BY <1>2, <2>3, Zenon DEF BeginTransactionWithObserver
    <3>2. UNCHANGED <<conn, connectionUseCount>> /\ Same /\ UNCHANGED <<threadMap, idleSessions>>
      BY <1>2, <2>3, Zenon DEF BeginTransactionWithObserver, EndCall, Fail, poolVars, sessionVars, Same
    <3>3. Session(t) \in Sessions
      BY <2>1 DEF At, Store, CallInv, Busy
    <3>4. transactionStack' \in Seq(Transactions)
      BY <3>1, <3>3, StackTypes
    <3>5. Steps(t) /\ Running /\ pc[t] = "execute" /\ Moves(t, "idle")
      BY <1>0, <2>1, <3>1, <3>4, EndCommon, Zenon
    <3>6. Turns(t, 0) /\ Linked(t, 0)
      BY <3>2, <3>5, TurnFacts, UnchangedSessions, LinkFacts, SMTT(30) DEF Store
    <3> QED
      BY <3>2, <3>5, <3>6, Zenon DEF Keeps
  <2> QED
    BY <2>2, <2>3, Zenon
<1>3. ASSUME MarkAsCommit(t) PROVE Passes(t) /\ Steps(t)
  <2>1. UNCHANGED <<conn, connectionUseCount>> /\ Same
    BY <1>3, Zenon DEF MarkAsCommit, poolVars, Same
  <2>2. /\ Call(t, NoArg, "idle", NoArg) /\ UNCHANGED <<depth, owner, noted>>
        /\ SetSessions(ReleaseThreadSession(GetThreadSession(t), t, 1))
    BY <1>3, Zenon DEF MarkAsCommit
  <2>3. transactionStack' \in Seq(Transactions)
    BY <1>0, <1>3, StackTypes, Zenon DEF MarkAsCommit
  <2>4. /\ Moves(t, "idle") /\ Running /\ pc[t] = "idle" /\ SessionLeft(t)
        /\ op' \in [Threads -> Ops] /\ arg' \in [Threads -> ResultSets \cup Nat \cup {NoArg}]
    BY <2>2, CallMoves, Zenon DEF Store, Ops
  <2>5. Steps(t)
    BY <2>2, <2>3, <2>4, Zenon DEF Steps, CallTypes, Store, StoreTypes
  <2>6. Turns(t, 0) /\ Linked(t, 0)
    BY <2>1, <2>2, <2>4, TurnFacts, LinkFacts, Zenon DEF Store
  <2> QED
    BY <2>1, <2>4, <2>5, <2>6, Zenon DEF Passes
<1>o. SessionLeft(t) => Own(t) \in Sessions
  BY SessionFacts, Zenon DEF Store
<1>4. ASSUME EndTransaction(t) PROVE Leaves(t) /\ Steps(t)
  <2>1. \E place \in {"crashed", "idle"} : Call(t, "EndTransaction", place, NoArg)
    BY <1>4, Zenon DEF EndTransaction
  <2>2. /\ SetSessions(ReleaseThreadSession(GetThreadSession(t), t, 2))
        /\ Note(t, "EndTransaction") /\ Same
    BY <1>4, Zenon DEF EndTransaction, Same
  <2>3. \/ EndOutermost(t, Own(t), TRUE)
        \/ /\ transactionStack' = IF Len(transactionStack) > 1 THEN EndTop ELSE <<>>
           /\ Count(t, IF Len(transactionStack) > 1 THEN -1 ELSE 0, TRUE)
           /\ UNCHANGED <<poolVars, connectionUseCount>>
    BY <1>4, Zenon DEF EndTransaction, Own
  <2>4. /\ ReleaseConnection(Own(t)) \/ UNCHANGED <<conn, connectionUseCount>>
        /\ transactionStack' = <<>> \/ (Len(transactionStack) > 1 /\ transactionStack' = EndTop)
        /\ Count(t, -1, TRUE) \/ Count(t, 0, TRUE)
    BY <2>3, Zenon DEF EndOutermost, poolVars
  <2>5. transactionStack' \in Seq(Transactions)
    BY <1>0, <2>4, StackTypes, Zenon
  <2>6. \E place \in {"crashed", "idle"} :
           /\ Steps(t) /\ Moves(t, place) /\ Running /\ pc[t] = "idle" /\ SessionLeft(t)
           /\ isInStepQuery[Own(t)] => "inStepQuery" \in noted'
    BY <1>0, <2>1, <2>2, <2>4, <2>5, CallCommon, Zenon DEF TransactionCalls
  <2>7. Turns(t, -1) /\ (Linked(t, -1) \/ Linked(t, 0))
    BY <1>o, <2>2, <2>4, <2>6, TurnFacts, LinkFacts, Zenon DEF Store
  <2> QED
    BY <2>2, <2>6, <2>7, Zenon DEF Leaves
<1>5. ASSUME GiveConnectionTemporarily(t) PROVE (Leaves(t) \/ Begins(t)) /\ Steps(t)
  <2> DEFINE o == "GiveConnectionTemporarily"
  <2>1. SetSessions(GetThreadSession(t)) /\ Note(t, o) /\ Same /\ o \in TransactionCalls
    BY <1>5, Zenon DEF GiveConnectionTemporarily, Same, TransactionCalls
  <2>2. \/ Call(t, o, "acquire", NoArg) /\ EndOutermost(t, Own(t), FALSE)
        \/ /\ \E place \in {"idle", "crashed"} : Call(t, o, place, NoArg)
           /\ Count(t, 0, TRUE) /\ UNCHANGED <<poolVars, connectionUseCount, transactionStack>>
    BY <1>5, Zenon DEF GiveConnectionTemporarily, Own
  <2>3. CASE Call(t, o, "acquire", NoArg) /\ EndOutermost(t, Own(t), FALSE)
    <3>1. /\ ReleaseConnection(Own(t)) /\ transactionStack' \in Seq(Transactions)
          /\ Count(t, -1, FALSE) \/ Count(t, 0, FALSE)
      BY <1>0, <2>3, Zenon DEF EndOutermost
    <3>2. /\ Steps(t) /\ Moves(t, "acquire") /\ Running /\ pc[t] = "idle" /\ SessionLeft(t)
          /\ isInStepQuery[Own(t)] => "inStepQuery" \in noted'
          /\ "acquire" # "idle" => op'[t] = o
      BY <1>0, <2>1, <2>3, <3>1, CallCommon, Zenon
    <3>3. Turns(t, 1) /\ Linked(t, -1)
      BY <1>o, <2>1, <3>1, <3>2, TurnFacts, LinkFacts, Zenon DEF Store
    <3> QED
      BY <2>1, <3>2, <3>3, Zenon DEF Leaves
  <2>4. CASE /\ \E place \in {"idle", "crashed"} : Call(t, o, place, NoArg)
             /\ Count(t, 0, TRUE) /\ UNCHANGED <<poolVars, connectionUseCount, transactionStack>>
    <3>1. UNCHANGED <<conn, connectionUseCount>> /\ transactionStack' \in Seq(Transactions)
      BY <1>0, <2>4, Zenon DEF poolVars
    <3>2. \E place \in {"idle", "crashed"} :
             /\ Steps(t) /\ Moves(t, place) /\ Running /\ pc[t] = "idle" /\ SessionLeft(t)
             /\ op'[t] # "PrepareStep"
      BY <1>0, <2>1, <2>4, <3>1, CallCommon, Zenon
    <3>3. Turns(t, 1) /\ Linked(t, 0)
      BY <2>1, <3>1, <3>2, TurnFacts, LinkFacts, Zenon DEF Store
    <3> QED
      BY <2>1, <3>2, <3>3, Zenon DEF Begins
  <2> QED
    BY <2>2, <2>3, <2>4, Zenon
<1> QED
  BY <1>1, <1>2, <1>3, <1>4, <1>5, Zenon

(* ... and of step result sets.                                             *)
LEMMA StepKinds ==
    ASSUME Store, NEW t \in Threads
    PROVE  /\ \A r \in ResultSets :
                 /\ CallPrepareStep(t, r) => Begins(t) /\ Steps(t)
                 /\ PrepareSecondStep(t, r) => Refuses(t) /\ Steps(t)
                 /\ CloseInOtherThread(t, r) => Closes(t) /\ Steps(t)
                 /\ \A closes \in BOOLEAN : FinishStep(t, r, closes) => Finishes(t) /\ Steps(t)
           /\ PrepareStep(t) => (Prepares(t) \/ Ends(t)) /\ Steps(t)
<1>t. ASSUME NotTransactional, op' \in [Threads -> Ops], noted \subseteq noted', Running,
             arg' \in [Threads -> ResultSets \cup Nat \cup {NoArg}]
      PROVE  Steps(t)
  BY <1>t, Zenon DEF Steps, NotTransactional, Store, StoreTypes, CallTypes
<1>o. SessionLeft(t) => Own(t) \in Sessions
  BY SessionFacts, Zenon DEF Store
<1>1. ASSUME NEW r \in ResultSets, CallPrepareStep(t, r) PROVE Begins(t) /\ Steps(t)
  <2>1. /\ Call(t, "PrepareStep", "acquire", r) /\ NotTransactional /\ UNCHANGED noted
        /\ SetSessions(GetThreadSession(t)) /\ Same /\ UNCHANGED <<conn, connectionUseCount>>
    BY <1>1, Zenon DEF CallPrepareStep, Same, poolVars
  <2>2. NotInUse(r) /\ resultSet[r].statement = Null /\ ~isInStepQuery[Own(t)]
    BY <1>1, ZenonT(30) DEF CallPrepareStep, Own
  <2>3. /\ Moves(t, "acquire") /\ Running /\ pc[t] = "idle" /\ SessionLeft(t)
        /\ op'[t] = "PrepareStep" /\ arg'[t] = r
        /\ op' \in [Threads -> Ops] /\ arg' \in [Threads -> ResultSets \cup Nat \cup {NoArg}]
    BY <2>1, CallMoves DEF Store, Ops
  <2>4. Turns(t, 1) /\ Linked(t, 0)
    BY <2>1, <2>3, TurnFacts, LinkFacts, Zenon DEF Store
  <2> QED
    BY <1>t, <2>1, <2>2, <2>3, <2>4, Zenon DEF Begins
<1>2. ASSUME NEW r \in ResultSets, PrepareSecondStep(t, r) PROVE Refuses(t) /\ Steps(t)
  <2>1. /\ Call(t, "PrepareStep", "idle", NoArg) /\ NotTransactional
        /\ noted' = noted \cup {"secondStepQuery"} /\ UNCHANGED <<threadMap, idleSessions, resultSet>>
    BY <1>2, Zenon DEF PrepareSecondStep
  <2>2. /\ Moves(t, "idle") /\ Running /\ pc[t] = "idle"
        /\ op' \in [Threads -> Ops] /\ arg' \in [Threads -> ResultSets \cup Nat \cup {NoArg}]
    BY <2>1, CallMoves, Zenon DEF Store, Ops
  <2>3. Session(t) # NoSession /\ Own(t) = Session(t) /\ Own(t) \in Sessions
    BY <1>2, SessionFacts, Zenon DEF PrepareSecondStep, Store
  <2>4. /\ isInStepQuery[Own(t)] /\ isInStepQuery' = [isInStepQuery EXCEPT ![Own(t)] = FALSE]
        /\ ReleaseConnection(Own(t))
    BY <1>2, <2>3, Zenon DEF PrepareSecondStep
  <2>5. Turns(t, 0) /\ Linked(t, -1)
    BY <2>1, <2>2, <2>3, <2>4, TurnFacts, UnchangedSessions, LinkFacts, Zenon DEF Store
  <2> QED
    BY <1>t, <2>1, <2>2, <2>3, <2>4, <2>5, Zenon DEF Refuses
<1>3. ASSUME NEW r \in ResultSets, CloseInOtherThread(t, r) PROVE Closes(t) /\ Steps(t)
  <2>1. /\ Call(t, NoArg, "idle", NoArg) /\ NotTransactional
        /\ noted' = noted \cup {"otherThread"}
        /\ resultSet' = [resultSet EXCEPT ![r].isClosed = TRUE]
    BY <1>3 DEF CloseInOtherThread
  <2>2. /\ Moves(t, "idle") /\ Running /\ pc[t] = "idle"
        /\ op' \in [Threads -> Ops] /\ arg' \in [Threads -> ResultSets \cup Nat \cup {NoArg}]
    BY <2>1, CallMoves DEF Store, Ops
  <2>3. UNCHANGED <<conn, connectionUseCount, isInStepQuery, threadMap, idleSessions>>
    BY <1>3, SMTT(30) DEF CloseInOtherThread, poolVars, sessionVars
  <2>4. Turns(t, 0) /\ Linked(t, 0)
    BY <2>2, <2>3, TurnFacts, UnchangedSessions, LinkFacts, SMTT(30) DEF Store
  <2> QED
    BY <1>t, <2>1, <2>2, <2>3, <2>4, Zenon DEF Closes
<1>4. ASSUME NEW r \in ResultSets, NEW closes \in BOOLEAN, FinishStep(t, r, closes)
      PROVE  Finishes(t) /\ Steps(t)
  <2>1. /\ Call(t, NoArg, "idle", NoArg) /\ NotTransactional /\ UNCHANGED noted
        /\ resultSet' = [resultSet EXCEPT ![r].statement = Null, ![r].isClosed = closes]
        /\ EndStepQuery(t)
    BY <1>4 DEF FinishStep
  <2>2. /\ Moves(t, "idle") /\ Running /\ pc[t] = "idle" /\ SessionLeft(t)
        /\ op' \in [Threads -> Ops] /\ arg' \in [Threads -> ResultSets \cup Nat \cup {NoArg}]
    BY <2>1, CallMoves DEF Store, Ops
  <2>3. r \in Opened(t)
    BY <1>4 DEF FinishStep, Opened
  <2>4. /\ SetSessions(ReleaseThreadSession(GetThreadSession(t), t, 2))
        /\ isInStepQuery' = [isInStepQuery EXCEPT ![Own(t)] = FALSE]
        /\ IF isInStepQuery[Own(t)] THEN ReleaseConnection(Own(t))
                                    ELSE UNCHANGED <<conn, connectionUseCount>>
    BY <2>1 DEF EndStepQuery, Own, poolVars
  <2>5. Turns(t, -1) /\ IF isInStepQuery[Own(t)] THEN Linked(t, -1) ELSE Linked(t, 0)
    BY <1>o, <2>2, <2>4, TurnFacts, LinkFacts, Zenon DEF Store
  <2>6. Steps(t)
    BY <1>t, <2>1, <2>2, Zenon
  <2> QED
    BY <2>1, <2>2, <2>3, <2>4, <2>5, <2>6, Zenon DEF Finishes
<1>5. ASSUME PrepareStep(t) PROVE (Prepares(t) \/ Ends(t)) /\ Steps(t)
  <2>1. /\ At(t, "execute") /\ op[t] = "PrepareStep" /\ Goto(t, "idle") /\ NotTransactional
        /\ UNCHANGED noted
    BY <1>5, Zenon DEF PrepareStep
  <2>2. /\ Moves(t, "idle") /\ Running /\ pc[t] = "execute"
        /\ op' \in [Threads -> Ops] /\ arg' \in [Threads -> ResultSets \cup Nat \cup {NoArg}]
    BY <2>1, GotoMoves, Zenon DEF Store, At
  <2>3. Own(t) = Session(t) /\ Own(t) \in Sessions
    BY <2>2, SessionFacts, Zenon DEF Store, Busy
  <2>4. \/ /\ isInStepQuery' = [isInStepQuery EXCEPT ![Session(t)] = TRUE]
           /\ resultSet' = [resultSet EXCEPT ![arg[t]] =
                               [tid |-> t, statement |-> conn[Session(t)], isClosed |-> FALSE]]
           /\ UNCHANGED <<conn, connectionUseCount, threadMap, idleSessions>>
        \/ /\ ReleaseConnection(Own(t)) /\ SetSessions(ReleaseThreadSession(Present, t, 1)) /\ Same
    BY <1>5, <2>3, Zenon DEF PrepareStep, poolVars, Same
  <2>5. UNCHANGED <<conn, connectionUseCount, threadMap, idleSessions>> => Turns(t, 0) /\ Linked(t, 0)
    BY <2>2, TurnFacts, UnchangedSessions, LinkFacts, Zenon DEF Store
  <2>6. ReleaseConnection(Own(t)) /\ SetSessions(ReleaseThreadSession(Present, t, 1))
           => Turns(t, -1) /\ Linked(t, -1)
    BY <2>2, <2>3, TurnFacts, LinkFacts, Zenon DEF Store
  <2>7. Steps(t)
    BY <1>t, <2>1, <2>2, Zenon
  <2> QED
    BY <2>1, <2>2, <2>4, <2>5, <2>6, <2>7, Zenon DEF Prepares, Ends
<1> QED
  BY <1>1, <1>2, <1>3, <1>4, <1>5, Zenon

-----------------------------------------------------------------------------
(* What the actions do to the transactions.                                  *)

(* Which operations on the stack change who keeps the connection, and by    *)
(* how much it grows.                                                       *)
LEMMA KeepersFacts ==
    ASSUME Store
    PROVE  /\ UNCHANGED transactionStack => StackKept
           /\ transactionStack # <<>> /\ transactionStack' = MarkTop => StackKept
           /\ transactionStack' = Append(transactionStack,
                                         BaseTransaction(Len(transactionStack), NoSession))
                 => Keepers' = Keepers /\ Len(transactionStack') = Len(transactionStack) + 1
           /\ \A k \in Sessions :
                 transactionStack' = Append(transactionStack,
                                            BaseTransaction(Len(transactionStack), k))
                 => /\ Len(transactionStack') = Len(transactionStack) + 1
                    /\ transactionStack = <<>> => Keepers' = {k}
           /\ transactionStack' = Popped => Keepers' \subseteq Keepers
           /\ Len(transactionStack) > 1 /\ transactionStack' = EndTop
                 => Keepers' = Keepers /\ Len(transactionStack') = Len(transactionStack) - 1
<1>0. transactionStack \in Seq(Transactions)
  BY Zenon DEF Store, StoreTypes, CallTypes
<1>1. UNCHANGED transactionStack => StackKept
  BY Zenon DEF StackKept, Keepers
<1>2. ASSUME transactionStack # <<>>, transactionStack' = MarkTop PROVE StackKept
  <2>1. Len(MarkTop) = Len(transactionStack) /\ MarkTop[1].keeper = transactionStack[1].keeper
    BY <1>0, <1>2, MarkFacts, Zenon
  <2>2. transactionStack' # <<>>
    <3>1. Len(transactionStack') > 0
      BY <1>0, <1>2, <2>1
    <3> QED
      BY <3>1
  <2> QED
    BY <1>2, <2>1, <2>2, Zenon DEF StackKept, Keepers
<1>3. ASSUME NEW k \in Sessions \cup {NoSession},
             transactionStack' = Append(transactionStack, BaseTransaction(Len(transactionStack), k))
      PROVE  /\ Len(transactionStack') = Len(transactionStack) + 1 /\ transactionStack' # <<>>
             /\ transactionStack # <<>> => transactionStack'[1] = transactionStack[1]
             /\ transactionStack = <<>> => transactionStack'[1].keeper = k
  <2>1. /\ Len(transactionStack') = Len(transactionStack) + 1
        /\ transactionStack # <<>> => transactionStack'[1] = transactionStack[1]
        /\ transactionStack = <<>> => transactionStack'[1].keeper = k
    BY <1>0, <1>3, StackFacts, Zenon
  <2>2. transactionStack' # <<>>
    BY <1>0, <2>1
  <2> QED
    BY <2>1, <2>2, Zenon
<1>4. ASSUME transactionStack' = Append(transactionStack,
                                        BaseTransaction(Len(transactionStack), NoSession))
      PROVE  Keepers' = Keepers /\ Len(transactionStack') = Len(transactionStack) + 1
  <2>1. /\ Len(transactionStack') = Len(transactionStack) + 1 /\ transactionStack' # <<>>
        /\ transactionStack # <<>> => transactionStack'[1] = transactionStack[1]
        /\ transactionStack = <<>> => transactionStack'[1].keeper = NoSession
    BY <1>3, <1>4, Zenon
  <2> QED
    BY <2>1, NothingAssumption, Zenon DEF Keepers
<1>5. ASSUME NEW k \in Sessions,
             transactionStack' = Append(transactionStack, BaseTransaction(Len(transactionStack), k))
      PROVE  /\ Len(transactionStack') = Len(transactionStack) + 1
             /\ transactionStack = <<>> => Keepers' = {k}
  BY <1>3, <1>5, Zenon DEF Keepers
<1>6. ASSUME transactionStack' = Popped PROVE Keepers' \subseteq Keepers
  <2>1. Popped # <<>> => transactionStack # <<>> /\ Popped[1] = transactionStack[1]
    BY <1>0, StackFacts, Zenon
  <2> QED
    BY <1>6, <2>1, Zenon DEF Keepers
<1>7. ASSUME Len(transactionStack) > 1, transactionStack' = EndTop
      PROVE  Keepers' = Keepers /\ Len(transactionStack') = Len(transactionStack) - 1
  <2>1. /\ Len(EndTop) = Len(transactionStack) - 1 /\ EndTop # <<>>
        /\ EndTop[1].keeper = transactionStack[1].keeper
    BY <1>0, <1>7, MarkFacts, Zenon
  <2>2. transactionStack # <<>>
    BY <1>7
  <2> QED
    BY <1>7, <2>1, <2>2, Zenon DEF Keepers
<1> QED
  BY <1>1, <1>2, <1>4, <1>5, <1>6, <1>7, Zenon

(* A step that leaves stack, depth and owner alone and begins no            *)
(* transaction call is plain.                                               *)
LEMMA KindPlain ==
    ASSUME Store, NEW t \in Threads, StackKept, depth' = depth, owner' = owner,
           \/ Passes(t) \/ Acquires(t) \/ Reopens(t) \/ Prepares(t) \/ Finishes(t) \/ Refuses(t)
           \/ Closes(t)
           \/ Ends(t) /\ pc'[t] # "pop"
           \/ Begins(t) /\ pc'[t] # "pop" /\ op'[t] \notin TransactionCalls
    PROVE  Plain(t)
<1>1. \A place : Moves(t, place) => pc'[t] = place
  BY Zenon DEF Moves, Store, CallInv
<1>2. Ordinary(t)
  BY Zenon DEF Ordinary
<1>3. ASSUME Transacting(t)', Acquires(t)
      PROVE  pc'[t] # "pop" /\ pc[t] \in Busy /\ op'[t] = op[t]
  <2>1. /\ pc[t] \in {"acquire", "exchange"} /\ op'[t] = op[t]
        /\ \E place \in {IF pc[t] = "acquire" THEN "execute" ELSE "run", "crashed"} : Moves(t, place)
    BY <1>3, Zenon DEF Acquires
  <2>2. pc'[t] \in {"execute", "run", "crashed"}
    BY <1>1, <2>1, Zenon
  <2>3. pc[t] \in Busy
    BY <2>1, Zenon DEF Busy
  <2> QED
    BY <2>1, <2>2, <2>3, Zenon
<1>4. ASSUME Transacting(t)', Ends(t), pc'[t] # "pop" PROVE pc[t] \in Busy /\ op'[t] = op[t]
  <2>1. pc'[t] \in Busy
    BY <1>4, Zenon DEF Transacting
  <2>2. pc'[t] # "idle" => op'[t] = op[t]
    BY <1>1, <1>4, Zenon DEF Ends
  <2> QED
    BY <1>4, <2>1, <2>2, Zenon DEF Ends, Busy
<1>5. Begins(t) /\ pc'[t] # "pop" /\ op'[t] \notin TransactionCalls => ~Transacting(t)'
  BY Zenon DEF Transacting
<1>6. Passes(t) \/ Reopens(t) \/ Prepares(t) \/ Finishes(t) \/ Refuses(t) \/ Closes(t)
         => ~Transacting(t)'
  <2>1. Passes(t) \/ Reopens(t) \/ Prepares(t) \/ Finishes(t) \/ Refuses(t) \/ Closes(t)
           => pc'[t] \in {"idle", "close", "open"}
    BY <1>1 DEF Passes, Reopens, Prepares, Finishes, Refuses, Closes
  <2> QED
    BY <2>1, Zenon DEF Transacting, Busy
<1> QED
  BY <1>2, <1>3, <1>4, <1>5, <1>6, Zenon DEF Plain

(* What is not transactional leaves stack, depth and owner alone.           *)
LEMMA NotTransactionalKept ==
    ASSUME Store, NotTransactional PROVE StackKept /\ depth' = depth /\ owner' = owner
BY KeepersFacts, Zenon DEF NotTransactional

(* The steps of statements have nothing to do with transactions ...         *)
LEMMA StatementEffects ==
    ASSUME Store, NEW t \in Threads
    PROVE  /\ \A o \in Statements : CallStatement(t, o) => Plain(t)
           /\ Acquire(t) \/ ExecuteStatement(t) \/ Exchange(t) \/ RunExchanged(t)
                \/ ReopenAfterDdl(t) \/ IsHoldingConnection(t) \/ CallChangeEncryptKey(t)
                \/ CallRestore(t) \/ Restore(t) => Plain(t)
<1>0. pc \in [Threads -> Places] /\ op \in [Threads -> Ops]
  BY Zenon DEF Store, CallInv, StoreTypes, CallTypes
<1>1. ASSUME NEW o \in Statements, CallStatement(t, o) PROVE Plain(t)
  <2>1. Call(t, o, "acquire", NoArg) /\ NotTransactional
    BY <1>1, Zenon DEF CallStatement
  <2>2. pc'[t] = "acquire" /\ op'[t] = o
    BY <1>0, <2>1 DEF Call
  <2>3. o \notin TransactionCalls
    BY <1>1 DEF Statements, TransactionCalls
  <2>4. Begins(t)
    BY <1>1, StatementKinds, Zenon
  <2> QED
    BY <2>1, <2>2, <2>3, <2>4, KindPlain, NotTransactionalKept, Zenon
<1>2. ASSUME IsHoldingConnection(t) PROVE Plain(t)
  <2>1. Call(t, NoArg, "idle", NoArg) /\ NotTransactional
    BY <1>2, Zenon DEF IsHoldingConnection
  <2>2. pc'[t] = "idle" /\ op'[t] = NoArg
    BY <1>0, <2>1 DEF Call
  <2>3. NoArg \notin TransactionCalls
    BY DEF NoArg, TransactionCalls
  <2>4. Begins(t)
    BY <1>2, StatementKinds, Zenon
  <2> QED
    BY <2>1, <2>2, <2>3, <2>4, KindPlain, NotTransactionalKept, Zenon
<1>3. ASSUME NEW place \in {"idle", "exchange", "reopen"}, FinishStatement(t, place)
      PROVE  pc'[t] # "pop"
  BY <1>0, <1>3 DEF FinishStatement, Goto
<1>4. ASSUME ExecuteStatement(t) \/ RunExchanged(t) PROVE Plain(t)
  <2>1. NotTransactional /\ \E place \in {"idle", "exchange", "reopen"} : FinishStatement(t, place)
    BY <1>4, Zenon DEF ExecuteStatement, RunExchanged
  <2>2. Ends(t)
    BY <1>4, StatementKinds, Zenon
  <2> QED
    BY <1>3, <2>1, <2>2, KindPlain, NotTransactionalKept, Zenon
<1>5. ASSUME Acquire(t) \/ Exchange(t) \/ ReopenAfterDdl(t) \/ CallChangeEncryptKey(t)
             \/ CallRestore(t) \/ Restore(t)
      PROVE  Plain(t)
  <2>1. NotTransactional
    BY <1>5, Zenon DEF Acquire, Exchange, ReopenAfterDdl, CallChangeEncryptKey, CallRestore, Restore
  <2>2. Acquires(t) \/ Reopens(t) \/ Passes(t)
    BY <1>5, StatementKinds, Zenon
  <2> QED
    BY <2>1, <2>2, KindPlain, NotTransactionalKept, Zenon
<1> QED
  BY <1>1, <1>2, <1>4, <1>5, Zenon

(* ... nor have those of step result sets.                                  *)
LEMMA StepEffects ==
    ASSUME Store, NEW t \in Threads
    PROVE  /\ \A r \in ResultSets :
                 /\ CallPrepareStep(t, r) \/ PrepareSecondStep(t, r) \/ CloseInOtherThread(t, r)
                       => Plain(t)
                 /\ \A closes \in BOOLEAN : FinishStep(t, r, closes) => Plain(t)
           /\ PrepareStep(t) => Plain(t)
<1>0. pc \in [Threads -> Places] /\ op \in [Threads -> Ops]
  BY Zenon DEF Store, CallInv, StoreTypes, CallTypes
<1>1. ASSUME NEW r \in ResultSets, CallPrepareStep(t, r) PROVE Plain(t)
  <2>1. Call(t, "PrepareStep", "acquire", r) /\ NotTransactional
    BY <1>1, Zenon DEF CallPrepareStep
  <2>2. pc'[t] = "acquire" /\ op'[t] = "PrepareStep"
    BY <1>0, <2>1 DEF Call
  <2>3. "PrepareStep" \notin TransactionCalls
    BY DEF TransactionCalls
  <2>4. Begins(t)
    BY <1>1, StepKinds, Zenon
  <2> QED
    BY <2>1, <2>2, <2>3, <2>4, KindPlain, NotTransactionalKept, Zenon
<1>2. ASSUME NEW r \in ResultSets, PrepareSecondStep(t, r) \/ CloseInOtherThread(t, r) PROVE Plain(t)
  <2>1. NotTransactional
    BY <1>2, Zenon DEF PrepareSecondStep, CloseInOtherThread
  <2>2. Refuses(t) \/ Closes(t)
    BY <1>2, StepKinds, Zenon
  <2> QED
    BY <2>1, <2>2, KindPlain, NotTransactionalKept, Zenon
<1>3. ASSUME NEW r \in ResultSets, NEW closes \in BOOLEAN, FinishStep(t, r, closes) PROVE Plain(t)
  <2>1. NotTransactional
    BY <1>3, Zenon DEF FinishStep
  <2>2. Finishes(t)
    BY <1>3, StepKinds, Zenon
  <2> QED
    BY <2>1, <2>2, KindPlain, NotTransactionalKept, Zenon
<1>4. ASSUME PrepareStep(t) PROVE Plain(t)
  <2>1. NotTransactional /\ Goto(t, "idle")
    BY <1>4, Zenon DEF PrepareStep
  <2>2. pc'[t] # "pop"
    BY <1>0, <2>1 DEF Goto
  <2>3. Prepares(t) \/ Ends(t)
    BY <1>4, StepKinds, Zenon
  <2> QED
    BY <2>1, <2>2, <2>3, KindPlain, NotTransactionalKept, Zenon
<1> QED
  BY <1>1, <1>2, <1>3, <1>4, Zenon

(* The owner that a transaction call leaves behind, and what it has noted.      *)
LEMMA Owners ==
    ASSUME Store, NEW t \in Threads, NEW n \in Int, NEW b \in BOOLEAN, Count(t, n, b)
    PROVE  /\ (b => pc'[t] \notin Busy \cup {"pop"}) => Turned(t)
           /\ n = 0 => depth' = depth
           /\ n = 1 => depth' = depth + 1 /\ owner' = t
           /\ depth' >= depth + n
<1>1. depth \in Nat
  BY Zenon DEF Store, StoreTypes, CallTypes
<1>2. /\ depth' \in Nat /\ owner' \in {t, NoThread} /\ depth' >= depth + n
      /\ b /\ depth' = 0 <=> owner' = NoThread
  BY <1>1, CountFacts, Zenon
<1>3. (b => pc'[t] \notin Busy \cup {"pop"}) => Turned(t)
  BY <1>2, Zenon DEF Turned, Transacting
<1>4. depth' = IF depth + n < 0 THEN 0 ELSE depth + n
  BY Zenon DEF Count
<1>5. n = 0 => depth' = depth
  BY <1>1, <1>4
<1>6. n = 1 => depth' = depth + 1 /\ depth' # 0
  BY <1>1, <1>4
<1> QED
  BY <1>2, <1>3, <1>5, <1>6, Zenon

(* A transaction call notes when it overlaps with that of another thread    *)
(* and when the kinds of calls are mixed.                                   *)
LEMMA Noted ==
    ASSUME NEW t \in Threads, NEW o, Note(t, o)
    PROVE  /\ Alone(t)
           /\ o \in {"Commit", "RollBack"} => Keepers = {} \/ "mixed" \in noted'
           /\ o \in {"EndTransaction", "GiveConnectionTemporarily"} => Keepers # {} \/ "mixed" \in noted'
<1>1. /\ owner \notin {NoThread, t} => "overlap" \in noted'
      /\ o \in {"Commit", "RollBack"} /\ Keepers # {} => "mixed" \in noted'
      /\ o \in {"EndTransaction", "GiveConnectionTemporarily"} /\ Keepers = {} => "mixed" \in noted'
  BY Zenon DEF Note
<1> QED
  BY <1>1, Zenon DEF Alone

(* A transaction call that begins, or is refused at once, is Called.        *)
LEMMA CalledStep ==
    ASSUME Store, NEW t \in Threads, NEW o \in TransactionCalls,
           NEW place \in {"idle", "acquire", "pop", "crashed"}, NEW a, Call(t, o, place, a),
           Note(t, o), NEW b \in BOOLEAN, Count(t, 0, b), UNCHANGED transactionStack,
           Begins(t) \/ Passes(t),
           b => place \in {"idle", "crashed"},
           place = "pop" => o = "Commit",
           place = "acquire" /\ o \in {"BeginTransactionWithObserver", "GiveConnectionTemporarily"}
               => transactionStack = <<>>
    PROVE  Called(t)
<1>1. pc'[t] = place /\ (place # "idle" => op'[t] = o)
  BY DEF Call, Store, CallInv, StoreTypes, CallTypes
<1>2. 0 \in Int
  OBVIOUS
<1>3. b => pc'[t] \notin Busy \cup {"pop"}
  BY <1>1, Zenon DEF Busy
<1>4. Turned(t) /\ depth' = depth
  BY <1>2, <1>3, Owners, Zenon
<1>5. Starting(t)' => transactionStack' = <<>>
  <2>1. Starting(t)' => /\ place = "acquire"
                        /\ o \in {"BeginTransactionWithObserver", "GiveConnectionTemporarily"}
    BY <1>1, Zenon DEF Starting, Busy
  <2> QED
    BY <2>1, Zenon
<1>6. Closing(t)' => Keepers = {} \/ "mixed" \in noted'
  <2>1. Closing(t)' => o \in {"Commit", "RollBack"}
    BY <1>1, Zenon DEF Closing, Busy
  <2> QED
    BY <2>1, Noted, Zenon
<1> QED
  BY <1>4, <1>5, <1>6, Noted, KeepersFacts, ZenonT(30) DEF Called

(* One that returns, with its transaction ended or the stack as it was, is  *)
(* Finished.                                                                *)
LEMMA FinishedStep ==
    ASSUME Store, NEW t \in Threads, Ends(t) \/ Passes(t), Transacting(t),
           NEW place \in {"idle", "pop"}, Goto(t, place),
           NEW n \in Int, NEW b \in BOOLEAN, Count(t, n, b), b => place = "idle",
           \/ UNCHANGED transactionStack /\ n = 0 /\ place = "idle"
           \/ Closing(t) /\ Keepers' \subseteq Keepers
    PROVE  Finished(t)
<1>1. pc'[t] = place
  BY DEF Goto, Store, CallInv
<1>2. b => pc'[t] \notin Busy \cup {"pop"}
  BY <1>1, Zenon DEF Busy
<1>3. Turned(t) /\ (n = 0 => depth' = depth)
  BY <1>2, Owners, Zenon
<1> QED
  BY <1>1, <1>3, KeepersFacts, Zenon DEF Finished

(* So is one that fails.                                                    *)
LEMMA FailFinished ==
    ASSUME Store, NEW t \in Threads, At(t, "execute"), op[t] \in TransactionCalls, Fail(t)
    PROVE  Finished(t)
<1>1. Goto(t, "idle") /\ Count(t, 0, TRUE) /\ UNCHANGED transactionStack
  BY Zenon DEF Fail, EndCall
<1>2. Ends(t) /\ Transacting(t)
  BY FailKind, Zenon DEF At, Transacting, Busy
<1>3. 0 \in Int /\ TRUE \in BOOLEAN
  OBVIOUS
<1> QED
  BY <1>1, <1>2, <1>3, FinishedStep, Zenon

(* What the steps of transactions without an observer do to the stack ...   *)
LEMMA TransactionEffects ==
    ASSUME Store, NEW t \in Threads
    PROVE  CallBeginTransaction(t) \/ BeginTransaction(t) \/ CallCommit(t) \/ Commit(t)
              \/ PopAfterCommit(t) \/ CallRollBack(t) \/ RollBack(t) => Effect(t)
<1>0. 0 \in Int /\ 1 \in Int /\ -1 \in Int /\ TRUE \in BOOLEAN /\ FALSE \in BOOLEAN
  OBVIOUS
<1>1. ASSUME CallBeginTransaction(t) PROVE Called(t)
  <2>1. Begins(t)
    BY <1>1, TransactionKinds, Zenon
  <2> QED
    BY <1>0, <1>1, <2>1, CalledStep, Zenon DEF CallBeginTransaction, TransactionCalls
<1>2. ASSUME BeginTransaction(t) PROVE Finished(t) \/ Grown(t)
  <2>1. /\ At(t, "execute") /\ op[t] \in {"BeginTransaction", "GiveConnectionTemporarily"}
        /\ Ends(t)
    BY <1>2, TransactionKinds, Zenon DEF BeginTransaction
  <2>2. op[t] \in TransactionCalls /\ Transacting(t)
    BY <2>1, Zenon DEF At, Transacting, Busy, TransactionCalls
  <2>3. CASE Fail(t)
    BY <2>1, <2>2, <2>3, FailFinished, Zenon
  <2>4. CASE /\ EndCall(t, "idle", FALSE) /\ Count(t, 0, TRUE) /\ UNCHANGED transactionStack
    <3>1. Goto(t, "idle")
      BY <2>4, Zenon DEF EndCall
    <3> QED
      BY <1>0, <2>1, <2>2, <2>4, <3>1, FinishedStep, Zenon
  <2>5. CASE /\ transactionStack' = Append(transactionStack,
                                           BaseTransaction(Len(transactionStack), NoSession))
             /\ EndCall(t, "idle", FALSE) /\ Count(t, 1, TRUE)
    <3>1. Goto(t, "idle") /\ SetSessions(Present)
      BY <2>5, Zenon DEF EndCall
    <3>2. pc'[t] = "idle"
      BY <3>1 DEF Goto, Store, CallInv
    <3>3. Turns(t, 0)
      BY <3>1, TurnFacts, Zenon DEF Store
    <3>4. depth' = depth + 1 /\ owner' = t
      BY <1>0, <2>5, Owners, Zenon
    <3> QED
      BY <2>1, <2>2, <2>5, <3>2, <3>3, <3>4, KeepersFacts, Zenon DEF Grown, Alone
  <2> QED
    BY <1>2, <2>3, <2>4, <2>5, Zenon DEF BeginTransaction
<1>3. ASSUME CallCommit(t) PROVE Called(t)
  <2> DEFINE place == IF transactionStack = <<>> THEN "idle"
                      ELSE IF Top.id = 0 THEN "acquire" ELSE "pop"
             b == transactionStack = <<>>
  <2>1. /\ Begins(t) /\ Call(t, "Commit", place, NoArg) /\ Note(t, "Commit")
        /\ Count(t, 0, b) /\ UNCHANGED transactionStack
    BY <1>3, TransactionKinds, Zenon DEF CallCommit
  <2>2. /\ place \in {"idle", "acquire", "pop", "crashed"} /\ b \in BOOLEAN
        /\ b => place \in {"idle", "crashed"}
    BY Zenon
  <2> HIDE DEF place, b
  <2> QED
    BY <2>1, <2>2, CalledStep, Zenon DEF TransactionCalls
<1>4. ASSUME Commit(t) PROVE Finished(t)
  <2>1. At(t, "execute") /\ op[t] = "Commit" /\ Ends(t)
    BY <1>4, TransactionKinds, Zenon DEF Commit
  <2>2. op[t] \in TransactionCalls /\ Transacting(t) /\ Closing(t)
    BY <2>1, Zenon DEF At, Transacting, Closing, Busy, TransactionCalls
  <2>3. CASE Fail(t)
    BY <2>1, <2>2, <2>3, FailFinished, Zenon
  <2>4. CASE EndCall(t, "pop", FALSE) /\ Count(t, 0, FALSE) /\ UNCHANGED transactionStack
    <3>1. Goto(t, "pop") /\ Keepers' = Keepers
      BY <2>4, Zenon DEF EndCall, Keepers
    <3> QED
      BY <1>0, <2>1, <2>2, <2>4, <3>1, FinishedStep, Zenon
  <2> QED
    BY <1>4, <2>3, <2>4, Zenon DEF Commit
<1>5. ASSUME PopAfterCommit(t) PROVE Finished(t)
  <2>1. /\ At(t, "pop") /\ Passes(t) /\ Goto(t, "idle") /\ Count(t, -1, TRUE)
        /\ transactionStack' = Popped
    BY <1>5, TransactionKinds, Zenon DEF PopAfterCommit
  <2>2. Transacting(t) /\ Closing(t)
    BY <2>1, Zenon DEF At, Transacting, Closing
  <2>3. Keepers' \subseteq Keepers
    BY <2>1, KeepersFacts, Zenon
  <2> QED
    BY <1>0, <2>1, <2>2, <2>3, FinishedStep, Zenon
<1>6. ASSUME CallRollBack(t) PROVE Called(t)
  <2> DEFINE place == IF transactionStack = <<>> THEN "idle" ELSE "acquire"
             b == transactionStack = <<>>
  <2>1. /\ Begins(t) \/ Passes(t)
        /\ Call(t, "RollBack", place, Top.id) /\ Note(t, "RollBack")
        /\ Count(t, 0, b) /\ UNCHANGED transactionStack
    BY <1>6, TransactionKinds, Zenon DEF CallRollBack
  <2>2. /\ place \in {"idle", "acquire", "pop", "crashed"} /\ b \in BOOLEAN
        /\ b => place \in {"idle", "crashed"}
        /\ place # "pop"
    BY Zenon
  <2> HIDE DEF place, b
  <2> QED
    BY <2>1, <2>2, CalledStep, Zenon DEF TransactionCalls
<1>7. ASSUME RollBack(t) PROVE Finished(t)
  <2>1. At(t, "execute") /\ op[t] = "RollBack" /\ Ends(t)
    BY <1>7, TransactionKinds, Zenon DEF RollBack
  <2>2. op[t] \in TransactionCalls /\ Transacting(t) /\ Closing(t)
    BY <2>1, Zenon DEF At, Transacting, Closing, Busy, TransactionCalls
  <2>3. CASE Fail(t)
    BY <2>1, <2>2, <2>3, FailFinished, Zenon
  <2>4. CASE EndCall(t, "idle", FALSE) /\ Count(t, -1, TRUE) /\ UNCHANGED transactionStack
    <3>1. Goto(t, "idle") /\ Keepers' = Keepers
      BY <2>4, Zenon DEF EndCall, Keepers
    <3> QED
      BY <1>0, <2>1, <2>2, <2>4, <3>1, FinishedStep, Zenon
  <2> QED
    BY <1>7, <2>3, <2>4, Zenon DEF RollBack
<1> QED
  BY <1>1, <1>2, <1>3, <1>4, <1>5, <1>6, <1>7, Zenon DEF Effect

(* The stack is empty, or has one transaction or more.                      *)
LEMMA LengthCases ==
    ASSUME Store
    PROVE  /\ Len(transactionStack) > 1 => Len(transactionStack) # 1
           /\ transactionStack = <<>> \/ Len(transactionStack) = 1 \/ Len(transactionStack) > 1
<1> DEFINE n == Len(transactionStack)
<1>1. n \in Nat /\ (transactionStack # <<>> => n > 0)
  BY StackFacts, Zenon DEF Store, StoreTypes, CallTypes
<1> HIDE DEF n
<1>2. (n > 1 => n # 1) /\ (n > 0 => n = 1 \/ n > 1)
  BY <1>1
<1> QED
  BY <1>1, <1>2, Zenon DEF n

(* ... and those of transactions with an observer.                          *)
LEMMA ObserverEffects ==
    ASSUME Store, NEW t \in Threads
    PROVE  CallBeginTransactionWithObserver(t) \/ BeginTransactionWithObserver(t) \/ MarkAsCommit(t)
              \/ EndTransaction(t) \/ GiveConnectionTemporarily(t) => Effect(t)
<1>0. 0 \in Int /\ 1 \in Int /\ -1 \in Int /\ TRUE \in BOOLEAN /\ FALSE \in BOOLEAN
  OBVIOUS
<1>p. \A o, place, a : Call(t, o, place, a) =>
         pc'[t] = place /\ SessionLeft(t) /\ Running
  BY DEF Call, Store, CallInv
<1>o. SessionLeft(t) => Own(t) \in Sessions
  BY Zenon DEF Store, Owned
<1>l. /\ Running /\ UNCHANGED <<conn, connectionUseCount>> => Linked(t, 0)
      /\ Running /\ SessionLeft(t) /\ ReleaseConnection(Own(t)) => Linked(t, -1)
  BY <1>o, LinkFacts, Zenon DEF Store
<1>1. ASSUME CallBeginTransactionWithObserver(t) PROVE Called(t) \/ Grown(t)
  <2> DEFINE o == "BeginTransactionWithObserver"
  <2>1. Begins(t) /\ Note(t, o)
    BY <1>1, ObserverKinds, Zenon DEF CallBeginTransactionWithObserver
  <2>2. CASE transactionStack = <<>>
    <3>1. Call(t, o, "acquire", NoArg) /\ Count(t, 0, FALSE) /\ UNCHANGED transactionStack
      BY <1>1, <2>2, Zenon DEF CallBeginTransactionWithObserver
    <3> QED
      BY <1>0, <2>1, <2>2, <3>1, CalledStep, Zenon DEF TransactionCalls
  <2>3. CASE transactionStack # <<>>
    <3>1. /\ Call(t, o, "idle", NoArg) /\ Count(t, 1, TRUE)
          /\ transactionStack' = Append(transactionStack,
                                        BaseTransaction(Len(transactionStack), NoSession))
      BY <1>1, <2>3, Zenon DEF CallBeginTransactionWithObserver
    <3>2. pc'[t] = "idle" /\ depth' = depth + 1 /\ owner' = t /\ Alone(t)
      BY <1>0, <1>p, <2>1, <3>1, Owners, Noted, Zenon
    <3> QED
      BY <2>1, <3>1, <3>2, KeepersFacts, Zenon DEF Grown
  <2> QED
    BY <2>2, <2>3, Zenon
<1>2. ASSUME BeginTransactionWithObserver(t) PROVE Finished(t) \/ Kept(t)
  <2>1. At(t, "execute") /\ op[t] = "BeginTransactionWithObserver"
    BY <1>2, Zenon DEF BeginTransactionWithObserver
  <2>2. op[t] \in TransactionCalls /\ Starting(t)
    BY <2>1, Zenon DEF At, Starting, Busy, TransactionCalls
  <2>3. CASE Fail(t)
    BY <2>1, <2>2, <2>3, FailFinished, Zenon
  <2>4. CASE ~Fail(t)
    <3>1. /\ Goto(t, "idle") /\ Count(t, 1, TRUE) /\ UNCHANGED noted
          /\ transactionStack' = Append(transactionStack,
                                        BaseTransaction(Len(transactionStack), Session(t)))
          /\ UNCHANGED <<poolVars, sessionVars, resultSet>>
      BY <1>2, <2>4, Zenon DEF BeginTransactionWithObserver
    <3>2. UNCHANGED <<conn, connectionUseCount>> /\ Same /\ SetSessions(Present)
      BY <3>1, Zenon DEF poolVars, sessionVars, Same, SetSessions, Present
    <3>3. Session(t) \in Sessions /\ Running
      BY <2>1, Zenon DEF At, Store, CallInv, Busy
    <3>4. pc'[t] = "idle"
      BY <3>1 DEF Goto, Store, CallInv
    <3>5. Moves(t, "idle")
      BY <3>1, GotoMoves, Zenon DEF Store
    <3>6. Turns(t, 0) /\ Linked(t, 0)
      BY <1>l, <3>2, <3>3, TurnFacts, Zenon DEF Store
    <3>7. Keeps(t)
      BY <2>1, <3>2, <3>5, <3>6, Zenon DEF Keeps, At
    <3>8. depth' = depth + 1 /\ owner' = t
      BY <1>0, <3>1, Owners, Zenon
    <3> QED
      BY <2>2, <3>1, <3>3, <3>4, <3>7, <3>8, KeepersFacts, Zenon DEF Kept
  <2> QED
    BY <2>3, <2>4, Zenon
<1>3. ASSUME MarkAsCommit(t) PROVE Plain(t)
  <2>1. /\ Passes(t) /\ depth' = depth /\ owner' = owner
        /\ transactionStack' = IF transactionStack = <<>> THEN <<>> ELSE MarkTop
    BY <1>3, ObserverKinds, Zenon DEF MarkAsCommit
  <2>2. StackKept
    BY <2>1, KeepersFacts, Zenon
  <2> QED
    BY <2>1, <2>2, KindPlain, Zenon
<1>4. ASSUME NEW n \in {0, -1}, NEW b \in BOOLEAN, Count(t, n, b), b => pc'[t] = "idle"
      PROVE  Turned(t) /\ depth' >= depth - 1
  <2>1. n \in Int /\ (b => pc'[t] \notin Busy \cup {"pop"})
    BY <1>4 DEF Busy
  <2>2. Turned(t) /\ depth' >= depth + n
    BY <1>4, <2>1, Owners, Zenon
  <2>3. depth \in Nat /\ depth' \in Nat
    BY <1>4, <2>1, CountFacts, Zenon DEF Store, StoreTypes, CallTypes
  <2> QED
    BY <1>4, <2>2, <2>3, SMTT(30)
<1>5. ASSUME EndTransaction(t) PROVE Left(t)
  <2> DEFINE o == "EndTransaction"
  <2>1. Leaves(t) /\ Note(t, o)
    BY <1>5, ObserverKinds, Zenon DEF EndTransaction
  <2>2. Alone(t) /\ (Keepers # {} \/ "mixed" \in noted')
    BY <2>1, Noted, Zenon
  <2>3. CASE Len(transactionStack) = 1 /\ conn[Own(t)] # Null
    <3>1. Call(t, o, "idle", NoArg) /\ EndOutermost(t, Own(t), TRUE)
      BY <1>5, <2>3, Zenon DEF EndTransaction, Own
    <3>2. /\ transactionStack' = <<>> /\ ReleaseConnection(Own(t))
          /\ \E n \in {0, -1} : Count(t, n, TRUE)
      BY <3>1, Zenon DEF EndOutermost
    <3>3. pc'[t] = "idle" /\ Linked(t, -1)
      BY <1>p, <1>l, <3>1, <3>2, Zenon
    <3>4. Turned(t)
      BY <1>0, <1>4, <3>2, <3>3, Zenon
    <3> QED
      BY <2>1, <2>2, <2>3, <3>2, <3>3, <3>4, Zenon DEF Left
  <2>4. CASE Len(transactionStack) > 1
    <3>1. Len(transactionStack) # 1
      BY <2>4, LengthCases, Zenon
    <3>2. /\ Call(t, o, "idle", NoArg) /\ transactionStack' = EndTop /\ Count(t, -1, TRUE)
          /\ UNCHANGED <<poolVars, connectionUseCount>>
      BY <1>5, <2>4, <3>1, Zenon DEF EndTransaction
    <3>3. pc'[t] = "idle" /\ Linked(t, 0)
      BY <1>p, <1>l, <3>2, Zenon DEF poolVars
    <3>4. Turned(t) /\ depth' >= depth - 1
      BY <1>0, <1>4, <3>2, <3>3, Zenon
    <3> QED
      BY <2>1, <2>2, <2>4, <3>2, <3>3, <3>4, KeepersFacts, Zenon DEF Left
  <2>5. CASE conn[Own(t)] = Null
    BY <2>1, <2>2, <2>5, Zenon DEF Left
  <2>6. CASE ~(Len(transactionStack) > 1) /\ Len(transactionStack) # 1
    <3>2. Keepers = {}
      BY <2>6, LengthCases, Zenon DEF Keepers
    <3> QED
      BY <2>1, <2>2, <3>2, Zenon DEF Left
  <2> QED
    BY <2>3, <2>4, <2>5, <2>6, Zenon
<1>6. ASSUME GiveConnectionTemporarily(t) PROVE Called(t) \/ Left(t)
  <2> DEFINE o == "GiveConnectionTemporarily"
             refused == Len(transactionStack) # 1 \/ Top.markedSuccessful
  <2>1. Note(t, o) /\ SetSessions(GetThreadSession(t)) /\ Same /\ o \in TransactionCalls
    BY <1>6, Zenon DEF GiveConnectionTemporarily, Same, TransactionCalls
  <2>2. Alone(t) /\ (Keepers # {} \/ "mixed" \in noted')
    BY <2>1, Noted, Zenon
  <2>3. CASE ~refused /\ conn[Own(t)] # Null
    <3>1. Call(t, o, "acquire", NoArg) /\ EndOutermost(t, Own(t), FALSE)
      BY <1>6, <2>3, Zenon DEF GiveConnectionTemporarily, Own
    <3>2. /\ transactionStack' = <<>> /\ ReleaseConnection(Own(t))
          /\ \E n \in {0, -1} : Count(t, n, FALSE)
      BY <3>1, Zenon DEF EndOutermost
    <3>3. pc'[t] = "acquire" /\ Linked(t, -1) /\ Turned(t)
      BY <1>0, <1>4, <1>p, <1>l, <3>1, <3>2, Zenon
    <3>4. transactionStack' \in Seq(Transactions)
      BY <3>2
    <3>5. PICK n \in {0, -1} : n \in Int /\ Count(t, n, FALSE)
      BY <1>0, <3>2, Zenon
    <3>6. /\ Moves(t, "acquire") /\ pc[t] = "idle" /\ SessionLeft(t)
          /\ "acquire" # "idle" => op'[t] = o
          /\ isInStepQuery[Own(t)] => "inStepQuery" \in noted'
      BY <1>0, <2>1, <3>1, <3>4, <3>5, CallCommon, Zenon
    <3>7. Turns(t, 1)
      BY <2>1, <3>6, TurnFacts, Zenon DEF Store
    <3>8. Leaves(t)
      BY <2>1, <3>3, <3>6, <3>7, Zenon DEF Leaves
    <3> QED
      BY <2>2, <2>3, <3>2, <3>3, <3>8, Zenon DEF Left
  <2>4. CASE refused \/ conn[Own(t)] = Null
    <3>1. PICK place \in {"idle", "crashed"} : Call(t, o, place, NoArg)
      BY <1>6, <2>4, Zenon DEF GiveConnectionTemporarily, Own
    <3>2. /\ Count(t, 0, TRUE) /\ UNCHANGED transactionStack
          /\ UNCHANGED <<poolVars, connectionUseCount>>
      BY <1>6, <2>4, Zenon DEF GiveConnectionTemporarily, Own
    <3>3. transactionStack' \in Seq(Transactions)
      BY <3>2, Zenon DEF Store, StoreTypes, CallTypes
    <3>4. /\ Moves(t, place) /\ pc[t] = "idle" /\ SessionLeft(t) /\ Running
          /\ op'[t] # "PrepareStep"
      BY <1>0, <2>1, <3>1, <3>2, <3>3, CallCommon, Zenon
    <3>5. Turns(t, 1) /\ Linked(t, 0)
      BY <1>l, <2>1, <3>2, <3>4, TurnFacts, Zenon DEF Store, poolVars
    <3>6. Begins(t)
      BY <2>1, <3>4, <3>5, Zenon DEF Begins
    <3> QED
      BY <1>0, <2>1, <3>1, <3>2, <3>6, CalledStep, Zenon
  <2> QED
    BY <2>3, <2>4, Zenon
<1> QED
  BY <1>1, <1>2, <1>3, <1>5, <1>6, Zenon DEF Effect

(* Every step of the store is of one of the kinds, by sessions and by       *)
(* transactions.                                                            *)
LEMMA NextEffect ==
    ASSUME Store, Next
    PROVE  \E t \in Threads : Kind(t) /\ Steps(t) /\ Effect(t)
<1>1. PICK t \in Threads :
         \/ \E o \in Statements : CallStatement(t, o)
         \/ Acquire(t) \/ ExecuteStatement(t) \/ Exchange(t) \/ RunExchanged(t) \/ ReopenAfterDdl(t)
         \/ IsHoldingConnection(t) \/ CallChangeEncryptKey(t) \/ CallRestore(t) \/ Restore(t)
         \/ CallBeginTransaction(t) \/ BeginTransaction(t)
         \/ CallCommit(t) \/ Commit(t) \/ PopAfterCommit(t)
         \/ CallRollBack(t) \/ RollBack(t)
         \/ CallBeginTransactionWithObserver(t) \/ BeginTransactionWithObserver(t)
         \/ MarkAsCommit(t) \/ EndTransaction(t) \/ GiveConnectionTemporarily(t)
         \/ \E r \in ResultSets :
               \/ CallPrepareStep(t, r) \/ PrepareSecondStep(t, r) \/ CloseInOtherThread(t, r)
               \/ \E closes \in BOOLEAN : FinishStep(t, r, closes)
         \/ PrepareStep(t)
  BY Zenon DEF Next
<1>2. Kind(t) /\ Steps(t)
  BY <1>1, StatementKinds, TransactionKinds, ObserverKinds, StepKinds, Zenon DEF Kind
<1>3. Effect(t)
  BY <1>1, StatementEffects, TransactionEffects, ObserverEffects, StepEffects, Zenon DEF Effect
<1> QED
  BY <1>2, <1>3, Zenon

-----------------------------------------------------------------------------
(* What the actions do to transactions.                                      *)

(* What the operations on the stack do to the ids of its transactions: what *)
(* stays keeps its id, and what is pushed gets the height of the stack.     *)
LEMMA StackIds ==
    ASSUME Store
    PROVE  LET n == Len(transactionStack)
           IN  /\ UNCHANGED transactionStack => Shrinks(n)
               /\ transactionStack # <<>> /\ transactionStack' = MarkTop => Shrinks(n)
               /\ transactionStack # <<>> /\ transactionStack' = Popped => Shrinks(n - 1)
               /\ n > 1 /\ transactionStack' = EndTop => Shrinks(n - 1)
               /\ transactionStack' = <<>> => Shrinks(0)
               /\ \A k : transactionStack' = Append(transactionStack, BaseTransaction(n, k)) =>
                     /\ Len(transactionStack') = n + 1
                     /\ \A i \in 1..n : transactionStack'[i].id = transactionStack[i].id
                     /\ transactionStack'[n + 1].id = n
<1> DEFINE n == Len(transactionStack)
<1>0. transactionStack \in Seq(Transactions) /\ n \in Nat
  <2>1. transactionStack \in Seq(Transactions)
    BY Zenon DEF Store, StoreTypes, CallTypes
  <2> QED
    BY <2>1
<1>1. UNCHANGED transactionStack => Shrinks(n)
  BY <1>0 DEF Shrinks
<1>2. ASSUME NEW q \in Seq(Transactions), q # <<>>
      PROVE  LET m == [q EXCEPT ![Len(q)].markedSuccessful = TRUE]
                 e == [q EXCEPT ![Len(q)].allBeforeSuccessful = FALSE]
             IN  /\ Len(m) = Len(q) /\ \A i \in 1..Len(q) : m[i].id = q[i].id
                 /\ Len(e) = Len(q) /\ \A i \in 1..Len(q) : e[i].id = q[i].id
  <2>1. Len(q) \in Nat /\ Len(q) \in 1..Len(q) /\ q[Len(q)] \in Transactions
    BY <1>2
  <2>2. /\ [q[Len(q)] EXCEPT !.markedSuccessful = TRUE].id = q[Len(q)].id
        /\ [q[Len(q)] EXCEPT !.allBeforeSuccessful = FALSE].id = q[Len(q)].id
    BY <2>1, Zenon DEF Transactions
  <2> DEFINE c == [q[Len(q)] EXCEPT !.markedSuccessful = TRUE]
             d == [q[Len(q)] EXCEPT !.allBeforeSuccessful = FALSE]
  <2>3. /\ [q EXCEPT ![Len(q)].markedSuccessful = TRUE] = [q EXCEPT ![Len(q)] = c]
        /\ [q EXCEPT ![Len(q)].allBeforeSuccessful = FALSE] = [q EXCEPT ![Len(q)] = d]
    OBVIOUS
  <2> HIDE DEF c, d
  <2>4. ASSUME NEW x, x.id = q[Len(q)].id
        PROVE  /\ Len([q EXCEPT ![Len(q)] = x]) = Len(q)
               /\ \A i \in 1..Len(q) : [q EXCEPT ![Len(q)] = x][i].id = q[i].id
    BY <2>1, <2>4
  <2>5. c.id = q[Len(q)].id /\ d.id = q[Len(q)].id
    BY <2>2, Zenon DEF c, d
  <2>6. /\ Len([q EXCEPT ![Len(q)] = c]) = Len(q)
        /\ \A i \in 1..Len(q) : [q EXCEPT ![Len(q)] = c][i].id = q[i].id
    BY <2>4, <2>5, SMTT(30)
  <2>7. /\ Len([q EXCEPT ![Len(q)] = d]) = Len(q)
        /\ \A i \in 1..Len(q) : [q EXCEPT ![Len(q)] = d][i].id = q[i].id
    BY <2>4, <2>5, SMTT(30)
  <2> QED
    BY <2>3, <2>6, <2>7, Zenon
<1>3. ASSUME transactionStack # <<>>
      PROVE  /\ Popped \in Seq(Transactions) /\ Len(Popped) = n - 1 /\ n >= 1
             /\ \A i \in 1..n - 1 : Popped[i] = transactionStack[i]
  <2>1. Popped = SubSeq(transactionStack, 1, n - 1)
    BY <1>3, Zenon DEF Popped
  <2> QED
    BY <1>0, <1>3, <2>1, ButLast, SMTT(30)
<1>4. ASSUME transactionStack # <<>>, transactionStack' = MarkTop PROVE Shrinks(n)
  <2>1. n \in 0..n
    BY <1>0
  <2>2. Len(MarkTop) = n /\ \A i \in 1..n : MarkTop[i].id = transactionStack[i].id
    BY <1>0, <1>2, <1>4, Zenon DEF MarkTop
  <2> QED
    BY <1>4, <2>1, <2>2, Zenon DEF Shrinks
<1>5. ASSUME transactionStack # <<>>, transactionStack' = Popped PROVE Shrinks(n - 1)
  <2>1. n - 1 \in 0..n
    BY <1>0, <1>3, <1>5
  <2> QED
    BY <1>3, <1>5, <2>1, Zenon DEF Shrinks
<1>6. ASSUME n > 1, transactionStack' = EndTop PROVE Shrinks(n - 1)
  <2>1. transactionStack # <<>> /\ n - 1 \in 0..n
    BY <1>0, <1>6
  <2>2. /\ Popped \in Seq(Transactions) /\ Len(Popped) = n - 1
        /\ \A i \in 1..n - 1 : Popped[i] = transactionStack[i]
    BY <1>3, <2>1, Zenon
  <2>3. Popped # <<>>
    BY <1>0, <1>6, <2>2, SMTT(30)
  <2>4. EndTop = Popped \/ EndTop = [Popped EXCEPT ![Len(Popped)].allBeforeSuccessful = FALSE]
    BY Zenon DEF EndTop
  <2>5. Len(EndTop) = Len(Popped) /\ \A i \in 1..Len(Popped) : EndTop[i].id = Popped[i].id
    <3> DEFINE e == [Popped EXCEPT ![Len(Popped)].allBeforeSuccessful = FALSE]
    <3>1. Len(e) = Len(Popped) /\ \A i \in 1..Len(Popped) : e[i].id = Popped[i].id
      BY <1>2, <2>2, <2>3, Zenon
    <3> HIDE DEF e
    <3>2. EndTop = Popped \/ EndTop = e
      BY <2>4, Zenon DEF e
    <3> QED
      BY <3>1, <3>2, Zenon
  <2>6. Len(EndTop) = n - 1 /\ \A i \in 1..n - 1 : EndTop[i].id = transactionStack[i].id
    BY <2>2, <2>5, Zenon
  <2> QED
    BY <1>6, <2>1, <2>6, Zenon DEF Shrinks
<1>7. transactionStack' = <<>> => Shrinks(0)
  BY <1>0, SMTT(30) DEF Shrinks
<1>8. ASSUME NEW k, transactionStack' = Append(transactionStack, BaseTransaction(n, k))
      PROVE  /\ Len(transactionStack') = n + 1
             /\ \A i \in 1..n : transactionStack'[i].id = transactionStack[i].id
             /\ transactionStack'[n + 1].id = n
  <2>1. BaseTransaction(n, k).id = n
    BY DEF BaseTransaction
  <2> QED
    BY <1>0, <1>8, <2>1, SMTT(30)
<1> QED
  BY <1>1, <1>4, <1>5, <1>6, <1>7, <1>8, Zenon

(* Only calls of the transaction functions wait as such.                       *)
LEMMA GrantedKinds ==
    ASSUME Store, NEW t \in Threads
    PROVE  /\ Passes(t) \/ Ends(t) \/ Reopens(t) \/ Keeps(t) \/ Prepares(t) \/ Finishes(t)
                \/ Refuses(t) \/ Closes(t) => Granted(t)
           /\ Begins(t) /\ op'[t] \notin TransactionCalls => Granted(t)
           /\ Begins(t) /\ (isInStepQuery[Own(t)] => "inStepQuery" \in noted') => Granted(t)
           /\ Leaves(t) => Granted(t)
<1>p. \A place : Moves(t, place) => pc'[t] = place
  BY Zenon DEF Moves, Store, CallInv
<1>1. ASSUME Passes(t) \/ Ends(t) \/ Reopens(t) \/ Keeps(t) \/ Prepares(t) \/ Finishes(t)
               \/ Refuses(t) \/ Closes(t)
      PROVE  Granted(t)
  <2>1. pc'[t] \in {"idle", "close", "open", "exchange", "reopen", "pop"}
    BY <1>1, <1>p, Zenon DEF Passes, Ends, Reopens, Keeps, Prepares, Finishes, Refuses, Closes
  <2> QED
    BY <2>1, Zenon DEF Granted, Transacts
<1>2. ASSUME Begins(t) \/ Leaves(t)
      PROVE  Same /\ pc[t] = "idle" /\ pc'[t] \in {"idle", "acquire", "pop", "crashed"}
  BY <1>2, <1>p, Zenon DEF Begins, Leaves
<1>3. ASSUME Begins(t) \/ Leaves(t), isInStepQuery[Own(t)] => "inStepQuery" \in noted'
      PROVE  Granted(t)
  BY <1>2, <1>3, Zenon DEF Granted, Transacts
<1>4. Leaves(t) => (isInStepQuery[Own(t)] => "inStepQuery" \in noted')
  BY Zenon DEF Leaves
<1>5. op'[t] \notin TransactionCalls => Granted(t)
  BY Zenon DEF Granted, Transacts
<1> QED
  BY <1>1, <1>3, <1>4, <1>5, Zenon

(* A transaction call that has no connection gets the write connection.        *)
LEMMA AcquireGranted ==
    ASSUME Store, WriterHeld, NEW t \in Threads, Acquire(t)
    PROVE  Granted(t)
<1> SUFFICES ASSUME Transacts(t)'
             PROVE  /\ Acquires(t) /\ Transacts(t) /\ pc[t] = "acquire"
                    /\ conn[Own(t)] = Null /\ ~damaged => conn'[Own(t)].isWriteConnection
  BY Zenon DEF Granted
<1>1. Acquires(t) /\ pc[t] = "acquire"
  BY StatementKinds, Zenon DEF Acquire, At
<1>2. op'[t] = op[t]
  BY <1>1, Zenon DEF Acquires
<1>3. Transacts(t) /\ op[t] \in TransactionCalls
  BY <1>1, <1>2, Zenon DEF Transacts
<1>4. (IsSqlReadOnly(op[t]) \/ op[t] = "PrepareStep") = FALSE
  BY <1>3 DEF IsSqlReadOnly, TransactionCalls
<1>5. Session(t) \in Sessions /\ Own(t) = Session(t)
  BY <1>1, Zenon DEF Store, Owned, Busy
<1>6. AcquireConnection(Session(t), FALSE)
  BY <1>4, Zenon DEF Acquire
<1>7. ASSUME conn[Own(t)] = Null, ~damaged PROVE conn'[Own(t)].isWriteConnection
  <2>1. AcquireWriteConnection(Own(t))
    BY <1>5, <1>6, <1>7, Zenon DEF AcquireConnection, PoolAcquire
  <2>2. ~writeConnectionUsed /\ conn' = [conn EXCEPT ![Own(t)] = writeConnection]
    BY <2>1, Zenon DEF AcquireWriteConnection
  <2>3. writeConnection.isWriteConnection
    BY <1>7, <2>2, Zenon DEF WriterHeld
  <2>4. conn'[Own(t)] = writeConnection
    BY <1>5, <2>2, Zenon DEF Store, PoolTypeOK
  <2> QED
    BY <2>3, <2>4, Zenon
<1> QED
  BY <1>1, <1>3, <1>7, Zenon

(* A transaction call notes when it is made within a step query, and        *)
(* RollBack notes itself.                                                   *)
LEMMA NotedQuery ==
    ASSUME NEW t, NEW o, Note(t, o)
    PROVE  /\ isInStepQuery[Own(t)] => "inStepQuery" \in noted'
           /\ o = "RollBack" => "rollBack" \in noted'
BY Zenon DEF Note, Own

(* Where a call goes on, and that it is the same.                           *)
LEMMA GotoFacts ==
    ASSUME Store, NEW t \in Threads, NEW place, Goto(t, place)
    PROVE  pc'[t] = place /\ (place # "idle" => op'[t] = op[t])
<1>1. StoreTypes /\ pc \in [Threads -> Places]
  BY Zenon DEF Store, CallInv
<1>2. pc' = [pc EXCEPT ![t] = place]
  BY Zenon DEF Goto
<1> QED
  BY <1>1, <1>2, GotoMoves, Zenon

(* Counting a transaction call sets owner and depth.                        *)
LEMMA CountOutcome ==
    ASSUME Store, NEW t \in Threads, NEW n \in Int, NEW b \in BOOLEAN, Count(t, n, b),
           b => pc'[t] \notin Busy \cup {"pop"}
    PROVE  /\ Turned(t) /\ depth' = Plus(depth, n)
           /\ n = 0 => depth' = depth
           /\ n = 1 => depth' = depth + 1
<1>1. depth' = Plus(depth, n)
  BY Zenon DEF Count, Plus
<1> QED
  BY <1>1, Owners, Zenon

(* A transaction call that begins, or is refused, leaves the transactions   *)
(* alone.                                                                   *)
LEMMA Requests ==
    ASSUME Store, NEW t \in Threads, NEW o \in TransactionCalls,
           NEW place \in {"idle", "acquire", "pop", "crashed"}, NEW a, Call(t, o, place, a),
           Note(t, o), NEW b \in BOOLEAN, Count(t, 0, b),
           UNCHANGED transactionStack, UNCHANGED inTransaction,
           b => place \in {"idle", "crashed"},
           place = "acquire" /\ o = "Commit" => transactionStack # <<>> /\ Top.id = 0,
           place = "pop" => o = "Commit" /\ transactionStack # <<>> /\ Top.id # 0
    PROVE  Outcome(t)
<1>1. pc'[t] = place /\ (place # "idle" => op'[t] = o)
  BY CallMoves, Zenon DEF Store, Moves, CallInv
<1>2. 0 \in Int
  OBVIOUS
<1>3. b => pc'[t] \notin Busy \cup {"pop"}
  BY <1>1, Zenon DEF Busy
<1>4. Turned(t) /\ depth' = depth
  BY <1>2, <1>3, CountOutcome, Zenon
<1>5. Alone(t) /\ (o = "RollBack" => "rollBack" \in noted')
  BY Noted, NotedQuery, Zenon
<1>6. StackStays
  BY <1>4, StackIds, Zenon DEF StackStays
<1>7. Transacting(t)' => /\ op'[t] = o
                         /\ pc'[t] \in Busy => place = "acquire"
  BY <1>1, Zenon DEF Transacting, Busy
<1>8. Requested(t)
  BY <1>1, <1>5, <1>6, <1>7, Zenon DEF Requested
<1> QED
  BY <1>4, <1>5, <1>8, Zenon DEF Outcome

(* So does one that is given up.                                            *)
LEMMA Abandons ==
    ASSUME Store, NEW t \in Threads, At(t, "execute"), op[t] \in TransactionCalls, Goto(t, "idle"),
           Count(t, 0, TRUE), UNCHANGED transactionStack, UNCHANGED inTransaction
    PROVE  Outcome(t)
<1>1. pc'[t] = "idle"
  BY GotoFacts, Zenon
<1>2. pc'[t] \notin Busy \cup {"pop"} /\ ~Transacting(t)'
  BY <1>1, Zenon DEF Busy, Transacting
<1>3. 0 \in Int /\ TRUE \in BOOLEAN
  OBVIOUS
<1>4. Turned(t) /\ depth' = depth
  BY <1>2, <1>3, CountOutcome, Zenon
<1>5. Transacting(t)
  BY Zenon DEF At, Transacting, Busy
<1>6. Requested(t)
  BY <1>2, <1>4, StackIds, Zenon DEF Requested, StackStays
<1> QED
  BY <1>4, <1>5, <1>6, Zenon DEF Outcome, Alone

(* One that has begun a transaction has pushed it.                          *)
LEMMA Pushes ==
    ASSUME Store, NEW t \in Threads, Alone(t), pc'[t] = "idle", Count(t, 1, TRUE), NEW k,
           transactionStack' = Append(transactionStack, BaseTransaction(Len(transactionStack), k))
    PROVE  Outcome(t)
<1>1. pc'[t] \notin Busy \cup {"pop"} /\ ~Transacting(t)'
  BY Zenon DEF Busy, Transacting
<1>2. 1 \in Int /\ TRUE \in BOOLEAN
  OBVIOUS
<1>3. Turned(t) /\ depth' = depth + 1
  BY <1>1, <1>2, CountOutcome, Zenon
<1>4. Pushed(t)
  BY <1>1, <1>3, StackIds, Zenon DEF Pushed
<1> QED
  BY <1>3, <1>4, Zenon DEF Outcome

(* One that fails changes no transaction.                                   *)
LEMMA FailOutcome ==
    ASSUME Store, NEW t \in Threads, At(t, "execute"), op[t] \in TransactionCalls, Fail(t)
    PROVE  Outcome(t) /\ UNCHANGED inTransaction
<1>1. /\ Goto(t, "idle") /\ Count(t, 0, TRUE) /\ UNCHANGED transactionStack
      /\ UNCHANGED inTransaction
  BY Zenon DEF Fail, EndCall, sqliteVars
<1> QED
  BY <1>1, Abandons, Zenon

(* SQLite puts at most the connection of the session into a transaction.       *)
LEMMA SqlFacts ==
    ASSUME NEW c
    PROVE  /\ \A id : ExecuteBegin(c, id) => inTransaction' = inTransaction \cup {c}
           /\ SqlBegin(c) => c.isWriteConnection /\ inTransaction' = inTransaction \cup {c}
           /\ SqlEnd(c) => inTransaction' = inTransaction \ {c}
           /\ \A id : ExecuteRollback(c, id) => inTransaction' \subseteq inTransaction
           /\ UNCHANGED sqliteVars => inTransaction' = inTransaction
BY Zenon DEF ExecuteBegin, SqlBegin, SqlSavepoint, SqlEnd, ExecuteRollback, SqlRollBackTo, sqliteVars

(* The connections that a step may put into a transaction.                     *)
Entered == inTransaction \cup {conn[s] : s \in Sessions}

(* The outcomes of the steps of transactions without an observer ...        *)
LEMMA TransactionOutcomes ==
    ASSUME Store, NEW t \in Threads
    PROVE  CallBeginTransaction(t) \/ BeginTransaction(t) \/ CallCommit(t) \/ Commit(t)
              \/ PopAfterCommit(t) \/ CallRollBack(t) \/ RollBack(t)
              => Outcome(t) /\ inTransaction' \subseteq Entered
<1>0. 0 \in Int /\ 1 \in Int /\ -1 \in Int /\ TRUE \in BOOLEAN /\ FALSE \in BOOLEAN
  OBVIOUS
<1>i. UNCHANGED inTransaction => inTransaction' \subseteq Entered
  BY Zenon DEF Entered
<1>s. /\ UNCHANGED sqliteVars => UNCHANGED inTransaction
      /\ pc[t] = "execute" => Session(t) \in Sessions /\ Own(t) = Session(t)
  BY Zenon DEF sqliteVars, Store, Owned, Busy
<1>g. \A place : Goto(t, place) => pc'[t] = place /\ (place # "idle" => op'[t] = op[t])
  BY GotoFacts, Zenon
<1>1. ASSUME CallBeginTransaction(t) PROVE Outcome(t) /\ UNCHANGED inTransaction
  <2>1. /\ Call(t, "BeginTransaction", "acquire", NoArg) /\ Note(t, "BeginTransaction")
        /\ Count(t, 0, FALSE) /\ UNCHANGED transactionStack /\ UNCHANGED inTransaction
    BY <1>1, <1>s, Zenon DEF CallBeginTransaction
  <2>2. "BeginTransaction" \in TransactionCalls
    BY Zenon DEF TransactionCalls
  <2> QED
    BY <1>0, <2>1, <2>2, Requests, Zenon
<1>2. ASSUME BeginTransaction(t) PROVE Outcome(t) /\ inTransaction' \subseteq Entered
  <2>1. At(t, "execute") /\ op[t] \in TransactionCalls /\ pc[t] = "execute"
    BY <1>2, Zenon DEF BeginTransaction, TransactionCalls, At
  <2>2. CASE /\ ExecuteBegin(conn[Session(t)], Len(transactionStack))
             /\ transactionStack' = Append(transactionStack,
                                           BaseTransaction(Len(transactionStack), NoSession))
             /\ EndCall(t, "idle", FALSE)
             /\ Count(t, 1, TRUE)
    <3>1. inTransaction' = inTransaction \cup {conn[Session(t)]}
      BY <2>2, SqlFacts, Zenon
    <3>2. pc'[t] = "idle" /\ Alone(t)
      BY <1>g, <2>1, <2>2, Zenon DEF EndCall, Alone, Transacting, Busy
    <3>3. inTransaction' \subseteq Entered
      BY <1>s, <2>1, <3>1, Zenon DEF Entered
    <3> QED
      BY <2>2, <3>2, <3>3, Pushes, Zenon
  <2>3. CASE Fail(t)
    BY <1>i, <2>1, <2>3, FailOutcome, Zenon
  <2>4. CASE EndCall(t, "idle", FALSE) /\ Count(t, 0, TRUE) /\ UNCHANGED <<transactionStack, sqliteVars>>
    <3>1. Goto(t, "idle") /\ UNCHANGED transactionStack /\ UNCHANGED inTransaction
      BY <1>s, <2>4, Zenon DEF EndCall
    <3> QED
      BY <1>i, <2>1, <2>4, <3>1, Abandons, Zenon
  <2> QED
    BY <1>2, <2>2, <2>3, <2>4, Zenon DEF BeginTransaction
<1>3. ASSUME CallCommit(t) PROVE Outcome(t) /\ UNCHANGED inTransaction
  <2> DEFINE place == IF transactionStack = <<>> THEN "idle"
                      ELSE IF Top.id = 0 THEN "acquire" ELSE "pop"
  <2>1. /\ Call(t, "Commit", place, NoArg) /\ Note(t, "Commit")
        /\ Count(t, 0, transactionStack = <<>>) /\ UNCHANGED transactionStack
        /\ UNCHANGED inTransaction
    BY <1>3, <1>s, Zenon DEF CallCommit
  <2>2. /\ "Commit" \in TransactionCalls /\ (transactionStack = <<>>) \in BOOLEAN
        /\ place \in {"idle", "acquire", "pop", "crashed"}
        /\ transactionStack = <<>> => place \in {"idle", "crashed"}
        /\ place = "acquire" => transactionStack # <<>> /\ Top.id = 0
        /\ place = "pop" => transactionStack # <<>> /\ Top.id # 0
    BY Zenon DEF TransactionCalls
  <2> HIDE DEF place
  <2> QED
    BY <2>1, <2>2, Requests, Zenon
<1>4. ASSUME Commit(t) PROVE Outcome(t) /\ inTransaction' \subseteq Entered
  <2>1. At(t, "execute") /\ op[t] \in TransactionCalls /\ pc[t] = "execute" /\ op[t] = "Commit"
    BY <1>4, Zenon DEF Commit, TransactionCalls, At
  <2>2. CASE /\ SqlEnd(conn[Session(t)]) /\ EndCall(t, "pop", FALSE) /\ Count(t, 0, FALSE)
             /\ UNCHANGED transactionStack
    <3>1. inTransaction' = inTransaction \ {conn[Own(t)]}
      BY <1>s, <2>1, <2>2, SqlFacts, Zenon
    <3>2. pc'[t] = "pop" /\ op'[t] = "Commit"
      <4>1. Goto(t, "pop")
        BY <2>2, Zenon DEF EndCall
      <4>2. "pop" # "idle"
        OBVIOUS
      <4>3. pc'[t] = "pop" /\ op'[t] = op[t]
        BY <1>g, <4>1, <4>2, Zenon
      <4> QED
        BY <2>1, <4>3, Zenon
    <3>3. Turned(t) /\ depth' = depth
      BY <1>0, <2>2, CountOutcome, Zenon
    <3>4. Committed(t)
      BY <2>1, <2>2, <3>1, <3>2, <3>3, StackIds, Zenon DEF Committed, StackStays
    <3>5. Alone(t)
      BY <2>1, Zenon DEF Alone, Transacting, Busy
    <3> QED
      BY <3>1, <3>3, <3>4, <3>5, Zenon DEF Outcome, Entered
  <2>3. CASE Fail(t)
    BY <1>i, <2>1, <2>3, FailOutcome, Zenon
  <2> QED
    BY <1>4, <2>2, <2>3, Zenon DEF Commit
<1>5. ASSUME PopAfterCommit(t) PROVE Outcome(t) /\ UNCHANGED inTransaction
  <2>1. /\ pc[t] = "pop" /\ transactionStack' = Popped /\ Count(t, -1, TRUE)
        /\ UNCHANGED inTransaction /\ pc'[t] = "idle"
    BY <1>5, <1>g, <1>s, Zenon DEF PopAfterCommit, At
  <2>2. pc'[t] \notin Busy \cup {"pop"} /\ ~Transacting(t)' /\ Alone(t)
    BY <2>1, Zenon DEF Busy, Transacting, Alone
  <2>3. Turned(t) /\ depth' = Plus(depth, -1)
    BY <1>0, <2>1, <2>2, CountOutcome, Zenon
  <2>4. PoppedAfter(t)
    BY <2>1, <2>2, <2>3, StackIds, Zenon DEF PoppedAfter
  <2> QED
    BY <2>1, <2>2, <2>3, <2>4, Zenon DEF Outcome
<1>6. ASSUME CallRollBack(t) PROVE Outcome(t) /\ UNCHANGED inTransaction
  <2> DEFINE place == IF transactionStack = <<>> THEN "idle" ELSE "acquire"
  <2>1. /\ Call(t, "RollBack", place, Top.id) /\ Note(t, "RollBack")
        /\ Count(t, 0, transactionStack = <<>>) /\ UNCHANGED transactionStack
        /\ UNCHANGED inTransaction
    BY <1>6, <1>s, Zenon DEF CallRollBack
  <2>2. /\ "RollBack" \in TransactionCalls /\ (transactionStack = <<>>) \in BOOLEAN
        /\ place \in {"idle", "acquire", "pop", "crashed"} /\ place # "pop"
        /\ transactionStack = <<>> => place \in {"idle", "crashed"}
    BY Zenon DEF TransactionCalls
  <2> HIDE DEF place
  <2> QED
    BY <2>1, <2>2, Requests, Zenon
<1>7. ASSUME RollBack(t) PROVE Outcome(t) /\ inTransaction' \subseteq Entered
  <2>1. pc[t] = "execute" /\ op[t] = "RollBack"
    BY <1>7, Zenon DEF RollBack, At
  <2>2. Outcome(t)
    BY <2>1, Zenon DEF Outcome, Transacting, Busy, TransactionCalls
  <2>3. ExecuteRollback(conn[Session(t)], arg[t]) \/ UNCHANGED sqliteVars
    BY <1>7, Zenon DEF RollBack, Fail
  <2>4. inTransaction' \subseteq inTransaction
    BY <2>3, SqlFacts, Zenon
  <2> QED
    BY <2>2, <2>4, Zenon DEF Entered
<1> QED
  BY <1>i, <1>1, <1>2, <1>3, <1>4, <1>5, <1>6, <1>7, Zenon

(* EndTransaction and the first half of GiveConnectionTemporarily end the   *)
(* outermost transaction, an inner one or none.                             *)
LEMMA Endings ==
    ASSUME Store, NEW t \in Threads, NEW o, NEW place, NEW a, Call(t, o, place, a), Note(t, o),
           place # "pop", o = "GiveConnectionTemporarily" \/ place \in {"idle", "crashed"},
           NEW b \in BOOLEAN, b => place \in {"idle", "crashed"},
           \/ EndOutermost(t, Own(t), b) /\ conn[Own(t)] # Null
           \/ /\ Len(transactionStack) > 1 /\ transactionStack' = EndTop /\ Count(t, -1, b)
              /\ UNCHANGED inTransaction
           \/ /\ transactionStack' = <<>> \/ UNCHANGED transactionStack
              /\ Count(t, 0, b) /\ UNCHANGED inTransaction
    PROVE  Outcome(t) /\ inTransaction' \subseteq Entered
<1>0. /\ 0 \in Int /\ -1 \in Int
      /\ 0 \in 0..Len(transactionStack) /\ Len(transactionStack) \in 0..Len(transactionStack)
  <2>1. transactionStack \in Seq(Transactions)
    BY Zenon DEF Store, StoreTypes, CallTypes
  <2> QED
    BY <2>1
<1>1. pc'[t] = place /\ pc[t] = "idle" /\ SessionLeft(t) /\ (place # "idle" => op'[t] = o)
  BY CallMoves, Zenon DEF Store, Moves, CallInv
<1>2. b => pc'[t] \notin Busy \cup {"pop"}
  BY <1>1, Zenon DEF Busy
<1>3. Alone(t) /\ (isInStepQuery[Own(t)] => "inStepQuery" \in noted')
  BY Noted, NotedQuery, Zenon
<1>4. Transacting(t)' => op'[t] = "GiveConnectionTemporarily"
  BY <1>1, Zenon DEF Transacting, Busy
<1>5. CASE EndOutermost(t, Own(t), b) /\ conn[Own(t)] # Null
  <2>1. Shrinks(0)
    BY <1>5, StackIds, Zenon DEF EndOutermost
  <2>2. CASE SqlEnd(conn[Own(t)]) /\ Count(t, -1, b)
    <3>1. Turned(t) /\ depth' = Plus(depth, -1)
      BY <1>0, <1>2, <2>2, CountOutcome, Zenon
    <3>2. inTransaction' = inTransaction \ {conn[Own(t)]}
      BY <2>2, SqlFacts, Zenon
    <3>3. Ended(t)
      BY <1>1, <1>3, <1>4, <1>5, <2>1, <3>1, <3>2, Zenon DEF Ended
    <3> QED
      BY <1>3, <3>1, <3>2, <3>3, Zenon DEF Outcome, Entered
  <2>3. CASE UNCHANGED sqliteVars /\ Count(t, 0, b)
    <3>1. Turned(t) /\ depth' = depth
      BY <1>0, <1>2, <2>3, CountOutcome, Zenon
    <3>2. UNCHANGED inTransaction
      BY <2>3, Zenon DEF sqliteVars
    <3>3. Ended(t)
      BY <1>0, <1>1, <1>3, <1>4, <2>1, <3>1, <3>2, Zenon DEF Ended
    <3> QED
      BY <1>3, <3>1, <3>2, <3>3, Zenon DEF Outcome, Entered
  <2> QED
    BY <1>5, <2>2, <2>3, Zenon DEF EndOutermost
<1>6. CASE /\ Len(transactionStack) > 1 /\ transactionStack' = EndTop /\ Count(t, -1, b)
           /\ UNCHANGED inTransaction
  <2>1. Turned(t) /\ depth' = Plus(depth, -1)
    BY <1>0, <1>2, <1>6, CountOutcome, Zenon
  <2>2. Ended(t)
    BY <1>1, <1>3, <1>4, <1>6, <2>1, StackIds, Zenon DEF Ended
  <2> QED
    BY <1>3, <1>6, <2>1, <2>2, Zenon DEF Outcome, Entered
<1>7. CASE /\ transactionStack' = <<>> \/ UNCHANGED transactionStack
           /\ Count(t, 0, b) /\ UNCHANGED inTransaction
  <2>1. Turned(t) /\ depth' = depth
    BY <1>0, <1>2, <1>7, CountOutcome, Zenon
  <2>2. \E n \in 0..Len(transactionStack) : Shrinks(n)
    BY <1>0, <1>7, StackIds, Zenon
  <2>3. Ended(t)
    BY <1>1, <1>3, <1>4, <1>7, <2>1, <2>2, Zenon DEF Ended
  <2> QED
    BY <1>3, <1>7, <2>1, <2>3, Zenon DEF Outcome, Entered
<1> QED
  BY <1>5, <1>6, <1>7, Zenon

(* ... and of those with an observer.                                       *)
LEMMA ObserverOutcomes ==
    ASSUME Store, NEW t \in Threads
    PROVE  CallBeginTransactionWithObserver(t) \/ BeginTransactionWithObserver(t)
              \/ MarkAsCommit(t) \/ EndTransaction(t) \/ GiveConnectionTemporarily(t)
              => Outcome(t) /\ inTransaction' \subseteq Entered
<1>0. 0 \in Int /\ 1 \in Int /\ TRUE \in BOOLEAN /\ FALSE \in BOOLEAN
  BY SMTT(30)
<1>i. UNCHANGED inTransaction => inTransaction' \subseteq Entered
  BY Zenon DEF Entered
<1>s. /\ UNCHANGED sqliteVars => UNCHANGED inTransaction
      /\ pc[t] = "execute" => Session(t) \in Sessions /\ Own(t) = Session(t)
  BY Zenon DEF sqliteVars, Store, Owned, Busy
<1>1. ASSUME CallBeginTransactionWithObserver(t) PROVE Outcome(t) /\ UNCHANGED inTransaction
  <2>0. "BeginTransactionWithObserver" \in TransactionCalls
    BY Zenon DEF TransactionCalls
  <2>1. Note(t, "BeginTransactionWithObserver") /\ UNCHANGED inTransaction
    BY <1>1, <1>s, Zenon DEF CallBeginTransactionWithObserver
  <2>2. CASE transactionStack = <<>>
    <3>1. /\ Call(t, "BeginTransactionWithObserver", "acquire", NoArg)
          /\ Count(t, 0, FALSE) /\ UNCHANGED transactionStack
      BY <1>1, <2>2, Zenon DEF CallBeginTransactionWithObserver
    <3> QED
      BY <1>0, <2>0, <2>1, <3>1, Requests, Zenon
  <2>3. CASE transactionStack # <<>>
    <3>1. /\ Call(t, "BeginTransactionWithObserver", "idle", NoArg) /\ Count(t, 1, TRUE)
          /\ transactionStack' = Append(transactionStack,
                                        BaseTransaction(Len(transactionStack), NoSession))
      BY <1>1, <2>3, Zenon DEF CallBeginTransactionWithObserver
    <3>2. pc'[t] = "idle"
      BY <3>1, Zenon DEF Call, Store, CallInv
    <3>3. Alone(t)
      BY <2>1, Noted, Zenon
    <3> QED
      BY <2>1, <3>1, <3>2, <3>3, Pushes, Zenon
  <2> QED
    BY <2>2, <2>3, Zenon
<1>2. ASSUME BeginTransactionWithObserver(t) PROVE Outcome(t) /\ inTransaction' \subseteq Entered
  <2>1. At(t, "execute") /\ op[t] \in TransactionCalls /\ pc[t] = "execute"
    BY <1>2, Zenon DEF BeginTransactionWithObserver, TransactionCalls, At
  <2>2. CASE /\ SqlBegin(conn[Session(t)]) /\ Goto(t, "idle") /\ Count(t, 1, TRUE)
             /\ transactionStack' = Append(transactionStack,
                                           BaseTransaction(Len(transactionStack), Session(t)))
    <3>1. inTransaction' = inTransaction \cup {conn[Session(t)]}
      BY <2>2, SqlFacts, Zenon
    <3>2. pc'[t] = "idle" /\ Alone(t)
      BY <2>1, <2>2, GotoFacts, Zenon DEF Alone, Transacting, Busy
    <3>3. inTransaction' \subseteq Entered
      BY <1>s, <2>1, <3>1, Zenon DEF Entered
    <3> QED
      BY <2>2, <3>2, <3>3, Pushes, Zenon
  <2>3. CASE Fail(t)
    BY <1>i, <2>1, <2>3, FailOutcome, Zenon
  <2> QED
    BY <1>2, <2>2, <2>3, Zenon DEF BeginTransactionWithObserver
<1>3. ASSUME MarkAsCommit(t) PROVE Outcome(t) /\ UNCHANGED inTransaction
  <2>1. /\ UNCHANGED inTransaction /\ depth' = depth /\ owner' = owner
        /\ transactionStack' = IF transactionStack = <<>> THEN <<>> ELSE MarkTop
    BY <1>3, <1>s, Zenon DEF MarkAsCommit
  <2>2. Plain(t)
    <3>1. StackKept
      BY <2>1, KeepersFacts, Zenon
    <3> QED
      BY <1>3, <2>1, <3>1, ObserverKinds, KindPlain, Zenon
  <2>3. Shrinks(Len(transactionStack))
    BY <2>1, StackIds, Zenon
  <2> QED
    BY <2>1, <2>2, <2>3, Zenon DEF Outcome, Unrelated, StackStays
<1>4. ASSUME EndTransaction(t) PROVE Outcome(t) /\ inTransaction' \subseteq Entered
  <2> DEFINE crashes == Len(transactionStack) = 1 /\ conn[Own(t)] = Null
             place == IF crashes THEN "crashed" ELSE "idle"
  <2>1. Call(t, "EndTransaction", place, NoArg) /\ Note(t, "EndTransaction")
    BY <1>4, Zenon DEF EndTransaction, Own
  <2>2. place \in {"idle", "crashed"} /\ place # "pop"
    BY Zenon
  <2>3. IF Len(transactionStack) = 1 /\ ~crashes
        THEN EndOutermost(t, Own(t), TRUE)
        ELSE /\ transactionStack' = IF Len(transactionStack) > 1 THEN EndTop ELSE <<>>
             /\ Count(t, IF Len(transactionStack) > 1 THEN -1 ELSE 0, TRUE)
             /\ UNCHANGED inTransaction
    BY <1>4, <1>s, Zenon DEF EndTransaction, Own
  <2>4. \/ EndOutermost(t, Own(t), TRUE) /\ conn[Own(t)] # Null
        \/ /\ Len(transactionStack) > 1 /\ transactionStack' = EndTop /\ Count(t, -1, TRUE)
           /\ UNCHANGED inTransaction
        \/ /\ transactionStack' = <<>> \/ UNCHANGED transactionStack
           /\ Count(t, 0, TRUE) /\ UNCHANGED inTransaction
    BY <2>3, Zenon
  <2> HIDE DEF crashes, place
  <2> QED
    BY <1>0, <2>1, <2>2, <2>4, Endings, Zenon
<1>5. ASSUME GiveConnectionTemporarily(t) PROVE Outcome(t) /\ inTransaction' \subseteq Entered
  <2> DEFINE refused == Len(transactionStack) # 1 \/ Top.markedSuccessful
             place == IF refused THEN "idle" ELSE IF conn[Own(t)] = Null THEN "crashed" ELSE "acquire"
  <2>1. Call(t, "GiveConnectionTemporarily", place, NoArg) /\ Note(t, "GiveConnectionTemporarily")
    BY <1>5, Zenon DEF GiveConnectionTemporarily, Own
  <2>2. IF ~refused /\ conn[Own(t)] # Null
        THEN EndOutermost(t, Own(t), FALSE)
        ELSE Count(t, 0, TRUE) /\ UNCHANGED transactionStack /\ UNCHANGED inTransaction
    BY <1>5, <1>s, Zenon DEF GiveConnectionTemporarily, Own
  <2>3. place # "pop" /\ (refused \/ conn[Own(t)] = Null => place \in {"idle", "crashed"})
    BY Zenon
  <2> HIDE DEF refused, place
  <2>4. CASE ~refused /\ conn[Own(t)] # Null
    BY <1>0, <2>1, <2>2, <2>3, <2>4, Endings, Zenon
  <2>5. CASE refused \/ conn[Own(t)] = Null
    BY <1>0, <2>1, <2>2, <2>3, <2>5, Endings, Zenon
  <2> QED
    BY <2>4, <2>5, Zenon
<1> QED
  BY <1>i, <1>1, <1>2, <1>3, <1>4, <1>5, Zenon

(* A step that is not transactional is unrelated to transactions.           *)
LEMMA PlainOutcome ==
    ASSUME Store, NEW t \in Threads, Plain(t), NotTransactional
    PROVE  Outcome(t) /\ inTransaction' \subseteq Entered
<1>1. UNCHANGED transactionStack /\ UNCHANGED inTransaction /\ depth' = depth
  BY Zenon DEF NotTransactional, sqliteVars
<1>2. StackStays
  BY <1>1, StackIds, Zenon DEF StackStays
<1> QED
  BY <1>1, <1>2, Zenon DEF Outcome, Unrelated, Entered

(* So are all the steps of statements and step result sets.                 *)
LEMMA StatementOutcomes ==
    ASSUME Store, NEW t \in Threads
    PROVE  /\ \A o \in Statements : CallStatement(t, o) => Outcome(t) /\ inTransaction' \subseteq Entered
           /\ Acquire(t) \/ ExecuteStatement(t) \/ Exchange(t) \/ RunExchanged(t)
                \/ ReopenAfterDdl(t) \/ IsHoldingConnection(t) \/ CallChangeEncryptKey(t)
                \/ CallRestore(t) \/ Restore(t) => Outcome(t) /\ inTransaction' \subseteq Entered
           /\ \A r \in ResultSets :
                 /\ CallPrepareStep(t, r) \/ PrepareSecondStep(t, r) \/ CloseInOtherThread(t, r)
                       => Outcome(t) /\ inTransaction' \subseteq Entered
                 /\ \A closes \in BOOLEAN :
                       FinishStep(t, r, closes) => Outcome(t) /\ inTransaction' \subseteq Entered
           /\ PrepareStep(t) => Outcome(t) /\ inTransaction' \subseteq Entered
<1>1. /\ \A o \in Statements : CallStatement(t, o) => NotTransactional
      /\ Acquire(t) \/ ExecuteStatement(t) \/ Exchange(t) \/ RunExchanged(t) => NotTransactional
      /\ ReopenAfterDdl(t) \/ IsHoldingConnection(t) \/ CallChangeEncryptKey(t) => NotTransactional
      /\ CallRestore(t) \/ Restore(t) => NotTransactional
  BY Zenon DEF CallStatement, Acquire, ExecuteStatement, Exchange, RunExchanged, ReopenAfterDdl,
               IsHoldingConnection, CallChangeEncryptKey, CallRestore, Restore
<1>2. /\ \A r \in ResultSets :
            /\ CallPrepareStep(t, r) \/ PrepareSecondStep(t, r) \/ CloseInOtherThread(t, r)
                  => NotTransactional
            /\ \A closes \in BOOLEAN : FinishStep(t, r, closes) => NotTransactional
      /\ PrepareStep(t) => NotTransactional
  BY Zenon DEF CallPrepareStep, PrepareSecondStep, CloseInOtherThread, FinishStep, PrepareStep
<1>3. NotTransactional /\ Plain(t) => Outcome(t) /\ inTransaction' \subseteq Entered
  BY PlainOutcome, Zenon
<1>4. /\ \A o \in Statements : CallStatement(t, o) => NotTransactional /\ Plain(t)
      /\ Acquire(t) \/ ExecuteStatement(t) \/ Exchange(t) \/ RunExchanged(t)
                \/ ReopenAfterDdl(t) \/ IsHoldingConnection(t) \/ CallChangeEncryptKey(t)
                \/ CallRestore(t) \/ Restore(t) => NotTransactional /\ Plain(t)
  BY <1>1, StatementEffects, Zenon
<1>5. /\ \A r \in ResultSets :
            /\ CallPrepareStep(t, r) \/ PrepareSecondStep(t, r) \/ CloseInOtherThread(t, r)
                  => NotTransactional /\ Plain(t)
            /\ \A closes \in BOOLEAN : FinishStep(t, r, closes) => NotTransactional /\ Plain(t)
      /\ PrepareStep(t) => NotTransactional /\ Plain(t)
  BY <1>2, StepEffects, Zenon
<1> QED
  BY <1>3, <1>4, <1>5, Zenon

(* Of these only Acquire takes a transaction call further, and then with    *)
(* the write connection.                                                    *)
LEMMA StatementGranted ==
    ASSUME Store, WriterHeld, NEW t \in Threads
    PROVE  /\ \A o \in Statements : CallStatement(t, o) => Granted(t)
           /\ Acquire(t) \/ ExecuteStatement(t) \/ Exchange(t) \/ RunExchanged(t)
                \/ ReopenAfterDdl(t) \/ IsHoldingConnection(t) \/ CallChangeEncryptKey(t)
                \/ CallRestore(t) \/ Restore(t) => Granted(t)
           /\ \A r \in ResultSets :
                 /\ CallPrepareStep(t, r) \/ PrepareSecondStep(t, r) \/ CloseInOtherThread(t, r)
                       => Granted(t)
                 /\ \A closes \in BOOLEAN : FinishStep(t, r, closes) => Granted(t)
           /\ PrepareStep(t) => Granted(t)
<1>0. pc \in [Threads -> Places] /\ op \in [Threads -> Ops]
  BY Zenon DEF Store, CallInv, StoreTypes, CallTypes
<1>c. ASSUME NEW o, NEW place, NEW a, Call(t, o, place, a), o \notin TransactionCalls
      PROVE  op'[t] \notin TransactionCalls
  <2>1. op'[t] \in {o, NoArg}
    BY <1>0, <1>c, Zenon DEF Call
  <2>2. NoArg \notin TransactionCalls
    BY DEF NoArg, TransactionCalls
  <2> QED
    BY <1>c, <2>1, <2>2, Zenon
<1>1. ASSUME NEW o \in Statements, CallStatement(t, o) PROVE Granted(t)
  <2>1. o \notin TransactionCalls
    BY <1>1 DEF Statements, TransactionCalls
  <2>2. Call(t, o, "acquire", NoArg)
    BY <1>1, Zenon DEF CallStatement
  <2> QED
    BY <1>1, <1>c, <2>1, <2>2, StatementKinds, GrantedKinds, Zenon
<1>2. ASSUME IsHoldingConnection(t) PROVE Granted(t)
  <2>1. NoArg \notin TransactionCalls
    BY DEF NoArg, TransactionCalls
  <2>2. Call(t, NoArg, "idle", NoArg)
    BY <1>2, Zenon DEF IsHoldingConnection
  <2> QED
    BY <1>2, <1>c, <2>1, <2>2, StatementKinds, GrantedKinds, Zenon
<1>3. ASSUME NEW r \in ResultSets, CallPrepareStep(t, r) PROVE Granted(t)
  <2>1. "PrepareStep" \notin TransactionCalls
    BY DEF TransactionCalls
  <2>2. Call(t, "PrepareStep", "acquire", r)
    BY <1>3, Zenon DEF CallPrepareStep
  <2> QED
    BY <1>3, <1>c, <2>1, <2>2, StepKinds, GrantedKinds, Zenon
<1>4. ASSUME Exchange(t) PROVE Granted(t)
  <2>1. Goto(t, "run") \/ Goto(t, "crashed")
    BY <1>4, Zenon DEF Exchange
  <2>2. pc'[t] \in {"run", "crashed"}
    BY <2>1, GotoFacts, Zenon
  <2>3. ~Transacts(t)'
    BY <2>2, Zenon DEF Transacts
  <2> QED
    BY <2>3, Zenon DEF Granted
<1>5. ASSUME \/ ExecuteStatement(t) \/ RunExchanged(t) \/ ReopenAfterDdl(t)
             \/ CallChangeEncryptKey(t) \/ CallRestore(t) \/ Restore(t) \/ PrepareStep(t)
      PROVE  Granted(t)
  BY <1>5, StatementKinds, StepKinds, GrantedKinds, Zenon
<1>6. ASSUME NEW r \in ResultSets,
             \/ PrepareSecondStep(t, r) \/ CloseInOtherThread(t, r)
             \/ \E closes \in BOOLEAN : FinishStep(t, r, closes)
      PROVE  Granted(t)
  BY <1>6, StepKinds, GrantedKinds, Zenon
<1> QED
  BY <1>1, <1>2, <1>3, <1>4, <1>5, <1>6, AcquireGranted, Zenon

(* A transaction call begins by waiting for its connection.                 *)
LEMMA TransactionGranted ==
    ASSUME Store, NEW t \in Threads,
           \/ CallBeginTransaction(t) \/ BeginTransaction(t) \/ CallCommit(t) \/ Commit(t)
           \/ PopAfterCommit(t) \/ CallRollBack(t) \/ RollBack(t)
           \/ CallBeginTransactionWithObserver(t) \/ BeginTransactionWithObserver(t)
           \/ MarkAsCommit(t) \/ EndTransaction(t) \/ GiveConnectionTemporarily(t)
    PROVE  Granted(t)
<1>1. ASSUME CallBeginTransaction(t) \/ CallCommit(t) \/ CallRollBack(t)
             \/ CallBeginTransactionWithObserver(t) \/ GiveConnectionTemporarily(t)
      PROVE  Granted(t)
  <2>1. \E o : Note(t, o)
    BY <1>1, Zenon DEF CallBeginTransaction, CallCommit, CallRollBack,
                       CallBeginTransactionWithObserver, GiveConnectionTemporarily
  <2>2. isInStepQuery[Own(t)] => "inStepQuery" \in noted'
    BY <2>1, NotedQuery, Zenon
  <2> QED
    BY <1>1, <2>2, TransactionKinds, ObserverKinds, GrantedKinds, Zenon
<1>2. ASSUME \/ BeginTransaction(t) \/ Commit(t) \/ PopAfterCommit(t) \/ RollBack(t)
             \/ BeginTransactionWithObserver(t) \/ MarkAsCommit(t) \/ EndTransaction(t)
      PROVE  Granted(t)
  BY <1>2, TransactionKinds, ObserverKinds, GrantedKinds, Zenon
<1> QED
  BY <1>1, <1>2, Zenon

(* BeginTransactionWithObserver keeps the write connection.                 *)
LEMMA BeginKept ==
    ASSUME Store, NEW t \in Threads, BeginTransactionWithObserver(t)
    PROVE  ReadKind(t)
<1>1. At(t, "execute") /\ (SqlBegin(conn[Session(t)]) \/ Fail(t))
  BY Zenon DEF BeginTransactionWithObserver
<1>2. CASE Fail(t)
  BY <1>1, <1>2, FailKind, Zenon DEF ReadKind, Ordinary
<1>3. CASE SqlBegin(conn[Session(t)])
  <2>1. conn[Session(t)].isWriteConnection
    BY <1>3, SqlFacts, Zenon
  <2>2. Own(t) = Session(t)
    BY <1>1, Zenon DEF At, Busy, Store, Owned
  <2> QED
    BY <2>1, <2>2, ObserverKinds, Zenon DEF ReadKind, Ordinary
<1> QED
  BY <1>1, <1>2, <1>3, Zenon

(* Every step of the store is of one of the kinds, respects ReadInv and has *)
(* one of the outcomes; a connection enters a transaction only if a session *)
(* has it.                                                                  *)
LEMMA NextOutcome ==
    ASSUME Store, WriterHeld, Next
    PROVE  \E t \in Threads : /\ Kind(t) /\ Steps(t) /\ ReadKind(t) /\ Granted(t) /\ Outcome(t)
                              /\ inTransaction' \subseteq Entered
<1>1. PICK t \in Threads :
         \/ \E o \in Statements : CallStatement(t, o)
         \/ Acquire(t) \/ ExecuteStatement(t) \/ Exchange(t) \/ RunExchanged(t) \/ ReopenAfterDdl(t)
         \/ IsHoldingConnection(t) \/ CallChangeEncryptKey(t) \/ CallRestore(t) \/ Restore(t)
         \/ CallBeginTransaction(t) \/ BeginTransaction(t)
         \/ CallCommit(t) \/ Commit(t) \/ PopAfterCommit(t)
         \/ CallRollBack(t) \/ RollBack(t)
         \/ CallBeginTransactionWithObserver(t) \/ BeginTransactionWithObserver(t)
         \/ MarkAsCommit(t) \/ EndTransaction(t) \/ GiveConnectionTemporarily(t)
         \/ \E r \in ResultSets :
               \/ CallPrepareStep(t, r) \/ PrepareSecondStep(t, r) \/ CloseInOtherThread(t, r)
               \/ \E closes \in BOOLEAN : FinishStep(t, r, closes)
         \/ PrepareStep(t)
  BY Zenon DEF Next
<1>2. ReadKind(t) /\ Steps(t)
  BY <1>1, StatementKinds, TransactionKinds, ObserverKinds, StepKinds, BeginKept, Zenon
     DEF ReadKind, Ordinary
<1>3. Kind(t)
  BY <1>2, Zenon DEF ReadKind, Ordinary, Kind
<1>4. Granted(t)
  BY <1>1, StatementGranted, TransactionGranted, Zenon
<1>5. Outcome(t) /\ inTransaction' \subseteq Entered
  BY <1>1, StatementOutcomes, TransactionOutcomes, ObserverOutcomes, Zenon
<1> QED
  BY <1>2, <1>3, <1>4, <1>5, Zenon

=============================================================================
