---------------------------- MODULE RdbUseProofs ----------------------------
(***************************************************************************)
(* How the steps of RdbStore, by kind, use sessions, connections and step  *)
(* queries, and which invariants that preserves.  That every action is a   *)
(* step of these kinds is in RdbActionProofs; the theorems are in          *)
(* RdbStoreProofs.                                                         *)
(***************************************************************************)
EXTENDS RdbKinds, TLAPS

-----------------------------------------------------------------------------
(* What Owned says of a thread.                                             *)
LEMMA OwnFacts ==
    ASSUME Owned, NEW t \in Threads
    PROVE  /\ Session(t) # NoSession => Own(t) = Session(t)
           /\ Session(t) # NoSession <=> threadMap[t].useCount > 0
           /\ Session(t) # NoSession => Session(t) \in Sessions
           /\ SessionLeft(t) => /\ Own(t) \in Sessions
                                /\ \A u \in Threads : u # t => Session(u) # Own(t)
           /\ Session(t) # NoSession => SessionLeft(t)
           /\ pc[t] \in Busy => Session(t) # NoSession
           /\ threadMap[t].useCount \in Nat
BY Zenon DEF Owned

(* A step of any kind changes the uses of a session and of its connection   *)
(* by at most one, and only the query of its own session.                   *)
LEMMA KindMoves ==
    ASSUME Store, NEW t \in Threads, Kind(t)
    PROVE  /\ \E d \in {-1, 0, 1} : Turns(t, d)
           /\ \E d \in {-1, 0, 1} : Linked(t, d) /\ (d # 0 => SessionLeft(t))
           /\ \E place \in Places : Moves(t, place)
           /\ \/ UNCHANGED isInStepQuery
              \/ /\ SessionLeft(t)
                 /\ \E b \in BOOLEAN : isInStepQuery' = [isInStepQuery EXCEPT ![Own(t)] = b]
<1>0. /\ Session(t) # NoSession => Own(t) = Session(t)
      /\ pc[t] \in Busy => Session(t) # NoSession
      /\ Session(t) # NoSession => SessionLeft(t)
  BY OwnFacts DEF Store
<1> USE DEF Places, Busy, Same
<1>1. CASE Begins(t)
  BY <1>1 DEF Begins
<1>2. CASE Passes(t)
  BY <1>2 DEF Passes
<1>3. CASE Acquires(t)
  BY <1>0, <1>3 DEF Acquires
<1>4. CASE Ends(t)
  BY <1>0, <1>4 DEF Ends
<1>5. CASE Reopens(t)
  BY <1>5 DEF Reopens
<1>6. CASE Keeps(t)
  BY <1>6 DEF Keeps
<1>7. CASE Prepares(t)
  <2>1. Turns(t, 0) /\ Linked(t, 0) /\ Moves(t, "idle") /\ SessionLeft(t)
    BY <1>0, <1>7 DEF Prepares
  <2>2. isInStepQuery' = [isInStepQuery EXCEPT ![Own(t)] = TRUE]
    BY <1>0, <1>7 DEF Prepares
  <2> QED
    BY <2>1, <2>2, Zenon
<1>8. CASE Leaves(t)
  BY <1>8 DEF Leaves
<1>9. CASE Finishes(t)
  <2>1. Turns(t, -1) /\ (Linked(t, -1) \/ Linked(t, 0)) /\ Moves(t, "idle") /\ SessionLeft(t)
    BY <1>9 DEF Finishes
  <2>2. isInStepQuery' = [isInStepQuery EXCEPT ![Own(t)] = FALSE]
    BY <1>9 DEF Finishes
  <2> QED
    BY <2>1, <2>2, Zenon
<1>10. CASE Refuses(t)
  <2>1. Turns(t, 0) /\ Linked(t, -1) /\ Moves(t, "idle") /\ SessionLeft(t)
    BY <1>0, <1>10 DEF Refuses
  <2>2. isInStepQuery' = [isInStepQuery EXCEPT ![Own(t)] = FALSE]
    BY <1>10 DEF Refuses
  <2> QED
    BY <2>1, <2>2, Zenon
<1>11. CASE Closes(t)
  BY <1>11 DEF Closes
<1> QED
  BY <1>1, <1>2, <1>3, <1>4, <1>5, <1>6, <1>7, <1>8, <1>9, <1>10, <1>11, Zenon DEF Kind

(* It leaves the calls, sessions and connections of the other threads       *)
(* alone.                                                                   *)
LEMMA KindUntouched ==
    ASSUME Store, NEW t \in Threads, Kind(t)
    PROVE  Untouched(t)
<1>1. \A u \in Threads : u # t => /\ threadMap'[u] = threadMap[u] /\ Session(u)' = Session(u)
                                  /\ Session(u) # NoSession => Session(u) \in Sessions
  <2>1. \A u \in Threads : u # t => threadMap'[u] = threadMap[u]
    BY KindMoves DEF Turns
  <2>2. \A u \in Threads : Session(u) # NoSession => Session(u) \in Sessions
    BY OwnFacts DEF Store
  <2> QED
    BY <2>1, <2>2 DEF Session
<1>2. \A u \in Threads : u # t => pc'[u] = pc[u] /\ op'[u] = op[u] /\ arg'[u] = arg[u]
  BY KindMoves DEF Moves, Store, CallInv
<1>3. SessionLeft(t) => Own(t) \in Sessions /\ \A u \in Threads : u # t => Session(u) # Own(t)
  BY OwnFacts DEF Store
<1>4. ASSUME NEW x \in Sessions, x # Own(t) \/ (\E u \in Threads : u # t /\ Session(u) = x)
      PROVE  conn'[x] = conn[x] /\ connectionUseCount'[x] = connectionUseCount[x]
  <2>1. PICK d \in {-1, 0, 1} : Linked(t, d) /\ (d # 0 => SessionLeft(t))
    BY KindMoves
  <2>2. CASE x # Own(t)
    BY <2>1, <2>2 DEF Linked
  <2>3. CASE x = Own(t)
    <3>1. d = 0
      BY <1>3, <1>4, <2>1, <2>3
    <3>2. connectionUseCount[x] \in Nat
      BY DEF Store, StoreTypes
    <3> QED
      BY <2>1, <2>3, <3>1, <3>2 DEF Linked, Plus
  <2> QED
    BY <2>2, <2>3
<1>5. /\ isInStepQuery' \in [Sessions -> BOOLEAN]
      /\ \A x \in Sessions : x # Own(t) \/ (\E u \in Threads : u # t /\ Session(u) = x) =>
            isInStepQuery'[x] = isInStepQuery[x]
  <2>1. isInStepQuery \in [Sessions -> BOOLEAN]
    BY DEF Store, StoreTypes
  <2>2. CASE UNCHANGED isInStepQuery
    BY <2>1, <2>2
  <2>3. CASE SessionLeft(t) /\ \E b \in BOOLEAN : isInStepQuery' = [isInStepQuery EXCEPT ![Own(t)] = b]
    BY <1>3, <2>1, <2>3, Zenon
  <2> QED
    BY <2>2, <2>3, KindMoves
<1>6. connectionUseCount' \in [Sessions -> Nat]
  BY KindMoves DEF Linked
<1> DEFINE R == [tid : Threads \cup {NoThread}, statement : Connections, isClosed : BOOLEAN]
<1>7. resultSet \in [ResultSets -> R]
  BY Zenon DEF Store, StoreTypes
<1>8. /\ resultSet' \in [ResultSets -> R]
      /\ \A r \in ResultSets : \/ /\ resultSet'[r].statement = resultSet[r].statement
                                  /\ resultSet'[r].tid = resultSet[r].tid
                               \/ Prepares(t) /\ r = arg[t]
                               \/ Finishes(t) /\ r \in Opened(t) /\ resultSet'[r].statement = Null
  <2>1. CASE Prepares(t)
    <3>1. conn[Session(t)] \in Connections
      BY <2>1 DEF Prepares, Store, CallInv, Busy, PoolTypeOK
    <3> DEFINE y == [tid |-> t, statement |-> conn[Session(t)], isClosed |-> FALSE]
    <3>2. resultSet' = [resultSet EXCEPT ![arg[t]] = y]
      BY <2>1 DEF Prepares
    <3>3. y \in R
      BY <3>1
    <3> HIDE DEF y, R
    <3> QED
      BY <1>7, <2>1, <3>2, <3>3, Zenon
  <2>2. CASE Finishes(t)
    <3>1. PICK q \in Opened(t), b \in BOOLEAN :
             resultSet' = [resultSet EXCEPT ![q].statement = Null, ![q].isClosed = b]
      BY <2>2, Zenon DEF Finishes
    <3>2. q \in ResultSets /\ Null \in Connections
      BY DEF Opened, Null, Connections
    <3>3. resultSet' \in [ResultSets -> R]
      BY <1>7, <3>1, <3>2, Zenon
    <3>4. resultSet'[q].statement = Null /\ \A r \in ResultSets : r # q => resultSet'[r] = resultSet[r]
      BY <1>7, <3>1, <3>2
    <3> QED
      BY <2>2, <3>3, <3>4
  <2>3. CASE Closes(t)
    <3>1. PICK q \in ResultSets : resultSet' = [resultSet EXCEPT ![q].isClosed = TRUE]
      BY <2>3, Zenon DEF Closes
    <3> QED
      BY <1>7, <3>1, Zenon
  <2>4. CASE UNCHANGED resultSet
    BY <1>7, <2>4, Zenon
  <2>5. Prepares(t) \/ Finishes(t) \/ Closes(t) \/ UNCHANGED resultSet
    BY DEF Kind, Same, Begins, Passes, Acquires, Ends, Reopens, Keeps, Leaves, Refuses
  <2> QED
    BY <2>1, <2>2, <2>3, <2>4, <2>5, Zenon
<1> QED
  BY <1>1, <1>2, <1>4, <1>5, <1>6, <1>8 DEF Untouched

(* While one thread prepares, the steps of the others leave it its result set   *)
(* and its session.                                                            *)
LEMMA PrepareNext ==
    ASSUME Store, NEW t \in Threads, Kind(t)
    PROVE  PrepareInv'
<1>0. Untouched(t)
  BY KindUntouched
<1>1. /\ Session(t) # NoSession => Own(t) = Session(t)
      /\ Session(t) # NoSession <=> threadMap[t].useCount > 0
      /\ pc[t] \in Busy => Session(t) # NoSession
      /\ threadMap[t].useCount \in Nat
  BY OwnFacts, Zenon DEF Store
<1>2. ASSUME NEW u \in Threads, u # t PROVE Preparing(u)' <=> Preparing(u)
  BY <1>0, <1>2, Zenon DEF Untouched, Preparing
<1>3. ASSUME Preparing(t)'
      PROVE  /\ arg'[t] \in ResultSets /\ Session(t)' = Own(t)
             /\ resultSet[arg'[t]].statement = Null /\ ~isInStepQuery[Own(t)]
             /\ Begins(t) \/ Acquires(t)
             /\ \A u \in Threads : u # t /\ Preparing(u) => arg[u] # arg'[t]
  <2>1. pc'[t] \in {"acquire", "execute"} /\ op'[t] = "PrepareStep"
    BY <1>3 DEF Preparing
  <2>2. \A place : Moves(t, place) => pc'[t] = place
    BY DEF Moves, Store, CallInv
  <2>3. Begins(t) \/ Acquires(t)
    BY <2>1, <2>2, Zenon DEF Kind, Passes, Ends, Reopens, Keeps, Prepares, Leaves, Finishes, Refuses, Closes
  <2>4. CASE Begins(t)
    <3>1. /\ arg'[t] \in ResultSets /\ NotInUse(arg'[t]) /\ resultSet[arg'[t]].statement = Null
          /\ ~isInStepQuery[Own(t)] /\ Turns(t, 1)
      BY <2>1, <2>4, Zenon DEF Begins
    <3>2. Session(t)' = Own(t)
      BY <1>1, <3>1 DEF Turns, Plus
    <3> QED
      BY <2>4, <3>1, <3>2, Zenon DEF NotInUse
  <2>5. CASE Acquires(t)
    <3>1. /\ pc[t] \in {"acquire", "exchange"} /\ Turns(t, 0)
          /\ op'[t] = op[t] /\ arg'[t] = arg[t]
          /\ \E place \in {IF pc[t] = "acquire" THEN "execute" ELSE "run", "crashed"} : Moves(t, place)
      BY <2>5 DEF Acquires
    <3>2. Preparing(t) /\ pc[t] \in Busy
      BY <2>1, <2>2, <3>1, Zenon DEF Preparing, Busy
    <3>3. Session(t)' = Own(t) /\ Own(t) = Session(t)
      BY <1>1, <3>1, <3>2 DEF Turns, Plus
    <3> QED
      BY <2>5, <3>1, <3>2, <3>3, Zenon DEF Store, PrepareInv
  <2> QED
    BY <2>3, <2>4, <2>5
<1>4. ASSUME NEW u \in Threads, u # t, Preparing(u)
      PROVE  /\ arg'[u] = arg[u] /\ arg[u] \in ResultSets /\ resultSet'[arg[u]].statement = Null
             /\ ~isInStepQuery'[Session(u)']
  <2>1. /\ arg'[u] = arg[u] /\ Session(u)' = Session(u)
        /\ Session(u) # NoSession => Session(u) \in Sessions
    BY <1>0, <1>4, Zenon DEF Untouched
  <2>2. arg[u] \in ResultSets /\ resultSet[arg[u]].statement = Null /\ ~isInStepQuery[Session(u)]
    BY <1>4 DEF Store, PrepareInv
  <2>3. Session(u) \in Sessions
    BY <1>4, Zenon DEF Store, CallInv, Preparing, Busy
  <2>4. isInStepQuery'[Session(u)] = isInStepQuery[Session(u)]
    BY <1>0, <1>4, <2>3, Zenon DEF Untouched
  <2>5. Prepares(t) => arg[u] # arg[t]
    BY <1>4, Zenon DEF Prepares, Store, PrepareInv, Preparing
  <2>6. resultSet'[arg[u]].statement = Null
    BY <1>0, <2>2, <2>5, Zenon DEF Untouched
  <2> QED
    BY <2>1, <2>2, <2>4, <2>6, Zenon
<1>5. ASSUME Preparing(t)' PROVE resultSet'[arg'[t]].statement = Null /\ ~isInStepQuery'[Own(t)]
  <2>1. UNCHANGED <<resultSet, isInStepQuery>>
    BY <1>3, <1>5, Zenon DEF Begins, Acquires, Same
  <2> QED
    BY <1>3, <1>5, <2>1, Zenon
<1>6. ASSUME NEW u \in Threads, NEW v \in Threads, Preparing(u)', Preparing(v)', u # v
      PROVE  arg'[u] # arg'[v]
  <2>1. \A w, x \in Threads : w # x /\ Preparing(w) /\ Preparing(x) => arg[w] # arg[x]
    BY DEF Store, PrepareInv
  <2> QED
    BY <1>2, <1>3, <1>4, <1>6, <2>1, Zenon
<1> QED
  BY <1>2, <1>3, <1>4, <1>5, <1>6, Zenon DEF PrepareInv

(* It keeps ConnectedInv: the count of uses is positive exactly while the   *)
(* session has a connection.                                                *)
LEMMA ConnectedNext ==
    ASSUME Store, NEW t \in Threads, Kind(t), Running
    PROVE  ConnectedInv'
<1> SUFFICES ASSUME Running', NEW x \in Sessions
             PROVE  connectionUseCount'[x] > 0 <=> conn'[x] # Null
  BY Zenon DEF ConnectedInv
<1>1. CASE x = Own(t)
  BY <1>1, KindMoves DEF Linked
<1>2. CASE x # Own(t)
  <2>1. conn'[x] = conn[x] /\ connectionUseCount'[x] = connectionUseCount[x]
    BY <1>2, KindUntouched, Zenon DEF Untouched
  <2> QED
    BY <2>1, Zenon DEF Store, ConnectedInv
<1> QED
  BY <1>1, <1>2

-----------------------------------------------------------------------------
(* Step queries.                                                             *)

(* The open result sets of the others, and of t.                               *)
LEMMA OpenedOthers ==
    ASSUME Store, NEW t \in Threads, Kind(t), NEW u \in Threads, u # t
    PROVE  /\ Opened(u)' = Opened(u)
           /\ \A r \in Opened(u) : resultSet'[r].statement = resultSet[r].statement
<1>0. Untouched(t)
  BY KindUntouched, Zenon
<1>1. ASSUME Prepares(t)
      PROVE  arg[t] \in ResultSets /\ resultSet[arg[t]].statement = Null /\ resultSet'[arg[t]].tid = t
  <2>1. arg[t] \in ResultSets /\ resultSet[arg[t]].statement = Null
    BY <1>1, Zenon DEF Prepares, Store, PrepareInv, Preparing
  <2>2. resultSet' = [resultSet EXCEPT ![arg[t]] =
                        [tid |-> t, statement |-> conn[Session(t)], isClosed |-> FALSE]]
    BY <1>1, Zenon DEF Prepares
  <2> QED
    BY <2>1, <2>2, Zenon DEF Store, StoreTypes
<1>2. ASSUME NEW r \in ResultSets
      PROVE  /\ resultSet'[r].statement # Null /\ resultSet'[r].tid = u <=> r \in Opened(u)
             /\ r \in Opened(u) => resultSet'[r].statement = resultSet[r].statement
  <2>1. CASE resultSet'[r].statement = resultSet[r].statement /\ resultSet'[r].tid = resultSet[r].tid
    BY <2>1, Zenon DEF Opened
  <2>2. CASE Prepares(t) /\ r = arg[t]
    BY <1>1, <2>2, Zenon DEF Opened
  <2>3. CASE Finishes(t) /\ r \in Opened(t) /\ resultSet'[r].statement = Null
    BY <2>3 DEF Opened
  <2> QED
    BY <1>0, <2>1, <2>2, <2>3, Zenon DEF Untouched
<1>3. Opened(u)' = {r \in ResultSets : resultSet'[r].statement # Null /\ resultSet'[r].tid = u}
  BY DEF Opened
<1>4. Opened(u) \subseteq ResultSets
  BY Zenon DEF Opened
<1> QED
  BY <1>2, <1>3, <1>4

(* The open result sets of the thread change only when one is prepared or   *)
(* finished.                                                                *)
LEMMA OpenedOwn ==
    ASSUME Store, NEW t \in Threads, Kind(t)
    PROVE  /\ ~Prepares(t) /\ ~Finishes(t) =>
                 /\ Opened(t)' = Opened(t)
                 /\ \A r \in Opened(t) : resultSet'[r].statement = resultSet[r].statement
           /\ Prepares(t) =>
                 /\ arg[t] \in ResultSets \ Opened(t)
                 /\ conn[Session(t)] # Null => Opened(t)' = Opened(t) \cup {arg[t]}
                 /\ conn[Session(t)] = Null => Opened(t)' = Opened(t)
                 /\ resultSet'[arg[t]].statement = conn[Session(t)]
                 /\ resultSet'[arg[t]].tid = t
           /\ Finishes(t) => \E r \in Opened(t) : Opened(t)' = Opened(t) \ {r}
<1>0. Untouched(t)
  BY KindUntouched
<1>1. Opened(t)' = {r \in ResultSets : resultSet'[r].statement # Null /\ resultSet'[r].tid = t}
  BY Zenon DEF Opened
<1>2. ASSUME ~Prepares(t), ~Finishes(t)
      PROVE  /\ Opened(t)' = Opened(t)
             /\ \A r \in Opened(t) : resultSet'[r].statement = resultSet[r].statement
  BY <1>0, <1>1, <1>2, Zenon DEF Untouched, Opened
<1>3. ASSUME Prepares(t)
      PROVE  /\ arg[t] \in ResultSets \ Opened(t)
             /\ conn[Session(t)] # Null => Opened(t)' = Opened(t) \cup {arg[t]}
             /\ conn[Session(t)] = Null => Opened(t)' = Opened(t)
             /\ resultSet'[arg[t]].statement = conn[Session(t)]
             /\ resultSet'[arg[t]].tid = t
  <2>1. arg[t] \in ResultSets /\ resultSet[arg[t]].statement = Null
    BY <1>3, Zenon DEF Prepares, Store, PrepareInv, Preparing
  <2>2. resultSet' = [resultSet EXCEPT ![arg[t]] =
                        [tid |-> t, statement |-> conn[Session(t)], isClosed |-> FALSE]]
    BY <1>3 DEF Prepares
  <2>3. /\ resultSet'[arg[t]].statement = conn[Session(t)] /\ resultSet'[arg[t]].tid = t
        /\ \A r \in ResultSets : r # arg[t] => resultSet'[r] = resultSet[r]
    BY <2>1, <2>2, Zenon DEF Store, StoreTypes
  <2> QED
    BY <1>1, <2>1, <2>3, Zenon DEF Opened
<1>4. ASSUME Finishes(t) PROVE \E r \in Opened(t) : Opened(t)' = Opened(t) \ {r}
  <2>1. PICK q \in Opened(t), b \in BOOLEAN :
           resultSet' = [resultSet EXCEPT ![q].statement = Null, ![q].isClosed = b]
    BY <1>4, Zenon DEF Finishes
  <2>2. q \in ResultSets
    BY DEF Opened
  <2>3. resultSet'[q].statement = Null /\ \A r \in ResultSets : r # q => resultSet'[r] = resultSet[r]
    BY <2>1, <2>2 DEF Store, StoreTypes
  <2> QED
    BY <1>1, <2>2, <2>3, Zenon DEF Opened
<1> QED
  BY <1>2, <1>3, <1>4

(* A bound by two conditions, case by case.                                 *)
LEMMA BFacts ==
    ASSUME NEW P \in BOOLEAN, NEW Q \in BOOLEAN, NEW n \in Nat
    PROVE  n >= B(P) + B(Q) <=> (P => n >= 1) /\ (Q => n >= 1) /\ (P /\ Q => n >= 2)
BY DEF B

(* Until then a step keeps what StepInv says of the other threads.             *)
LEMMA StepOthers ==
    ASSUME Store, NEW t \in Threads, Kind(t), Running, NEW u \in Threads, u # t, StepThread(u)
    PROVE  StepThread(u)'
<1>1. /\ threadMap'[u] = threadMap[u] /\ Session(u)' = Session(u) /\ pc'[u] = pc[u]
      /\ Session(u) # NoSession => Session(u) \in Sessions
  BY KindUntouched, Zenon DEF Untouched
<1>2. Session(u) # NoSession =>
         /\ conn'[Session(u)] = conn[Session(u)]
         /\ connectionUseCount'[Session(u)] = connectionUseCount[Session(u)]
         /\ isInStepQuery'[Session(u)] = isInStepQuery[Session(u)]
  BY <1>1, KindUntouched, Zenon DEF Untouched
<1>3. /\ Opened(u)' = Opened(u)
      /\ \A r \in Opened(u) : resultSet'[r].statement = resultSet[r].statement
  BY OpenedOthers, Zenon
<1>4. Opened(u) # {} => Session(u) # NoSession
  BY DEF StepThread
<1>5. Used(u)' = Used(u)
  BY <1>1 DEF Used
<1> QED
  BY <1>1, <1>2, <1>3, <1>4, <1>5, Zenon DEF StepThread

(* StepInv, seen from the session that the thread has or gets.              *)
LEMMA StepBefore ==
    ASSUME Store, Running, NEW t \in Threads, SessionLeft(t), StepInv, noted \cap StepNotes = {}
    PROVE  Before(t)
<1>0. /\ Session(t) # NoSession => Own(t) = Session(t)
      /\ Session(t) # NoSession <=> threadMap[t].useCount > 0
      /\ pc[t] \in Busy => Session(t) # NoSession
      /\ threadMap[t].useCount \in Nat
      /\ Own(t) \in Sessions /\ \A u \in Threads : u # t => Session(u) # Own(t)
  BY OwnFacts, Zenon DEF Store
<1>1. StepThread(t) /\ (isInStepQuery[Own(t)] => \E u \in Threads : Session(u) = Own(t) /\ Opened(u) # {})
  BY <1>0, Zenon DEF StepInv
<1>2. Opened(t) # {} => Session(t) = Own(t) /\ threadMap[t].useCount >= 1 /\ isInStepQuery[Own(t)]
  BY <1>0, <1>1 DEF StepThread
<1>3. isInStepQuery[Own(t)] => Opened(t) # {}
  BY <1>0, <1>1, Zenon
<1>4. \A r \in Opened(t) : conn[Own(t)] = resultSet[r].statement /\ conn[Own(t)] # Null
  <2>1. \A r \in Opened(t) : conn[Session(t)] = resultSet[r].statement /\ resultSet[r].statement # Null
    BY <1>1, Zenon DEF StepThread, Opened
  <2> QED
    BY <1>2, <2>1, Zenon
<1>5. /\ \A q, r \in Opened(t) : q = r
      /\ pc[t] \in Busy /\ Opened(t) # {} => threadMap[t].useCount >= 2
  BY <1>1, Zenon DEF StepThread
<1>6. /\ connectionUseCount[Own(t)] \in Nat /\ Used(t) \in BOOLEAN
      /\ isInStepQuery[Own(t)] \in BOOLEAN
  BY <1>0 DEF Store, StoreTypes, Used
<1>7. CASE Session(t) # NoSession
  <2>1. connectionUseCount[Own(t)] >= B(Used(t)) + B(isInStepQuery[Own(t)])
    BY <1>0, <1>1, <1>7, Zenon DEF StepThread
  <2>2. /\ Used(t) => connectionUseCount[Own(t)] >= 1
        /\ isInStepQuery[Own(t)] => connectionUseCount[Own(t)] >= 1
        /\ Used(t) /\ isInStepQuery[Own(t)] => connectionUseCount[Own(t)] >= 2
    BY <1>6, <2>1, BFacts
  <2> QED
    BY <1>2, <1>3, <1>4, <1>5, <2>2, Zenon DEF Before
<1>8. CASE Session(t) = NoSession
  <2>1. ~Used(t) /\ ~isInStepQuery[Own(t)]
    BY <1>0, <1>2, <1>3, <1>8, NothingAssumption, Zenon DEF Used, Busy
  <2> QED
    BY <1>2, <1>3, <1>4, <1>5, <2>1, Zenon DEF Before
<1> QED
  BY <1>7, <1>8, Zenon

(* The session stays as long as a use is left.                                 *)
LEMMA StepOwn ==
    ASSUME Store, Running, NEW t \in Threads, SessionLeft(t), Before(t), Kind(t),
           noted' \cap StepNotes = {}
    PROVE  After(t)
<1>0. /\ Own(t) \in Sessions /\ threadMap[t].useCount \in Nat
      /\ pc[t] \in Busy => Own(t) = Session(t)
  BY OwnFacts, Zenon DEF Store
<1>1. connectionUseCount[Own(t)] \in Nat
  BY <1>0, Zenon DEF Store, StoreTypes
<1>p. \A place : Moves(t, place) => pc'[t] = place
  BY Zenon DEF Moves, Store, CallInv
<1> DEFINE U == threadMap[t].useCount
           c == connectionUseCount[Own(t)]
<1>d. \A d \in {-1, 0, 1} :
         /\ Turns(t, d) => /\ threadMap'[t].useCount = Plus(U, d)
                           /\ U + d >= 1 => Session(t)' = Own(t)
         /\ Linked(t, d) => /\ connectionUseCount'[Own(t)] = Plus(c, d)
                            /\ d = 0 => conn'[Own(t)] = conn[Own(t)]
                            /\ conn[Own(t)] # Null /\ d = 1 => conn'[Own(t)] = conn[Own(t)]
                            /\ c > 1 => conn'[Own(t)] = conn[Own(t)]
  BY <1>0 DEF Turns, Linked, Plus
<1>s. ASSUME Same, ~Prepares(t), ~Finishes(t),
             Opened(t) # {} => /\ Session(t)' = Own(t) /\ conn'[Own(t)] = conn[Own(t)]
                               /\ pc'[t] \in Busy => threadMap'[t].useCount >= 2,
             Used(t)' => connectionUseCount'[Own(t)] >= 1,
             isInStepQuery[Own(t)] => connectionUseCount'[Own(t)] >= 1,
             Used(t)' /\ isInStepQuery[Own(t)] => connectionUseCount'[Own(t)] >= 2
      PROVE  After(t)
  <2>1. /\ Opened(t)' = Opened(t) /\ isInStepQuery'[Own(t)] = isInStepQuery[Own(t)]
        /\ \A r \in Opened(t) : resultSet'[r].statement = resultSet[r].statement
    BY <1>s, OpenedOwn, Zenon DEF Same
  <2> QED
    BY <1>s, <2>1, Zenon DEF Before, After
<1> DEFINE Other == ~Prepares(t) /\ ~Finishes(t)
<1>2. ASSUME Begins(t), Other PROVE After(t)
  <2>1. /\ Turns(t, 1) /\ Linked(t, 0) /\ Same
        /\ \E place \in {"idle", "acquire", "pop", "crashed"} : Moves(t, place)
    BY <1>2, Zenon DEF Begins
  <2>2. ~Used(t)' /\ threadMap'[t].useCount = U + 1 /\ Session(t)' = Own(t)
        /\ connectionUseCount'[Own(t)] = c /\ conn'[Own(t)] = conn[Own(t)]
    BY <1>0, <1>1, <1>d, <1>p, <2>1, SMTT(30) DEF Used, Plus
  <2>3. /\ Opened(t) # {} => threadMap'[t].useCount >= 2
        /\ isInStepQuery[Own(t)] => c >= 1
    BY <1>0, <2>2 DEF Before
  <2> QED
    BY <1>2, <1>s, <2>1, <2>2, <2>3, Zenon
<1>3. ASSUME Passes(t), Other PROVE After(t)
  <2>1. /\ Turns(t, 0) /\ Linked(t, 0) /\ Same
        /\ \E place \in {"idle", "close", "open"} : Moves(t, place)
    BY <1>3, Zenon DEF Passes
  <2>2. /\ ~Used(t)' /\ pc'[t] \notin Busy /\ (U >= 1 => Session(t)' = Own(t))
        /\ connectionUseCount'[Own(t)] = c /\ conn'[Own(t)] = conn[Own(t)]
    BY <1>0, <1>1, <1>d, <1>p, <2>1 DEF Used, Plus, Busy
  <2>3. (Opened(t) # {} => U >= 1) /\ (isInStepQuery[Own(t)] => c >= 1)
    BY Zenon DEF Before
  <2> QED
    BY <1>3, <1>s, <2>1, <2>2, <2>3, Zenon
<1>4. ASSUME Acquires(t), Other PROVE After(t)
  <2>1. pc[t] \in Busy /\ Turns(t, 0) /\ Linked(t, 1) /\ Same
    BY <1>4, Zenon DEF Acquires, Busy
  <2>2. /\ threadMap'[t].useCount = U /\ (U >= 1 => Session(t)' = Own(t))
        /\ connectionUseCount'[Own(t)] = c + 1
        /\ conn[Own(t)] # Null => conn'[Own(t)] = conn[Own(t)]
    BY <1>0, <1>1, <1>d, <2>1 DEF Plus
  <2>3. /\ Opened(t) # {} => U >= 2 /\ conn[Own(t)] # Null
        /\ isInStepQuery[Own(t)] => c >= 1
    BY <2>1, Zenon DEF Before
  <2>4. /\ connectionUseCount'[Own(t)] >= 1
        /\ isInStepQuery[Own(t)] => connectionUseCount'[Own(t)] >= 2
        /\ Opened(t) # {} => U >= 1
    BY <1>0, <1>1, <2>2, <2>3
  <2> QED
    BY <1>4, <1>s, <2>1, <2>2, <2>3, <2>4, Zenon
<1>5. ASSUME Ends(t), Other PROVE After(t)
  <2>1. /\ pc[t] \in Busy /\ Used(t) /\ (Turns(t, 0) \/ (Turns(t, -1) /\ Moves(t, "idle")))
        /\ Linked(t, -1) /\ Same
        /\ \E place \in {"idle", "exchange", "reopen", "pop"} : Moves(t, place)
    BY <1>5, Zenon DEF Ends, Busy, Used
  <2>2. Opened(t) # {} => U >= 2 /\ isInStepQuery[Own(t)]
    BY <2>1, Zenon DEF Before
  <2>3. c >= 1 /\ (isInStepQuery[Own(t)] => c >= 2)
    BY <2>1, Zenon DEF Before
  <2>4. /\ connectionUseCount'[Own(t)] = c - 1
        /\ c > 1 => conn'[Own(t)] = conn[Own(t)]
    BY <1>1, <1>d, <2>1, <2>3, SMTT(30) DEF Plus
  <2>5. ~Used(t)' /\ (U >= 2 => Session(t)' = Own(t))
        /\ (pc'[t] \in Busy => threadMap'[t].useCount = U)
    BY <1>0, <1>d, <1>p, <2>1, SMTT(30) DEF Used, Busy, Plus
  <2>6. isInStepQuery[Own(t)] => connectionUseCount'[Own(t)] >= 1 /\ conn'[Own(t)] = conn[Own(t)]
    BY <1>1, <2>3, <2>4
  <2> QED
    BY <1>5, <1>s, <2>1, <2>2, <2>5, <2>6, Zenon
<1>6. ASSUME Reopens(t), Other PROVE After(t)
  <2>1. pc[t] \in Busy /\ Turns(t, -1) /\ Linked(t, 0) /\ Same /\ Moves(t, "idle")
    BY <1>6, Zenon DEF Reopens, Busy
  <2>2. ~Used(t)' /\ pc'[t] \notin Busy /\ (U >= 2 => Session(t)' = Own(t))
        /\ connectionUseCount'[Own(t)] = c /\ conn'[Own(t)] = conn[Own(t)]
    BY <1>0, <1>1, <1>d, <1>p, <2>1 DEF Used, Plus, Busy
  <2>3. (Opened(t) # {} => U >= 2) /\ (isInStepQuery[Own(t)] => c >= 1)
    BY <2>1, Zenon DEF Before
  <2> QED
    BY <1>6, <1>s, <2>1, <2>2, <2>3, Zenon
<1>7. ASSUME Keeps(t), Other PROVE After(t)
  <2>1. Turns(t, 0) /\ Linked(t, 0) /\ Same /\ Moves(t, "idle")
    BY <1>7, Zenon DEF Keeps
  <2>2. /\ ~Used(t)' /\ pc'[t] \notin Busy /\ (U >= 1 => Session(t)' = Own(t))
        /\ connectionUseCount'[Own(t)] = c /\ conn'[Own(t)] = conn[Own(t)]
    BY <1>0, <1>1, <1>d, <1>p, <2>1, SMTT(30) DEF Used, Plus, Busy
  <2>3. (Opened(t) # {} => U >= 1) /\ (isInStepQuery[Own(t)] => c >= 1)
    BY DEF Before
  <2> QED
    BY <1>7, <1>s, <2>1, <2>2, <2>3, Zenon
<1>8. ASSUME Leaves(t), Other PROVE After(t)
  <2>1. /\ Same /\ \E place \in {"idle", "crashed", "acquire"} : Moves(t, place)
        /\ isInStepQuery[Own(t)] => "inStepQuery" \in noted'
    BY <1>8, Zenon DEF Leaves
  <2>2. ~isInStepQuery[Own(t)] /\ Opened(t) = {}
    BY <2>1 DEF StepNotes, Before
  <2>3. ~Used(t)'
    BY <1>p, <2>1, Zenon DEF Used
  <2> QED
    BY <1>8, <1>s, <2>1, <2>2, <2>3, Zenon
<1>9. ASSUME Prepares(t) PROVE After(t)
  <2>1. /\ Own(t) = Session(t) /\ Used(t) /\ Turns(t, 0) /\ Linked(t, 0) /\ Moves(t, "idle")
        /\ isInStepQuery' = [isInStepQuery EXCEPT ![Own(t)] = TRUE] /\ pc[t] \in Busy
    BY <1>0, <1>9, Zenon DEF Prepares, Used, Busy
  <2>2. ~isInStepQuery[Own(t)] /\ Opened(t) = {}
    <3>1. ~isInStepQuery[Own(t)]
      BY <1>9, <2>1, Zenon DEF Prepares, Store, PrepareInv, Preparing
    <3> QED
      BY <3>1, Zenon DEF Before
  <2>3. c >= 1 /\ conn[Own(t)] # Null
    <3>1. c >= 1
      BY <2>1, Zenon DEF Before
    <3>2. Running => (c > 0 <=> conn[Own(t)] # Null)
      BY <1>0, Zenon DEF Store, ConnectedInv
    <3> QED
      BY <1>1, <3>1, <3>2
  <2>4. /\ Opened(t)' = {arg[t]} /\ resultSet'[arg[t]].statement = conn[Own(t)]
        /\ isInStepQuery'[Own(t)]
    <3>1. isInStepQuery'[Own(t)]
      BY <1>0, <2>1, Zenon DEF Store, StoreTypes
    <3> QED
      BY <1>9, <2>1, <2>2, <2>3, <3>1, OpenedOwn, Zenon
  <2>5. U >= 1
    BY <2>1, OwnFacts, SMTT(30) DEF Store
  <2>6. /\ ~Used(t)' /\ pc'[t] \notin Busy /\ Session(t)' = Own(t)
        /\ connectionUseCount'[Own(t)] = c /\ conn'[Own(t)] = conn[Own(t)]
    BY <1>0, <1>1, <1>d, <1>p, <2>1, <2>5, SMTT(30) DEF Used, Plus, Busy
  <2> QED
    BY <2>3, <2>4, <2>6, Zenon DEF After
<1>10. ASSUME Finishes(t) PROVE After(t)
  <2>1. /\ Moves(t, "idle") /\ isInStepQuery' = [isInStepQuery EXCEPT ![Own(t)] = FALSE]
    BY <1>10, Zenon DEF Finishes
  <2>2. PICK r \in Opened(t) : Opened(t)' = Opened(t) \ {r}
    BY <1>10, OpenedOwn, Zenon
  <2>3. Opened(t)' = {}
    BY <2>2, Zenon DEF Before
  <2>4. ~isInStepQuery'[Own(t)]
    BY <1>0, <2>1, Zenon DEF Store, StoreTypes
  <2>5. ~Used(t)'
    BY <1>p, <2>1, Zenon DEF Used
  <2> QED
    BY <2>3, <2>4, <2>5 DEF After
<1>11. ASSUME Closes(t), Other PROVE After(t)
  <2>1. Turns(t, 0) /\ Linked(t, 0) /\ UNCHANGED isInStepQuery /\ Moves(t, "idle")
    BY <1>11, Zenon DEF Closes
  <2>2. /\ ~Used(t)' /\ pc'[t] \notin Busy /\ (U >= 1 => Session(t)' = Own(t))
        /\ connectionUseCount'[Own(t)] = c /\ conn'[Own(t)] = conn[Own(t)]
    BY <1>0, <1>1, <1>d, <1>p, <2>1 DEF Used, Plus, Busy
  <2>3. /\ Opened(t)' = Opened(t)
        /\ \A r \in Opened(t) : resultSet'[r].statement = resultSet[r].statement
    BY <1>11, OpenedOwn, Zenon
  <2> QED
    BY <2>1, <2>2, <2>3, Zenon DEF Before, After
<1>12. ~Refuses(t)
  BY DEF Refuses, StepNotes
<1> QED
  BY <1>2, <1>3, <1>4, <1>5, <1>6, <1>7, <1>8, <1>9, <1>10, <1>11, <1>12, Zenon DEF Kind

(* A step of any kind keeps StepInv.                                        *)
LEMMA StepNext ==
    ASSUME Store, Store', StepInv, NEW t \in Threads, Kind(t), Steps(t)
    PROVE  StepInv'
<1>0. Untouched(t)
  BY KindUntouched, Zenon
<1>1. ASSUME NEW r \in ResultSets, resultSet'[r].statement # Null
      PROVE  resultSet'[r].tid \in Threads
  <2>1. CASE resultSet'[r].statement = resultSet[r].statement /\ resultSet'[r].tid = resultSet[r].tid
    BY <1>1, <2>1, Zenon DEF StepInv
  <2>2. CASE Prepares(t) /\ r = arg[t]
    BY <2>2, OpenedOwn
  <2> QED
    BY <1>0, <1>1, <2>1, <2>2, Zenon DEF Untouched
<1> SUFFICES ASSUME noted' \cap StepNotes = {}
             PROVE  /\ \A u \in Threads : StepThread(u)'
                    /\ \A s \in Sessions : isInStepQuery'[s] =>
                          \E u \in Threads : Session(u)' = s /\ Opened(u)' # {}
  BY <1>1, Zenon DEF StepInv
<1>2. noted \cap StepNotes = {} /\ Running
  BY DEF Steps
<1>3. /\ \A u \in Threads : StepThread(u)
      /\ \A s \in Sessions : isInStepQuery[s] => \E u \in Threads : Session(u) = s /\ Opened(u) # {}
  BY <1>2, Zenon DEF StepInv
<1>4. /\ Session(t) # NoSession => Own(t) = Session(t) /\ SessionLeft(t)
      /\ SessionLeft(t) => Own(t) \in Sessions
      /\ threadMap[t].useCount \in Nat /\ (Session(t) # NoSession <=> threadMap[t].useCount > 0)
  BY OwnFacts DEF Store
<1>5. SessionLeft(t) => After(t)
  BY <1>2, StepBefore, StepOwn, Zenon
<1>6. ASSUME ~SessionLeft(t)
      PROVE  Session(t)' = NoSession /\ Opened(t)' = {} /\ UNCHANGED isInStepQuery
  <2>1. Session(t) = NoSession /\ pc[t] \notin Busy
    BY <1>4, <1>6, OwnFacts, Zenon DEF Store
  <2>2. Passes(t) \/ Closes(t)
    BY <1>4, <1>6, <2>1, Zenon DEF Kind, Begins, Acquires, Ends, Reopens, Keeps, Prepares, Leaves, Finishes,
                       Refuses, Busy
  <2>3. Turns(t, 0) /\ UNCHANGED isInStepQuery /\ pc[t] # "execute"
    BY <2>2, Zenon DEF Passes, Closes, Same
  <2>4. Session(t)' = NoSession
    BY <1>4, <2>1, <2>3, SMTT(30) DEF Turns, Plus
  <2>5. Opened(t) = {}
    BY <1>3, <2>1 DEF StepThread
  <2>6. ~Prepares(t) /\ ~Finishes(t)
    BY <1>6, <2>3 DEF Prepares, Finishes
  <2> QED
    BY <2>3, <2>4, <2>5, <2>6, OpenedOwn, Zenon
<1>7. StepThread(t)'
  <2>1. CASE SessionLeft(t)
    <3>1. After(t) /\ Own(t) \in Sessions
      BY <1>4, <1>5, <2>1, Zenon
    <3>2. Session(t)' \in {Own(t), NoSession}
      BY KindMoves, Zenon DEF Turns
    <3>3. /\ connectionUseCount'[Own(t)] \in Nat /\ Used(t)' \in BOOLEAN
          /\ isInStepQuery'[Own(t)] \in BOOLEAN
      BY <3>1 DEF Store, StoreTypes, Used
    <3>4. connectionUseCount'[Own(t)] >= B(Used(t)') + B(isInStepQuery'[Own(t)])
      BY <3>1, <3>3, BFacts, Zenon DEF After
    <3>5. Opened(t)' # {} => Session(t)' = Own(t) /\ Session(t)' # NoSession /\ isInStepQuery'[Own(t)]
      BY <3>1, NothingAssumption, Zenon DEF After
    <3>6. /\ \A r \in Opened(t)' : conn'[Session(t)'] = resultSet'[r].statement
          /\ \A q, r \in Opened(t)' : q = r
          /\ pc'[t] \in Busy /\ Opened(t)' # {} => threadMap'[t].useCount >= 2
      BY <3>1, <3>5, Zenon DEF After
    <3>7. Session(t)' # NoSession => connectionUseCount'[Session(t)']
                                        >= B(Used(t)') + B(isInStepQuery'[Session(t)'])
      BY <3>2, <3>4, Zenon
    <3> QED
      BY <3>5, <3>6, <3>7, Zenon DEF StepThread
  <2>2. CASE ~SessionLeft(t)
    BY <1>6, <2>2, Zenon DEF StepThread
  <2> QED
    BY <2>1, <2>2
<1>8. ASSUME NEW u \in Threads PROVE StepThread(u)'
  BY <1>2, <1>3, <1>7, StepOthers, Zenon
<1>9. ASSUME NEW s \in Sessions, isInStepQuery'[s]
      PROVE  \E u \in Threads : Session(u)' = s /\ Opened(u)' # {}
  <2>1. CASE s = Own(t) /\ SessionLeft(t)
    BY <1>5, <1>9, <2>1, Zenon DEF After
  <2>2. CASE ~(s = Own(t) /\ SessionLeft(t))
    <3>1. isInStepQuery[s]
      BY <1>0, <1>6, <1>9, <2>2, Zenon DEF Untouched
    <3>2. PICK u \in Threads : Session(u) = s /\ Opened(u) # {}
      BY <1>3, <3>1, Zenon
    <3>3. u # t
      BY <1>4, <2>2, <3>2, NothingAssumption, Zenon
    <3>4. Session(u)' = s /\ Opened(u)' = Opened(u)
      BY <1>0, <3>2, <3>3, OpenedOthers, Zenon DEF Untouched
    <3> QED
      BY <3>2, <3>4, Zenon
  <2> QED
    BY <2>1, <2>2, Zenon
<1> QED
  BY <1>8, <1>9

-----------------------------------------------------------------------------
(* The uses of sessions and connections.                                     *)

(* The number of a condition is 0 or 1.                                     *)
LEMMA BValues ==
    /\ \A P : P => B(P) = 1
    /\ \A P : ~P => B(P) = 0
    /\ \A P : B(P) \in {0, 1}
BY DEF B

(* Open result sets can be counted, before the step and after it.           *)
LEMMA OpenedCount ==
    ASSUME Store, NEW t
    PROVE  /\ Cardinality(Opened(t)) \in Nat
           /\ Cardinality(Opened(t)) = 0 <=> Opened(t) = {}
           /\ \A r \in ResultSets \ Opened(t) :
                 Cardinality(Opened(t) \cup {r}) = Cardinality(Opened(t)) + 1
           /\ \A r \in Opened(t) : Cardinality(Opened(t) \ {r}) = Cardinality(Opened(t)) - 1
           /\ Cardinality(Opened(t)') \in Nat
           /\ Cardinality(Opened(t)') = 0 <=> Opened(t)' = {}
<1>1. Opened(t) \in SUBSET ResultSets /\ Opened(t)' \in SUBSET ResultSets
  BY DEF Opened
<1>2. Counting
  BY Zenon DEF Store
<1> QED
  BY <1>1, <1>2, Zenon DEF Counting

(* How a step of each kind changes the uses that the thread has of its      *)
(* session for transactions.                                                *)
LEMMA SpareNext ==
    ASSUME Store, NEW t \in Threads, Kind(t), Spare(t) >= 0
    PROVE  /\ Spare(t) \in Int /\ Spare(t)' \in Int
           /\ Begins(t) => /\ Spare(t)' >= Spare(t)
                           /\ pc'[t] \notin Busy => Spare(t)' >= Spare(t) + 1
           /\ Ends(t) => /\ Spare(t)' >= Spare(t)
                         /\ Turns(t, 0) /\ pc'[t] \notin Busy => Spare(t)' >= Spare(t) + 1
           /\ Keeps(t) => Spare(t)' >= Spare(t) + 1
           /\ Leaves(t) => Spare(t)' >= Spare(t) - 1
           /\ Leaves(t) /\ pc'[t] \in Busy => Spare(t)' >= Spare(t)
           /\ Passes(t) \/ Acquires(t) \/ Reopens(t) \/ Prepares(t) \/ Finishes(t) \/ Refuses(t)
                \/ Closes(t) => Spare(t)' >= Spare(t)
<1> DEFINE U == threadMap[t].useCount
           b == B(pc[t] \in Busy)
           o == Cardinality(Opened(t))
           V == threadMap'[t].useCount
           d == B(pc'[t] \in Busy)
           p == Cardinality(Opened(t)')
<1>0. U \in Nat /\ b \in {0, 1} /\ d \in {0, 1} /\ o \in Nat /\ (b = 1 => U > 0)
  <2>1. U \in Nat /\ (pc[t] \in Busy => U > 0)
    BY OwnFacts, Zenon DEF Store
  <2>2. b \in {0, 1} /\ d \in {0, 1} /\ (pc[t] \notin Busy => b = 0)
    BY BValues, Zenon
  <2>3. o \in Nat
    BY OpenedCount, Zenon
  <2> QED
    BY <2>1, <2>2, <2>3
<1>1. Spare(t) = U - b - o /\ Spare(t)' = V - d - p
  BY DEF Spare
<1>2. /\ pc[t] \in Busy => b = 1
      /\ pc[t] \notin Busy => b = 0
      /\ pc'[t] \in Busy => d = 1
      /\ pc'[t] \notin Busy => d = 0
  BY BValues, Zenon
<1>3. /\ Turns(t, 1) => V = U + 1
      /\ Turns(t, 0) => V = U
      /\ Turns(t, -1) => V \in Nat /\ V >= U - 1 /\ (U >= 1 => V = U - 1)
  <2>1. U \in Nat
    BY <1>0
  <2> QED
    BY <2>1, SMTT(30) DEF Turns, Plus
<1>4. V \in Nat
  <2>1. Turns(t, 1) \/ Turns(t, 0) \/ Turns(t, -1)
    BY KindMoves, Zenon
  <2> QED
    BY <1>0, <1>3, <2>1
<1>5. \A place : Moves(t, place) => pc'[t] = place
  BY Zenon DEF Moves, Store, CallInv
<1>6. /\ ~Prepares(t) /\ ~Finishes(t) => p = o
      /\ Prepares(t) => p \in {o, o + 1}
      /\ Finishes(t) => o >= 1 /\ p = o - 1
  <2>1. ~Prepares(t) /\ ~Finishes(t) => p = o
    BY OpenedOwn, Zenon
  <2>2. Prepares(t) => p \in {o, o + 1}
    <3>1. ASSUME Prepares(t)
          PROVE  /\ arg[t] \in ResultSets \ Opened(t)
                 /\ Opened(t)' = Opened(t) \/ Opened(t)' = Opened(t) \cup {arg[t]}
      BY <3>1, OpenedOwn, Zenon
    <3> QED
      BY <3>1, OpenedCount, Zenon
  <2>3. Finishes(t) => o >= 1 /\ p = o - 1
    <3>1. ASSUME Finishes(t) PROVE \E r \in Opened(t) : Opened(t)' = Opened(t) \ {r}
      BY <3>1, OpenedOwn, Zenon
    <3>2. Finishes(t) => o # 0 /\ p = o - 1
      BY <3>1, OpenedCount, Zenon
    <3> QED
      BY <1>0, <3>2
  <2> QED
    BY <2>1, <2>2, <2>3, Zenon
<1>7. p \in Nat
  BY <1>0, <1>6
<1>8. ASSUME Same PROVE p <= o
  <2>1. UNCHANGED resultSet
    BY <1>8 DEF Same
  <2>2. Opened(t)' = Opened(t)
    BY <2>1, Zenon DEF Opened
  <2> QED
    BY <1>0, <2>2
<1> HIDE DEF U, b, o, V, d, p
<1>9. ASSUME Begins(t)
      PROVE  Spare(t)' >= Spare(t) /\ (pc'[t] \notin Busy => Spare(t)' >= Spare(t) + 1)
  <2>1. b = 0 /\ V = U + 1 /\ p <= o
    BY <1>0, <1>2, <1>3, <1>8, <1>9, Zenon DEF Begins, Busy
  <2> QED
    BY <1>0, <1>1, <1>2, <1>4, <1>7, <2>1
<1>10. ASSUME Ends(t)
       PROVE  /\ Spare(t)' >= Spare(t)
              /\ Turns(t, 0) /\ pc'[t] \notin Busy => Spare(t)' >= Spare(t) + 1
  <2>1. b = 1 /\ p <= o
    BY <1>2, <1>8, <1>10, Zenon DEF Ends, Busy
  <2>2. (V = U - 1 /\ d = 0) \/ V = U
    BY <1>0, <1>2, <1>3, <1>5, <1>10, <2>1 DEF Ends, Busy
  <2>3. Turns(t, 0) /\ pc'[t] \notin Busy => V = U /\ d = 0
    BY <1>0, <1>2, <1>3, Zenon
  <2> QED
    BY <1>0, <1>1, <1>4, <1>7, <2>1, <2>2, <2>3, SMTT(30)
<1>11. ASSUME Keeps(t) PROVE Spare(t)' >= Spare(t) + 1
  <2>1. b = 1 /\ d = 0 /\ V = U /\ p <= o
    BY <1>0, <1>2, <1>3, <1>5, <1>8, <1>11, Zenon DEF Keeps, Busy
  <2> QED
    BY <1>0, <1>1, <1>4, <1>7, <2>1
<1>12. ASSUME Leaves(t)
       PROVE  Spare(t)' >= Spare(t) - 1 /\ (pc'[t] \in Busy => Spare(t)' >= Spare(t))
  <2>1. b = 0 /\ p <= o
    BY <1>2, <1>8, <1>12, Zenon DEF Leaves, Busy
  <2>2. (V >= U - 1 /\ pc'[t] \notin Busy) \/ V = U + 1
    BY <1>0, <1>3, <1>5, <1>12, Zenon DEF Leaves, Busy
  <2> QED
    BY <1>0, <1>1, <1>2, <1>4, <1>7, <2>1, <2>2, SMTT(30)
<1>13. ASSUME Passes(t) \/ Acquires(t) \/ Reopens(t) \/ Prepares(t) \/ Finishes(t) \/ Refuses(t)
                \/ Closes(t)
       PROVE  Spare(t)' >= Spare(t)
  <2>1. CASE Passes(t)
    <3>1. b = 0 /\ d = 0 /\ V = U /\ p <= o
      BY <1>0, <1>2, <1>3, <1>5, <1>8, <2>1, Zenon DEF Passes, Busy
    <3> QED
      BY <1>0, <1>1, <1>4, <1>7, <3>1
  <2>2. CASE Acquires(t)
    <3>1. b = 1 /\ V = U /\ p <= o
      BY <1>0, <1>2, <1>3, <1>8, <2>2, Zenon DEF Acquires, Busy
    <3> QED
      BY <1>0, <1>1, <1>4, <1>7, <3>1
  <2>3. CASE Reopens(t)
    <3>1. b = 1 /\ d = 0 /\ V = U - 1 /\ p <= o
      BY <1>0, <1>2, <1>3, <1>5, <1>8, <2>3, SMTT(30) DEF Reopens, Busy
    <3> QED
      BY <1>0, <1>1, <1>4, <1>7, <3>1, SMTT(30)
  <2>4. CASE Prepares(t)
    <3>1. b = 1 /\ d = 0 /\ V = U /\ p <= o + 1
      BY <1>0, <1>2, <1>3, <1>5, <1>6, <2>4, SMTT(30) DEF Prepares, Busy
    <3> QED
      BY <1>0, <1>1, <1>4, <1>7, <3>1, SMTT(30)
  <2>5. CASE Finishes(t)
    <3>1. b = 0 /\ d = 0 /\ p = o - 1 /\ o >= 1
      BY <1>2, <1>5, <1>6, <2>5, Zenon DEF Finishes, Busy
    <3>2. U >= 1
      BY <1>0, <1>1, <3>1
    <3>3. V = U - 1
      BY <1>0, <1>3, <2>5, <3>2 DEF Finishes
    <3> QED
      BY <1>0, <1>1, <1>4, <1>7, <3>1, <3>3, SMTT(30)
  <2>6. CASE Refuses(t)
    <3>1. UNCHANGED resultSet
      BY <2>6 DEF Refuses
    <3>2. p = o
      BY <3>1 DEF p, o, Opened
    <3>3. b = 0 /\ d = 0 /\ V = U
      BY <1>0, <1>2, <1>3, <1>5, <2>6, Zenon DEF Refuses, Busy
    <3> QED
      BY <1>0, <1>1, <1>4, <1>7, <3>2, <3>3
  <2>7. CASE Closes(t)
    <3>1. ~Prepares(t) /\ ~Finishes(t) => p <= o
      BY <1>0, <1>6
    <3>2. b = 0 /\ d = 0 /\ V = U
      BY <1>0, <1>2, <1>3, <1>5, <2>7, Zenon DEF Closes, Busy
    <3>3. ~Prepares(t)
      BY <2>7 DEF Closes, Prepares
    <3> QED
      BY <1>0, <1>1, <1>4, <1>6, <1>7, <3>1, <3>2, <3>3, SMTT(30)
  <2> QED
    BY <1>13, <2>1, <2>2, <2>3, <2>4, <2>5, <2>6, <2>7, Zenon
<1>14. Spare(t) \in Int /\ Spare(t)' \in Int
  BY <1>0, <1>1, <1>4, <1>7
<1> QED
  BY <1>9, <1>10, <1>11, <1>12, <1>13, <1>14, Zenon

(* How it changes those of the connection.                                  *)
LEMMA FreeNext ==
    ASSUME Store, Running, Running', NEW t \in Threads, SessionLeft(t), NEW s, s = Own(t), Kind(t),
           Free(t, s) >= 0
    PROVE  /\ Free(t, s) \in Int /\ Free(t, s)' \in Int
           /\ Begins(t) \/ Passes(t) \/ Acquires(t) \/ Ends(t) \/ Reopens(t) \/ Prepares(t)
                \/ Finishes(t) \/ Refuses(t) \/ Closes(t) => Free(t, s)' = Free(t, s)
           /\ Keeps(t) => Free(t, s)' = Free(t, s) + 1
           /\ Leaves(t) /\ Linked(t, 0) => Free(t, s)' = Free(t, s)
           /\ Leaves(t) /\ Linked(t, -1) /\ Free(t, s) >= 1 => Free(t, s)' = Free(t, s) - 1
<1> DEFINE c == connectionUseCount[s]
           u == B(Used(t))
           q == B(isInStepQuery[s])
           e == connectionUseCount'[s]
           v == B(Used(t)')
           r == B(isInStepQuery'[s])
<1>s. s \in Sessions
  BY OwnFacts, Zenon DEF Store
<1>0. c \in Nat /\ u \in {0, 1} /\ q \in {0, 1} /\ v \in {0, 1} /\ r \in {0, 1}
  <2>1. c \in Nat
    BY <1>s, Zenon DEF Store, StoreTypes
  <2> QED
    BY <2>1, BValues
<1>1. Free(t, s) = c - u - q /\ Free(t, s)' = e - v - r
  BY Zenon DEF Free
<1>2. /\ Used(t) => u = 1
      /\ ~Used(t) => u = 0
      /\ Used(t)' => v = 1
      /\ ~Used(t)' => v = 0
      /\ isInStepQuery[s] => q = 1
      /\ ~isInStepQuery[s] => q = 0
      /\ isInStepQuery'[s] => r = 1
      /\ ~isInStepQuery'[s] => r = 0
      /\ isInStepQuery'[s] = isInStepQuery[s] => r = q
  BY BValues, Zenon
<1>3. /\ Linked(t, 1) => e = c + 1
      /\ Linked(t, 0) => e = c
      /\ Linked(t, -1) => e \in Nat /\ (c >= 1 => e = c - 1)
  BY <1>0, <1>s, SMTT(30) DEF Linked, Plus
<1>4. e \in Nat
  <2>1. Linked(t, 1) \/ Linked(t, 0) \/ Linked(t, -1)
    BY KindMoves, Zenon
  <2> QED
    BY <1>0, <1>3, <2>1
<1>5. \A place : Moves(t, place) => pc'[t] = place
  BY Zenon DEF Moves, Store, CallInv
<1>6. Same => r = q
  BY <1>2, Zenon DEF Same
<1>7. pc'[t] # "crashed"
  BY DEF Running
<1>8. \A b : isInStepQuery' = [isInStepQuery EXCEPT ![s] = b] => isInStepQuery'[s] = b
  BY <1>s DEF Store, StoreTypes
<1> HIDE DEF c, u, q, e, v, r
<1> USE DEF Used
<1>9. ASSUME Begins(t) PROVE Free(t, s)' = Free(t, s)
  <2>1. u = 0 /\ v = 0 /\ e = c /\ r = q
    BY <1>2, <1>3, <1>5, <1>6, <1>9, Zenon DEF Begins
  <2> QED
    BY <1>0, <1>1, <2>1, Zenon
<1>10. ASSUME Passes(t) PROVE Free(t, s)' = Free(t, s)
  <2>1. u = 0 /\ v = 0 /\ e = c /\ r = q
    BY <1>2, <1>3, <1>5, <1>6, <1>10, Zenon DEF Passes
  <2> QED
    BY <1>0, <1>1, <2>1
<1>11. ASSUME Acquires(t) PROVE Free(t, s)' = Free(t, s)
  <2>1. u = 0 /\ v = 1 /\ e = c + 1 /\ r = q
    BY <1>2, <1>3, <1>5, <1>6, <1>7, <1>11, Zenon DEF Acquires
  <2> QED
    BY <1>0, <1>1, <2>1
<1>12. ASSUME Ends(t) PROVE Free(t, s)' = Free(t, s)
  <2>1. u = 1 /\ v = 0 /\ r = q /\ Linked(t, -1)
    BY <1>2, <1>5, <1>6, <1>12, Zenon DEF Ends
  <2>2. c >= 1
    BY <1>0, <1>1, <2>1
  <2>3. e = c - 1
    BY <1>3, <2>1, <2>2, Zenon
  <2> QED
    BY <1>0, <1>1, <2>1, <2>3
<1>13. ASSUME Reopens(t) PROVE Free(t, s)' = Free(t, s)
  <2>1. u = 0 /\ v = 0 /\ e = c /\ r = q
    BY <1>2, <1>3, <1>5, <1>6, <1>13, Zenon DEF Reopens
  <2> QED
    BY <1>0, <1>1, <2>1
<1>14. ASSUME Prepares(t) PROVE Free(t, s)' = Free(t, s)
  <2>1. u = 1 /\ v = 0 /\ e = c
    BY <1>2, <1>3, <1>5, <1>14, Zenon DEF Prepares
  <2>2. s = Session(t)
    BY <1>14, OwnFacts, Zenon DEF Prepares, Store, Busy
  <2>3. q = 0
    <3>1. ~isInStepQuery[s]
      BY <1>14, <2>2, Zenon DEF Prepares, Store, PrepareInv, Preparing
    <3> QED
      BY <1>2, <3>1, Zenon
  <2>4. r = 1
    <3>1. isInStepQuery' = [isInStepQuery EXCEPT ![s] = TRUE]
      BY <1>14, <2>2 DEF Prepares
    <3> QED
      BY <1>2, <1>8, <3>1, Zenon
  <2> QED
    BY <1>0, <1>1, <2>1, <2>3, <2>4
<1>f. ASSUME isInStepQuery' = [isInStepQuery EXCEPT ![s] = FALSE], ~Used(t), ~Used(t)',
             IF isInStepQuery[s] THEN Linked(t, -1) ELSE Linked(t, 0)
      PROVE  Free(t, s)' = Free(t, s)
  <2>1. u = 0 /\ v = 0 /\ r = 0
    BY <1>2, <1>8, <1>f, Zenon
  <2>2. CASE isInStepQuery[s]
    <3>1. q = 1 /\ Linked(t, -1)
      BY <1>2, <1>f, <2>2
    <3>2. c >= 1
      BY <1>0, <1>1, <2>1, <3>1
    <3>3. e = c - 1
      BY <1>3, <3>1, <3>2, Zenon
    <3> QED
      BY <1>0, <1>1, <2>1, <3>1, <3>3, SMTT(30)
  <2>3. CASE ~isInStepQuery[s]
    <3>1. q = 0 /\ e = c
      BY <1>2, <1>3, <1>f, <2>3
    <3> QED
      BY <1>0, <1>1, <2>1, <3>1, Zenon
  <2> QED
    BY <2>2, <2>3, Zenon
<1>15. ASSUME Finishes(t) PROVE Free(t, s)' = Free(t, s)
  BY <1>5, <1>15, <1>f, Zenon DEF Finishes
<1>16. ASSUME Refuses(t) PROVE Free(t, s)' = Free(t, s)
  BY <1>5, <1>16, <1>f, Zenon DEF Refuses
<1>17. ASSUME Closes(t) PROVE Free(t, s)' = Free(t, s)
  <2>1. u = 0 /\ v = 0 /\ e = c /\ r = q
    BY <1>2, <1>3, <1>5, <1>17, Zenon DEF Closes
  <2> QED
    BY <1>0, <1>1, <2>1
<1>18. ASSUME Keeps(t) PROVE Free(t, s)' = Free(t, s) + 1
  <2>1. u = 1 /\ v = 0 /\ e = c /\ r = q
    BY <1>2, <1>3, <1>5, <1>6, <1>18, Zenon DEF Keeps
  <2> QED
    BY <1>0, <1>1, <2>1
<1>19. ASSUME Leaves(t)
       PROVE  /\ Linked(t, 0) => Free(t, s)' = Free(t, s)
              /\ Linked(t, -1) /\ Free(t, s) >= 1 => Free(t, s)' = Free(t, s) - 1
  <2>1. u = 0 /\ v = 0 /\ r = q
    BY <1>2, <1>5, <1>6, <1>19, Zenon DEF Leaves
  <2>2. Free(t, s) >= 1 => c >= 1
    BY <1>0, <1>1
  <2> QED
    BY <1>0, <1>1, <1>3, <2>1, <2>2
<1>20. Free(t, s) \in Int /\ Free(t, s)' \in Int
  BY <1>0, <1>1, <1>4
<1> QED
  BY <1>9, <1>10, <1>11, <1>12, <1>13, <1>14, <1>15, <1>16, <1>17, <1>18, <1>19, <1>20, Zenon

(* What QuietInv says of t and the session that it has or gets.                *)
LEMMA QuietBefore ==
    ASSUME Store, Running, QuietInv, noted \cap QuietNotes = {}, NEW t \in Threads
    PROVE  /\ ObserverUses(t) \in Nat /\ Spare(t) \in Int /\ Spare(t) >= ObserverUses(t)
           /\ SessionLeft(t) =>
                 /\ isInStepQuery[Own(t)] => Opened(t) # {}
                 /\ Free(t, Own(t)) = B(Own(t) \in Keepers)
<1>0. /\ Session(t) # NoSession => Own(t) = Session(t)
      /\ pc[t] \in Busy => Session(t) # NoSession
      /\ threadMap[t].useCount \in Nat
      /\ SessionLeft(t) => Own(t) \in Sessions /\ \A u \in Threads : u # t => Session(u) # Own(t)
  BY OwnFacts, Zenon DEF Store
<1>1. /\ QuietThread(t)
      /\ \A s \in Sessions : (\A u \in Threads : Session(u) # s) => conn[s] = Null /\ ~isInStepQuery[s]
      /\ Keepers # {} => owner \in Threads /\ Session(owner) \in Keepers
  BY DEF QuietInv
<1>2. ObserverUses(t) \in Nat
  <2>1. Len(transactionStack) \in Nat
    BY DEF Store, StoreTypes, CallTypes
  <2> QED
    BY <2>1 DEF ObserverUses
<1>3. B(pc[t] \in Busy) \in {0, 1} /\ Cardinality(Opened(t)) \in Nat
  BY BValues, OpenedCount, Zenon
<1>4. Spare(t) \in Int /\ Spare(t) >= ObserverUses(t)
  <2>1. threadMap[t].useCount >= B(pc[t] \in Busy) + Cardinality(Opened(t)) + ObserverUses(t)
    BY <1>1, Zenon DEF QuietThread
  <2> QED
    BY <1>0, <1>2, <1>3, <2>1 DEF Spare
<1>5. ASSUME SessionLeft(t)
      PROVE  /\ isInStepQuery[Own(t)] => Opened(t) # {}
             /\ Free(t, Own(t)) = B(Own(t) \in Keepers)
  <2>0. /\ connectionUseCount[Own(t)] \in Nat /\ B(Used(t)) \in {0, 1}
        /\ B(isInStepQuery[Own(t)]) \in {0, 1} /\ B(Own(t) \in Keepers) \in {0, 1}
    <3>1. connectionUseCount[Own(t)] \in Nat
      BY <1>0, <1>5, Zenon DEF Store, StoreTypes
    <3> QED
      BY <3>1, BValues, Zenon
  <2>1. CASE Session(t) # NoSession
    <3>1. Own(t) = Session(t)
      BY <1>0, <2>1, Zenon
    <3>2. connectionUseCount[Own(t)] = B(Used(t)) + B(isInStepQuery[Own(t)]) + B(Own(t) \in Keepers)
      BY <1>1, <2>1, <3>1, Zenon DEF QuietThread
    <3>3. isInStepQuery[Own(t)] => Opened(t) # {}
      BY <1>1, <2>1, <3>1, Zenon DEF QuietThread
    <3> QED
      BY <2>0, <3>2, <3>3 DEF Free
  <2>2. CASE Session(t) = NoSession
    <3>1. \A u \in Threads : Session(u) # Own(t)
      BY <1>0, <1>5, <2>2, NothingAssumption, Zenon
    <3>2. conn[Own(t)] = Null /\ ~isInStepQuery[Own(t)]
      BY <1>0, <1>1, <1>5, <3>1, Zenon
    <3>3. connectionUseCount[Own(t)] = 0
      BY <1>0, <1>5, <2>0, <3>2 DEF Store, ConnectedInv
    <3>4. ~Used(t)
      BY <1>0, <2>2, Zenon DEF Used, Busy
    <3>5. Own(t) \notin Keepers
      BY <1>1, <3>1, Zenon DEF Keepers
    <3>6. B(Used(t)) = 0 /\ B(isInStepQuery[Own(t)]) = 0 /\ B(Own(t) \in Keepers) = 0
      BY <3>2, <3>4, <3>5, BValues, Zenon
    <3> QED
      BY <3>2, <3>3, <3>6 DEF Free
  <2> QED
    BY <2>1, <2>2, Zenon
<1> QED
  BY <1>2, <1>4, <1>5, Zenon

(* A query of a session is that of an open result set.                         *)
LEMMA QueryNext ==
    ASSUME Store, NEW t \in Threads, SessionLeft(t), NEW s, s = Own(t), Kind(t),
           isInStepQuery[s] => Opened(t) # {}, Used(t) => conn[s] # Null
    PROVE  isInStepQuery'[s] => Opened(t)' # {}
<1>0. s \in Sessions /\ (pc[t] \in Busy => s = Session(t))
  BY OwnFacts, Zenon DEF Store
<1>1. CASE Prepares(t)
  <2>1. Used(t) /\ s = Session(t)
    BY <1>0, <1>1, Zenon DEF Prepares, Used, Busy
  <2> QED
    BY <1>1, <2>1, OpenedOwn, Zenon
<1>2. CASE Finishes(t) \/ Refuses(t)
  <2>1. isInStepQuery' = [isInStepQuery EXCEPT ![s] = FALSE]
    BY <1>2, Zenon DEF Finishes, Refuses
  <2> QED
    BY <1>0, <2>1 DEF Store, StoreTypes
<1>3. CASE ~Prepares(t) /\ ~Finishes(t) /\ ~Refuses(t)
  <2>1. UNCHANGED isInStepQuery
    BY <1>3 DEF Kind, Begins, Passes, Acquires, Ends, Reopens, Keeps, Leaves, Closes, Same
  <2> QED
    BY <1>3, <2>1, OpenedOwn, Zenon
<1> QED
  BY <1>1, <1>2, <1>3

(* What QuietInv says of another thread stays true.                         *)
LEMMA QuietOther ==
    ASSUME Store, Store', Running, NEW t \in Threads, Kind(t), NEW s, Settled(t, s),
           NEW u \in Threads, u # t, QuietThread(u)
    PROVE  QuietThread(u)'
<1>1. /\ threadMap'[u] = threadMap[u] /\ Session(u)' = Session(u) /\ pc'[u] = pc[u] /\ op'[u] = op[u]
      /\ Session(u) # NoSession => Session(u) \in Sessions
  BY KindUntouched, Zenon DEF Untouched
<1>2. Session(u) # NoSession =>
         /\ connectionUseCount'[Session(u)] = connectionUseCount[Session(u)]
         /\ isInStepQuery'[Session(u)] = isInStepQuery[Session(u)]
  BY <1>1, KindUntouched, Zenon DEF Untouched
<1>3. Opened(u)' = Opened(u)
  BY OpenedOthers, Zenon
<1>4. /\ ObserverUses(u)' <= ObserverUses(u)
      /\ Session(u) \in Sessions => (Session(u) \in Keepers' <=> Session(u) \in Keepers)
      /\ Transacting(u) => /\ owner' = owner /\ Keepers' = Keepers
                           /\ transactionStack = <<>> => transactionStack' = <<>>
  BY DEF Settled
<1>5. ObserverUses(u) \in Nat /\ ObserverUses(u)' \in Nat
  <2>1. Len(transactionStack) \in Nat /\ Len(transactionStack') \in Nat
    BY DEF Store, StoreTypes, CallTypes
  <2> QED
    BY <2>1, Zenon DEF ObserverUses
<1>6. threadMap[u].useCount \in Nat /\ Cardinality(Opened(u)) \in Nat /\ B(pc[u] \in Busy) \in {0, 1}
  BY OwnFacts, OpenedCount, BValues, Zenon DEF Store
<1>7. threadMap'[u].useCount >= B(pc'[u] \in Busy) + Cardinality(Opened(u)') + ObserverUses(u)'
  <2>1. threadMap[u].useCount >= B(pc[u] \in Busy) + Cardinality(Opened(u)) + ObserverUses(u)
    BY Zenon DEF QuietThread
  <2>2. threadMap'[u].useCount = threadMap[u].useCount /\ B(pc'[u] \in Busy) = B(pc[u] \in Busy)
        /\ Cardinality(Opened(u)') = Cardinality(Opened(u))
    BY <1>1, <1>3, Zenon
  <2> QED
    BY <1>4, <1>5, <1>6, <2>1, <2>2, SMTT(30)
<1>8. Session(u)' # NoSession /\ isInStepQuery'[Session(u)'] => Opened(u)' # {}
  BY <1>1, <1>2, <1>3, Zenon DEF QuietThread
<1>9. Session(u)' # NoSession =>
         connectionUseCount'[Session(u)'] = B(Used(u)') + B(isInStepQuery'[Session(u)'])
                                             + B(Session(u)' \in Keepers')
  <2>1. Used(u)' = Used(u)
    BY <1>1, Zenon DEF Used
  <2>2. ASSUME Session(u) # NoSession
        PROVE  /\ B(Session(u) \in Keepers') = B(Session(u) \in Keepers)
               /\ B(isInStepQuery'[Session(u)]) = B(isInStepQuery[Session(u)])
               /\ B(Used(u)') = B(Used(u))
    BY <1>1, <1>2, <1>4, <2>1, <2>2, Zenon DEF B
  <2>3. Session(u) # NoSession =>
         connectionUseCount[Session(u)] = B(Used(u)) + B(isInStepQuery[Session(u)])
                                           + B(Session(u) \in Keepers)
    BY Zenon DEF QuietThread
  <2> QED
    BY <1>1, <1>2, <2>2, <2>3, Zenon
<1>10. /\ Transacting(u)' => owner' = u
       /\ Starting(u)' => transactionStack' = <<>>
       /\ Closing(u)' => Keepers' = {}
  <2>1. /\ Transacting(u) => owner = u
        /\ Starting(u) => transactionStack = <<>>
        /\ Closing(u) => Keepers = {}
    BY Zenon DEF QuietThread
  <2>2. (Transacting(u)' => Transacting(u)) /\ (Starting(u)' => Starting(u)) /\ (Closing(u)' => Closing(u))
    BY <1>1, Zenon DEF Transacting, Starting, Closing
  <2>3. (Starting(u) => Transacting(u)) /\ (Closing(u) => Transacting(u))
    BY Zenon DEF Transacting, Starting, Closing, TransactionCalls
  <2> QED
    BY <1>4, <2>1, <2>2, <2>3, Zenon
<1> QED
  BY <1>7, <1>8, <1>9, <1>10, Zenon DEF QuietThread

(* After the step the thread still has its session, or has no use of it.    *)
LEMMA OwnAfter ==
    ASSUME Store, Store', NEW t \in Threads, Kind(t), NEW s, s = Own(t)
    PROVE  /\ threadMap'[t].useCount \in Nat
           /\ Session(t)' = NoSession <=> threadMap'[t].useCount = 0
           /\ Session(t)' # NoSession => Session(t)' = s /\ SessionLeft(t)
<1>1. threadMap'[t].useCount \in Nat /\ (Session(t)' = NoSession <=> threadMap'[t].useCount = 0)
  BY Zenon DEF Store, CallInv, Apart, Present, Maps, Session
<1>2. Session(t)' # NoSession => Session(t)' = s
  BY <1>1, KindMoves, Zenon DEF Turns
<1>3. /\ threadMap[t].useCount \in Nat
      /\ ~SessionLeft(t) => pc[t] \notin Busy /\ threadMap[t].useCount = 0 /\ Session(t) = NoSession
  BY OwnFacts DEF Store
<1>4. ~SessionLeft(t) => Turns(t, 0)
  BY <1>3, Zenon DEF Kind, Begins, Passes, Acquires, Ends, Reopens, Keeps, Prepares, Leaves, Finishes,
              Refuses, Closes, Busy
<1>5. ~SessionLeft(t) => threadMap'[t].useCount = 0
  BY <1>3, <1>4 DEF Turns, Plus
<1> QED
  BY <1>1, <1>2, <1>5, Zenon

(* At most one session keeps a connection for a transaction.                *)
LEMMA KeepersOne == (\A x, y \in Keepers : x = y) /\ (\A x, y \in Keepers' : x = y)
                    /\ Keepers \subseteq Sessions /\ Keepers' \subseteq Sessions
BY DEF Keepers

(* What QuietInv says of the thread itself is true again after a step that  *)
(* is settled.                                                              *)
LEMMA QuietOwn ==
    ASSUME Store, Store', Running, QuietInv, noted \cap QuietNotes = {}, NEW t \in Threads, Kind(t),
           NEW s, s = Own(t), Settled(t, s)
    PROVE  /\ QuietThread(t)'
           /\ SessionLeft(t) => (isInStepQuery'[s] => Opened(t)' # {})
<1>0. /\ threadMap'[t].useCount \in Nat
      /\ Session(t)' # NoSession => Session(t)' = s /\ SessionLeft(t)
  BY OwnAfter, Zenon
<1>1. ASSUME SessionLeft(t) PROVE isInStepQuery'[s] => Opened(t)' # {}
  <2>1. s \in Sessions /\ connectionUseCount[s] \in Nat
        /\ (connectionUseCount[s] > 0 <=> conn[s] # Null)
    BY <1>1, OwnFacts, Zenon DEF Store, StoreTypes, ConnectedInv
  <2>2. (isInStepQuery[s] => Opened(t) # {}) /\ Free(t, s) = B(s \in Keepers)
    BY <1>1, QuietBefore, Zenon
  <2>3. B(Used(t)) \in {0, 1} /\ B(isInStepQuery[s]) \in {0, 1} /\ B(s \in Keepers) \in {0, 1}
        /\ (Used(t) => B(Used(t)) = 1)
    BY BValues
  <2>4. Used(t) => connectionUseCount[s] > 0
    <3> DEFINE c == connectionUseCount[s]
               u == B(Used(t))
               q == B(isInStepQuery[s])
               k == B(s \in Keepers)
    <3>1. c - u - q = k
      BY <2>2, Zenon DEF Free
    <3>2. c \in Nat /\ u \in {0, 1} /\ q \in {0, 1} /\ k \in {0, 1} /\ (Used(t) => u = 1)
      BY <2>1, <2>3, Zenon
    <3> HIDE DEF c, u, q, k
    <3>3. Used(t) => c > 0
      BY <3>1, <3>2, SMTT(30)
    <3> QED
      BY <3>3, Zenon DEF c
  <2> QED
    BY <1>1, <2>1, <2>2, <2>4, QueryNext, Zenon
<1>2. threadMap'[t].useCount >= B(pc'[t] \in Busy) + Cardinality(Opened(t)') + ObserverUses(t)'
  <2>1. Spare(t)' >= ObserverUses(t)'
    BY Zenon DEF Settled
  <2>2. Spare(t)' = threadMap'[t].useCount - B(pc'[t] \in Busy) - Cardinality(Opened(t)')
    BY Zenon DEF Spare
  <2>3. B(pc'[t] \in Busy) \in {0, 1} /\ Cardinality(Opened(t)') \in Nat
    BY BValues, OpenedCount, Zenon
  <2>4. ObserverUses(t)' \in Nat
    <3>1. Len(transactionStack') \in Nat
      BY DEF Store, StoreTypes, CallTypes
    <3> QED
      BY <3>1, Zenon DEF ObserverUses
  <2> QED
    BY <1>0, <2>1, <2>2, <2>3, <2>4
<1>3. Session(t)' # NoSession /\ isInStepQuery'[Session(t)'] => Opened(t)' # {}
  BY <1>0, <1>1, Zenon
<1>4. Running' /\ Session(t)' # NoSession =>
          connectionUseCount'[Session(t)'] = B(Used(t)') + B(isInStepQuery'[Session(t)'])
                                              + B(Session(t)' \in Keepers')
  <2>1. ASSUME Running', SessionLeft(t)
        PROVE  connectionUseCount'[s] = B(Used(t)') + B(isInStepQuery'[s]) + B(s \in Keepers')
    <3>1. Free(t, s)' = B(s \in Keepers')
      BY <2>1, Zenon DEF Settled
    <3>2. Free(t, s)' = connectionUseCount'[s] - B(Used(t)') - B(isInStepQuery'[s])
      BY Zenon DEF Free
    <3>3. connectionUseCount'[s] \in Nat
      <4>1. s \in Sessions
        BY <2>1, OwnFacts, Zenon DEF Store
      <4> QED
        BY <4>1, Zenon DEF Store, StoreTypes
    <3>4. B(Used(t)') \in {0, 1} /\ B(isInStepQuery'[s]) \in {0, 1} /\ B(s \in Keepers') \in {0, 1}
      BY BValues
    <3> QED
      BY <3>1, <3>2, <3>3, <3>4
  <2> QED
    BY <1>0, <2>1, Zenon
<1>5. /\ Transacting(t)' => owner' = t
      /\ Starting(t)' => transactionStack' = <<>>
      /\ Closing(t)' => Keepers' = {}
  BY Zenon DEF Settled
<1> QED
  BY <1>1, <1>2, <1>3, <1>4, <1>5, Zenon DEF QuietThread

(* QuietInv holds after a step that respects the transactions.                 *)
LEMMA QuietStep ==
    ASSUME Store, Store', Running, QuietInv, noted \cap QuietNotes = {}, NEW t \in Threads, Kind(t),
           NEW s, s = Own(t), Settled(t, s)
    PROVE  QuietInv'
<1>0. /\ \A u \in Threads : QuietThread(u)
      /\ \A x \in Sessions : (\A u \in Threads : Session(u) # x) => conn[x] = Null /\ ~isInStepQuery[x]
  BY Zenon DEF QuietInv
<1>1. \A u \in Threads : QuietThread(u)'
  BY <1>0, QuietOther, QuietOwn, Zenon
<1>2. Keepers' # {} =>
          owner' \in Threads /\ Session(owner)' \in Keepers' /\ depth' >= Len(transactionStack')
  BY DEF Settled
<1>3. Untouched(t)
  BY KindUntouched, Zenon
<1>4. ASSUME NEW x \in Sessions, \A u \in Threads : Session(u)' # x
      PROVE  conn'[x] = Null /\ ~isInStepQuery'[x]
  <2>1. \A u \in Threads : u # t => Session(u) # x
    BY <1>3, <1>4, Zenon DEF Untouched
  <2>2. CASE x = s /\ SessionLeft(t)
    <3>1. Session(t)' = NoSession /\ threadMap'[t].useCount = 0
      BY <1>4, <2>2, OwnAfter, ZenonT(30)
    <3>2. pc'[t] \notin Busy /\ Opened(t)' = {}
      <4>1. Spare(t)' >= ObserverUses(t)' /\ ObserverUses(t)' >= 0
        <5>1. Len(transactionStack') \in Nat
          BY DEF Store, StoreTypes, CallTypes
        <5> QED
          BY <5>1, SMTT(30) DEF Settled, ObserverUses
      <4>2. Spare(t)' = threadMap'[t].useCount - B(pc'[t] \in Busy) - Cardinality(Opened(t)')
        BY Zenon DEF Spare
      <4>3. B(pc'[t] \in Busy) \in {0, 1} /\ (pc'[t] \in Busy => B(pc'[t] \in Busy) = 1)
        BY BValues, Zenon
      <4>4. Cardinality(Opened(t)') \in Nat /\ (Cardinality(Opened(t)') = 0 <=> Opened(t)' = {})
        BY OpenedCount, Zenon
      <4>5. ObserverUses(t)' \in Int
        <5>1. Len(transactionStack') \in Nat
          BY DEF Store, StoreTypes, CallTypes
        <5> QED
          BY <5>1 DEF ObserverUses
      <4> QED
        BY <3>1, <4>1, <4>2, <4>3, <4>4, <4>5, SMTT(30)
    <3>3. ~isInStepQuery'[s]
      BY <2>2, <3>2, QuietOwn, SMTT(30)
    <3>4. s \notin Keepers'
      BY <1>2, <1>4, <2>2, KeepersOne
    <3>5. Running'
      BY <1>3, <3>1, Zenon DEF Running, Settled, Untouched
    <3>6. connectionUseCount'[s] = 0
      <4>1. Free(t, s)' = B(s \in Keepers')
        BY <2>2, <3>5, Zenon DEF Settled
      <4>2. Free(t, s)' = connectionUseCount'[s] - B(Used(t)') - B(isInStepQuery'[s])
        BY Zenon DEF Free
      <4>3. ~Used(t)'
        BY <3>2, Zenon DEF Used, Busy
      <4>4. B(Used(t)') = 0 /\ B(isInStepQuery'[s]) = 0 /\ B(s \in Keepers') = 0
        BY <3>3, <3>4, <4>3, BValues, Zenon
      <4>5. connectionUseCount'[s] \in Nat
        BY <2>2, Zenon DEF Store, StoreTypes
      <4> QED
        BY <4>1, <4>2, <4>4, <4>5
    <3>7. conn'[s] = Null
      BY <2>2, <3>5, <3>6 DEF Store, ConnectedInv
    <3> QED
      BY <2>2, <3>3, <3>7, Zenon
  <2>3. CASE x # s \/ ~SessionLeft(t)
    <3>1. Session(t) # x
      <4>1. Session(t) # NoSession => Session(t) = s /\ SessionLeft(t)
        BY OwnFacts, Zenon DEF Store
      <4> QED
        BY <2>3, <4>1, NothingAssumption, Zenon
    <3>2. conn[x] = Null /\ ~isInStepQuery[x]
      BY <1>0, <2>1, <3>1, Zenon
    <3>3. conn'[x] = conn[x] /\ isInStepQuery'[x] = isInStepQuery[x]
      <4>1. CASE x # s
        BY <1>3, <4>1, Zenon DEF Untouched
      <4>2. CASE x = s /\ ~SessionLeft(t)
        BY <4>2, KindMoves, Zenon DEF Linked
      <4> QED
        BY <2>3, <4>1, <4>2, Zenon
    <3> QED
      BY <3>2, <3>3, Zenon
  <2> QED
    BY <2>2, <2>3, Zenon
<1> QED
  BY <1>1, <1>2, <1>4, Zenon DEF QuietInv

-----------------------------------------------------------------------------
(* The steps respect the transactions.                                       *)

(* A thread that keeps a connection for its transaction keeps its session.     *)
LEMMA KeeperSession ==
    ASSUME Store, Store', NEW t \in Threads, Kind(t), NEW s, s = Own(t),
           Spare(t)' >= ObserverUses(t)', owner' = t, Keepers' # {}
    PROVE  Session(t)' = s
<1> DEFINE V == threadMap'[t].useCount
           d == B(pc'[t] \in Busy)
           p == Cardinality(Opened(t)')
           n == Len(transactionStack')
<1>1. V - d - p >= n
  <2>1. ObserverUses(t)' = n
    BY Zenon DEF ObserverUses
  <2> QED
    BY <2>1, Zenon DEF Spare
<1>2. n \in Nat /\ n # 0
  <2>1. transactionStack' \in Seq(Transactions) /\ transactionStack' # <<>>
    BY Zenon DEF Store, StoreTypes, CallTypes, Keepers
  <2> QED
    BY <2>1
<1>3. V \in Nat /\ d \in {0, 1} /\ p \in Nat
  BY OwnAfter, BValues, OpenedCount, Zenon
<1> HIDE DEF V, d, p, n
<1>4. V # 0
  BY <1>1, <1>2, <1>3
<1> QED
  BY <1>4, OwnAfter, Zenon DEF V

(* A call that ends in a null pointer does not give its session back.          *)
LEMMA CrashKeeps ==
    ASSUME Store, NEW t \in Threads, Ordinary(t), pc'[t] = "crashed"
    PROVE  Session(t)' # NoSession
<1>0. /\ threadMap[t].useCount \in Nat /\ (pc[t] \in Busy => Session(t) # NoSession)
      /\ SessionLeft(t) => Own(t) \in Sessions
      /\ Session(t) # NoSession <=> threadMap[t].useCount > 0
      /\ Session(t) # NoSession => SessionLeft(t)
  BY OwnFacts, Zenon DEF Store
<1>1. \A place : Moves(t, place) => pc'[t] = place
  BY Zenon DEF Moves, Store, CallInv
<1>2. Begins(t) \/ Acquires(t)
  BY <1>1 DEF Ordinary, Passes, Ends, Reopens, Prepares, Finishes, Refuses, Closes
<1>3. CASE Begins(t)
  <2>1. Turns(t, 1) /\ SessionLeft(t)
    BY <1>3, Zenon DEF Begins
  <2>2. threadMap'[t].useCount # 0
    BY <1>0, <2>1 DEF Turns, Plus
  <2> QED
    BY <1>0, <2>1, <2>2, NothingAssumption, Zenon DEF Turns
<1>4. CASE Acquires(t)
  <2>1. Turns(t, 0) /\ pc[t] \in Busy
    BY <1>4, Zenon DEF Acquires, Busy
  <2>2. SessionLeft(t) /\ threadMap[t].useCount > 0
    BY <1>0, <2>1, Zenon
  <2>3. threadMap'[t].useCount # 0
    BY <1>0, <2>1, <2>2 DEF Turns, Plus
  <2> QED
    BY <1>0, <2>1, <2>2, <2>3, NothingAssumption, Zenon DEF Turns
<1> QED
  BY <1>2, <1>3, <1>4

(* What QuietInv says of t's transactions.                                     *)
LEMMA QuietFacts ==
    ASSUME Store, QuietInv, noted \cap QuietNotes = {}, NEW t \in Threads
    PROVE  /\ Transacting(t) => owner = t
           /\ Starting(t) => transactionStack = <<>>
           /\ Closing(t) => Keepers = {}
           /\ Keepers # {} => /\ owner \in Threads /\ Session(owner) \in Keepers
                              /\ depth >= Len(transactionStack)
           /\ Starting(t) \/ Closing(t) => Transacting(t)
<1>1. QuietThread(t) /\ (Keepers # {} => /\ owner \in Threads /\ Session(owner) \in Keepers
                                         /\ depth >= Len(transactionStack))
  BY Zenon DEF QuietInv
<1>2. Starting(t) \/ Closing(t) => Transacting(t)
  BY Zenon DEF Starting, Closing, Transacting, TransactionCalls
<1> QED
  BY <1>1, <1>2, Zenon DEF QuietThread

(* A step that neither keeps nor leaves a connection for a transaction      *)
(* leaves the uses for transactions as they are.                            *)
LEMMA OrdinaryUses ==
    ASSUME Store, Running, QuietInv, noted \cap QuietNotes = {}, NEW t \in Threads, Ordinary(t),
           NEW s, s = Own(t)
    PROVE  /\ Spare(t) \in Int /\ Spare(t)' \in Int /\ Spare(t)' >= Spare(t)
           /\ ObserverUses(t) \in Nat /\ Spare(t) >= ObserverUses(t)
           /\ SessionLeft(t) /\ Running' => Free(t, s)' = B(s \in Keepers)
<1>1. Kind(t)
  BY Zenon DEF Ordinary, Kind
<1>2. ObserverUses(t) \in Nat /\ Spare(t) \in Int /\ Spare(t) >= ObserverUses(t)
  BY QuietBefore, Zenon
<1>3. Spare(t) >= 0
  BY <1>2
<1>4. Spare(t)' \in Int /\ Spare(t)' >= Spare(t)
  BY <1>1, <1>3, SpareNext, Zenon DEF Ordinary
<1>5. ASSUME SessionLeft(t), Running' PROVE Free(t, s)' = B(s \in Keepers)
  <2>1. Free(t, s) = B(s \in Keepers) /\ B(s \in Keepers) \in {0, 1}
    BY <1>5, QuietBefore, BValues, Zenon
  <2>2. Free(t, s) >= 0
    BY <2>1
  <2>3. Free(t, s)' = Free(t, s)
    BY <1>1, <1>5, <2>2, FreeNext, Zenon DEF Ordinary
  <2> QED
    BY <2>1, <2>3, Zenon
<1> QED
  BY <1>2, <1>4, <1>5, Zenon

(* Steps that have nothing to do with transactions.                            *)
LEMMA PlainSettled ==
    ASSUME Store, Store', Running, QuietInv, noted \cap QuietNotes = {}, NEW t \in Threads,
           NEW s, s = Own(t), Plain(t)
    PROVE  Settled(t, s)
<1>0. /\ Ordinary(t) /\ Keepers' = Keepers /\ Len(transactionStack') = Len(transactionStack)
      /\ depth' = depth /\ owner' = owner
      /\ Transacting(t)' => pc'[t] # "pop" /\ pc[t] \in Busy /\ op'[t] = op[t]
  BY Zenon DEF Plain, StackKept
<1>1. Kind(t) /\ Untouched(t)
  BY <1>0, KindUntouched, Zenon DEF Ordinary, Kind
<1>2. \A u \in Threads : ObserverUses(u)' = ObserverUses(u)
  BY <1>0, Zenon DEF ObserverUses
<1>3. \A u \in Threads : ObserverUses(u) \in Nat
  BY QuietBefore, Zenon
<1>4. transactionStack = <<>> => transactionStack' = <<>>
  <2>1. transactionStack' \in Seq(Transactions)
    BY Zenon DEF Store, StoreTypes, CallTypes
  <2> QED
    BY <1>0, <2>1
<1>5. /\ Spare(t)' >= ObserverUses(t)'
      /\ SessionLeft(t) /\ Running' => Free(t, s)' = B(s \in Keepers')
  <2>1. /\ Spare(t) \in Int /\ Spare(t)' \in Int /\ Spare(t)' >= Spare(t)
        /\ ObserverUses(t) \in Nat /\ Spare(t) >= ObserverUses(t)
        /\ SessionLeft(t) /\ Running' => Free(t, s)' = B(s \in Keepers)
    BY <1>0, OrdinaryUses, Zenon
  <2>2. Spare(t)' >= ObserverUses(t)
    BY <2>1
  <2> QED
    BY <1>0, <1>2, <2>1, <2>2, Zenon
<1>6. ASSUME Keepers' # {}
      PROVE  owner' \in Threads /\ Session(owner)' \in Keepers' /\ depth' >= Len(transactionStack')
  <2>1. owner \in Threads /\ Session(owner) \in Keepers /\ depth >= Len(transactionStack)
    BY <1>0, <1>6, QuietFacts, Zenon
  <2>2. Session(owner) # NoSession
    BY <2>1, KeepersOne, NothingAssumption, Zenon
  <2>3. CASE owner = t
    <3>1. Session(t)' = s
      BY <1>0, <1>1, <1>5, <1>6, <2>3, KeeperSession, Zenon
    <3>2. s = Session(t)
      BY <2>1, <2>2, <2>3, OwnFacts, Zenon DEF Store
    <3> QED
      BY <1>0, <2>1, <2>3, <3>1, <3>2, Zenon
  <2>4. CASE owner # t
    <3>1. Session(owner)' = Session(owner)
      BY <1>0, <1>1, <2>1, <2>4, Zenon DEF Untouched, Session
    <3> QED
      BY <1>0, <2>1, <3>1, Zenon
  <2> QED
    BY <2>3, <2>4
<1>7. /\ Transacting(t)' => owner' = t
      /\ Starting(t)' => transactionStack' = <<>>
      /\ Closing(t)' => Keepers' = {}
  <2>1. /\ Transacting(t)' => Transacting(t)
        /\ Starting(t)' => Transacting(t)' /\ Starting(t)
        /\ Closing(t)' => Transacting(t)' /\ Closing(t)
    BY <1>0, Zenon DEF Transacting, Starting, Closing, TransactionCalls
  <2> QED
    BY <1>0, <1>4, <2>1, QuietFacts, Zenon
<1>8. pc'[t] = "crashed" => Session(t)' # NoSession
  BY <1>0, CrashKeeps, Zenon
<1>9. \A u \in Threads : u # t =>
          /\ ObserverUses(u)' <= ObserverUses(u)
          /\ Session(u) \in Sessions => (Session(u) \in Keepers' <=> Session(u) \in Keepers)
          /\ Transacting(u) => /\ owner' = owner /\ Keepers' = Keepers
                               /\ transactionStack = <<>> => transactionStack' = <<>>
  <2>1. \A u \in Threads : ObserverUses(u)' <= ObserverUses(u)
    BY <1>2, <1>3
  <2> QED
    BY <1>0, <1>4, <2>1, Zenon
<1> QED
  BY <1>5, <1>6, <1>7, <1>8, <1>9, Zenon DEF Settled

(* A step of the only thread with transactions.                                *)
LEMMA AloneFacts ==
    ASSUME Store, QuietInv, noted \subseteq noted', noted' \cap QuietNotes = {}, NEW t \in Threads,
           Alone(t)
    PROVE  /\ noted \cap QuietNotes = {} /\ owner \in {NoThread, t}
           /\ "overlap" \notin noted' /\ "mixed" \notin noted'
           /\ \A u \in Threads : u # t => ~Transacting(u) /\ Session(u) \notin Keepers
           /\ Keepers # {} => /\ owner = t /\ Session(t) = Own(t) /\ Own(t) \in Keepers
                              /\ depth >= Len(transactionStack)
<1>1. noted \cap QuietNotes = {} /\ "overlap" \notin noted' /\ "mixed" \notin noted'
  BY Zenon DEF QuietNotes
<1>2. owner \in {NoThread, t}
  BY <1>1, QuietFacts, Zenon DEF Alone
<1>3. \A u \in Threads : u # t => ~Transacting(u)
  BY <1>1, <1>2, QuietFacts, NothingAssumption, Zenon
<1>4. ASSUME Keepers # {}
      PROVE  /\ owner = t /\ Session(t) = Own(t) /\ Session(t) \in Keepers
             /\ depth >= Len(transactionStack)
  <2>1. owner = t /\ Session(t) \in Keepers /\ depth >= Len(transactionStack)
    BY <1>1, <1>2, <1>4, QuietFacts, NothingAssumption, Zenon
  <2>2. Session(t) # NoSession
    BY <2>1, KeepersOne, NothingAssumption, Zenon
  <2> QED
    BY <2>1, <2>2, OwnFacts, Zenon DEF Store
<1>5. ASSUME NEW u \in Threads, u # t PROVE Session(u) \notin Keepers
  <2>1. SUFFICES ASSUME Session(u) \in Keepers PROVE FALSE
    OBVIOUS
  <2>2. Session(u) = Own(t) /\ Session(t) = Own(t) /\ Session(t) # NoSession
    BY <1>4, <2>1, KeepersOne, NothingAssumption, Zenon
  <2> QED
    BY <1>5, <2>2, OwnFacts, Zenon DEF Store
<1> QED
  BY <1>1, <1>2, <1>3, <1>4, <1>5, Zenon

(* A step of the only thread with transactions is settled.                  *)
LEMMA AloneSettled ==
    ASSUME Store, Store', QuietInv, noted \subseteq noted', noted' \cap QuietNotes = {},
           NEW t \in Threads, Alone(t), Kind(t), NEW s, s = Own(t), Turned(t),
           Keepers' \subseteq Keepers \cup {Session(t)},
           Keepers' # {} => depth' >= Len(transactionStack') /\ s \in Keepers',
           Starting(t)' => transactionStack' = <<>>,
           Closing(t)' => Keepers' = {},
           Spare(t)' >= ObserverUses(t)',
           SessionLeft(t) /\ Running' => Free(t, s)' = B(s \in Keepers'),
           pc'[t] = "crashed" => Session(t)' # NoSession
    PROVE  Settled(t, s)
<1>0. owner \in {NoThread, t} /\ owner' \in {NoThread, t} /\ (Transacting(t)' => owner' = t)
      /\ (owner' # t => depth' = 0)
  BY AloneFacts, Zenon DEF Turned
<1>1. /\ Len(transactionStack') \in Nat /\ Len(transactionStack) \in Nat
      /\ Keepers' # {} => Len(transactionStack') # 0
  <2>1. /\ transactionStack' \in Seq(Transactions) /\ transactionStack \in Seq(Transactions)
        /\ Keepers' # {} => transactionStack' # <<>>
    BY Zenon DEF Store, StoreTypes, CallTypes, Keepers
  <2> QED
    BY <2>1
<1>2. Keepers' # {} => owner' = t
  <2>1. ASSUME Keepers' # {}, depth' = 0 PROVE FALSE
    <3>1. depth' >= Len(transactionStack') /\ Len(transactionStack') # 0
          /\ Len(transactionStack') \in Nat /\ depth' = 0
      BY <1>1, <2>1, Zenon
    <3> QED
      BY <3>1
  <2> QED
    BY <1>0, <2>1, Zenon
<1>3. \A u \in Threads : u # t =>
          /\ ObserverUses(u)' <= ObserverUses(u)
          /\ Session(u) \in Sessions => (Session(u) \in Keepers' <=> Session(u) \in Keepers)
          /\ Transacting(u) => /\ owner' = owner /\ Keepers' = Keepers
                               /\ transactionStack = <<>> => transactionStack' = <<>>
  <2>1. ASSUME NEW u \in Threads, u # t
        PROVE  /\ ObserverUses(u)' = 0 /\ ObserverUses(u) = 0 /\ ~Transacting(u)
               /\ Session(u) \in Sessions => Session(u) \notin Keepers' /\ Session(u) \notin Keepers
    <3>1. owner # u /\ owner' # u
      BY <1>0, <2>1, NothingAssumption, Zenon
    <3>2. ~Transacting(u) /\ Session(u) \notin Keepers
      BY <2>1, AloneFacts, Zenon
    <3>3. Session(u) \in Sessions => Session(u) # Session(t)
      BY <2>1, OwnFacts, NothingAssumption, Zenon DEF Store
    <3> QED
      BY <3>1, <3>2, <3>3, Zenon DEF ObserverUses
  <2>2. 0 <= 0
    OBVIOUS
  <2> QED
    BY <2>1, <2>2, Zenon
<1>4. Keepers' # {} => owner' \in Threads /\ Session(owner)' \in Keepers'
                       /\ depth' >= Len(transactionStack')
  <2>1. Keepers' # {} => Session(t)' = s
    BY <1>2, KeeperSession, Zenon
  <2> QED
    BY <1>2, <2>1, Zenon
<1> QED
  BY <1>0, <1>3, <1>4, Zenon DEF Settled

(* A transaction call begins.                                                  *)
LEMMA CalledSettled ==
    ASSUME Store, Store', Running, QuietInv, noted \subseteq noted', noted' \cap QuietNotes = {},
           NEW t \in Threads, NEW s, s = Own(t), Called(t)
    PROVE  Settled(t, s)
<1>0. /\ Ordinary(t) /\ Alone(t) /\ Keepers' = Keepers
      /\ Len(transactionStack') = Len(transactionStack) /\ depth' = depth /\ Turned(t)
      /\ Starting(t)' => transactionStack' = <<>>
      /\ Closing(t)' => Keepers = {} \/ "mixed" \in noted'
  BY Zenon DEF Called, StackKept, Ordinary
<1>1. Kind(t)
  BY <1>0, Zenon DEF Ordinary, Kind
<1>2. /\ noted \cap QuietNotes = {} /\ "mixed" \notin noted'
      /\ Keepers # {} => owner = t /\ s \in Keepers /\ depth >= Len(transactionStack)
  BY <1>0, AloneFacts, Zenon
<1>3. /\ Spare(t) \in Int /\ Spare(t)' \in Int /\ Spare(t)' >= Spare(t)
      /\ ObserverUses(t) \in Nat /\ Spare(t) >= ObserverUses(t)
      /\ SessionLeft(t) /\ Running' => Free(t, s)' = B(s \in Keepers)
  BY <1>0, <1>2, OrdinaryUses, Zenon
<1>4. ObserverUses(t)' = 0 \/ ObserverUses(t)' = ObserverUses(t)
  BY <1>0, <1>2, Zenon DEF ObserverUses
<1>5. Spare(t)' >= ObserverUses(t)'
  BY <1>3, <1>4
<1>6. pc'[t] = "crashed" => Session(t)' # NoSession
  BY <1>0, CrashKeeps, Zenon
<1> QED
  BY <1>0, <1>1, <1>2, <1>3, <1>5, <1>6, AloneSettled, Zenon

(* It fails, or ends a transaction without an observer.                        *)
LEMMA FinishedSettled ==
    ASSUME Store, Store', Running, QuietInv, noted \subseteq noted', noted' \cap QuietNotes = {},
           NEW t \in Threads, NEW s, s = Own(t), Finished(t)
    PROVE  Settled(t, s)
<1>0. /\ Ordinary(t) /\ Alone(t) /\ Turned(t) /\ pc'[t] \in {"idle", "pop"}
      /\ \/ Keepers' = Keepers /\ Len(transactionStack') = Len(transactionStack)
            /\ depth' = depth /\ pc'[t] = "idle"
         \/ Closing(t) /\ Keepers' \subseteq Keepers
  BY Zenon DEF Finished, StackKept, Ordinary, Alone
<1>1. Kind(t)
  BY <1>0, Zenon DEF Ordinary, Kind
<1>2. /\ noted \cap QuietNotes = {}
      /\ Keepers # {} => owner = t /\ s \in Keepers /\ depth >= Len(transactionStack)
  BY <1>0, AloneFacts, Zenon
<1>3. /\ Spare(t) \in Int /\ Spare(t)' \in Int /\ Spare(t)' >= Spare(t)
      /\ ObserverUses(t) \in Nat /\ Spare(t) >= ObserverUses(t)
      /\ SessionLeft(t) /\ Running' => Free(t, s)' = B(s \in Keepers)
  BY <1>0, <1>2, OrdinaryUses, Zenon
<1>4. Keepers' = Keepers /\ (pc'[t] # "idle" => Keepers' = {})
      /\ (Keepers' # {} => Len(transactionStack') = Len(transactionStack) /\ depth' = depth)
  BY <1>0, <1>2, QuietFacts, Zenon
<1>5. ObserverUses(t)' = 0 \/ ObserverUses(t)' = ObserverUses(t)
  BY <1>2, <1>4, Zenon DEF ObserverUses
<1>6. Spare(t)' >= ObserverUses(t)'
  BY <1>3, <1>5
<1>7. pc'[t] = "crashed" => Session(t)' # NoSession
  BY <1>0, CrashKeeps, Zenon
<1>8. /\ Starting(t)' => transactionStack' = <<>>
      /\ Closing(t)' => Keepers' = {}
  BY <1>0, <1>4, Zenon DEF Starting, Closing, Busy
<1> QED
  BY <1>0, <1>1, <1>2, <1>3, <1>4, <1>6, <1>7, <1>8, AloneSettled, Zenon

(* A transaction goes onto the stack without keeping the connection.           *)
LEMMA GrownSettled ==
    ASSUME Store, Store', Running, QuietInv, noted \subseteq noted', noted' \cap QuietNotes = {},
           NEW t \in Threads, NEW s, s = Own(t), Grown(t)
    PROVE  Settled(t, s)
<1>0. /\ Begins(t) \/ (Ends(t) /\ Turns(t, 0))
      /\ Ordinary(t) /\ Alone(t) /\ pc'[t] = "idle" /\ owner' = t /\ depth' = depth + 1
      /\ Keepers' = Keepers /\ Len(transactionStack') = Len(transactionStack) + 1
  BY Zenon DEF Grown, Ordinary
<1>1. Kind(t) /\ Turned(t) /\ pc'[t] \notin Busy
  BY <1>0, Zenon DEF Ordinary, Kind, Turned, Busy
<1>2. /\ noted \cap QuietNotes = {}
      /\ Keepers # {} => owner = t /\ s \in Keepers /\ depth >= Len(transactionStack)
  BY <1>0, AloneFacts, Zenon
<1>3. /\ Spare(t) \in Int /\ ObserverUses(t) \in Nat /\ Spare(t) >= ObserverUses(t)
      /\ SessionLeft(t) /\ Running' => Free(t, s)' = B(s \in Keepers)
  BY <1>0, <1>2, OrdinaryUses, Zenon
<1>4. Spare(t)' \in Int /\ Spare(t)' >= Spare(t) + 1
  <2>1. Spare(t) >= 0
    BY <1>3, SMTT(30)
  <2> QED
    BY <1>0, <1>1, <2>1, SpareNext, Zenon
<1>5. /\ depth \in Nat /\ Len(transactionStack) \in Nat
  BY DEF Store, StoreTypes, CallTypes
<1>6. ObserverUses(t)' = 0 \/ ObserverUses(t)' = ObserverUses(t) + 1
  BY <1>0, <1>2, Zenon DEF ObserverUses
<1>7. Spare(t)' >= ObserverUses(t)'
  BY <1>3, <1>4, <1>6, SMTT(30)
<1>8. Keepers # {} => depth' >= Len(transactionStack')
  BY <1>0, <1>2, <1>5
<1>9. pc'[t] # "crashed" /\ ~Starting(t)' /\ ~Closing(t)'
  BY <1>0, <1>1, Zenon DEF Starting, Closing
<1> QED
  BY <1>0, <1>1, <1>2, <1>3, <1>7, <1>8, <1>9, AloneSettled, Zenon

(* A transaction with an observer keeps the connection.                        *)
LEMMA KeptSettled ==
    ASSUME Store, Store', Running, QuietInv, noted \subseteq noted', noted' \cap QuietNotes = {},
           NEW t \in Threads, NEW s, s = Own(t), Kept(t)
    PROVE  Settled(t, s)
<1>0. /\ Keeps(t) /\ Kind(t) /\ Starting(t) /\ pc'[t] = "idle" /\ owner' = t /\ depth' = depth + 1
      /\ Len(transactionStack') = Len(transactionStack) + 1
      /\ transactionStack = <<>> => Keepers' = {Session(t)}
  BY Zenon DEF Kept, Kind
<1>1. Turned(t) /\ pc'[t] \notin Busy /\ Alone(t)
  BY <1>0, Zenon DEF Turned, Busy, Alone, Starting, Transacting, TransactionCalls
<1>2. noted \cap QuietNotes = {}
  BY <1>1, AloneFacts, Zenon
<1>3. transactionStack = <<>> /\ Keepers = {} /\ Keepers' = {Session(t)}
  BY <1>0, <1>2, QuietFacts, Zenon DEF Keepers
<1>4. Session(t) # NoSession /\ Session(t) = s /\ SessionLeft(t)
  BY <1>0, OwnFacts, Zenon DEF Store, Starting
<1>5. /\ Spare(t) \in Int /\ Spare(t) >= ObserverUses(t)
      /\ Free(t, s) = B(s \in Keepers)
  BY <1>2, <1>4, QuietBefore, Zenon
<1>6. ObserverUses(t) = 0 /\ Len(transactionStack') = 1 /\ depth \in Nat
  <2>1. Len(transactionStack') = 0 + 1
    BY <1>0, <1>3
  <2>2. depth \in Nat
    BY Zenon DEF Store, StoreTypes, CallTypes
  <2>3. ObserverUses(t) = 0
    BY <1>3, Zenon DEF ObserverUses
  <2> QED
    BY <2>1, <2>2, <2>3, SMTT(30)
<1>7. ObserverUses(t)' = 1
  BY <1>0, <1>3, <1>6, Zenon DEF ObserverUses
<1>8. Spare(t)' >= ObserverUses(t)'
  <2>1. Spare(t) >= 0
    BY <1>5, <1>6
  <2>2. Spare(t)' \in Int /\ Spare(t)' >= Spare(t) + 1
    BY <1>0, <2>1, SpareNext, Zenon
  <2> QED
    BY <1>5, <1>7, <2>1, <2>2, SMTT(30)
<1>9. Running' => Free(t, s)' = B(s \in Keepers')
  <2>1. Free(t, s) = 0 /\ B(s \in Keepers') = 1
    BY <1>3, <1>4, <1>5, BValues, Zenon
  <2>2. Free(t, s) >= 0
    BY <2>1
  <2>3. Running' => Free(t, s)' = Free(t, s) + 1
    BY <1>0, <1>4, <2>2, FreeNext, Zenon
  <2> QED
    BY <2>1, <2>3
<1>10. depth' >= Len(transactionStack')
  <2>1. depth' = depth + 1 /\ Len(transactionStack') = 1 /\ depth \in Nat
    BY <1>0, <1>6, Zenon
  <2> QED
    BY <2>1
<1>11. pc'[t] # "crashed" /\ ~Starting(t)' /\ ~Closing(t)'
  BY <1>0, <1>1, Zenon DEF Starting, Closing
<1> QED
  BY <1>0, <1>1, <1>3, <1>4, <1>8, <1>9, <1>10, <1>11, AloneSettled, Zenon

(* The outermost of them gives it back; an inner one leaves the stack.         *)
LEMMA LeftSettled ==
    ASSUME Store, Store', Running, QuietInv, noted \subseteq noted', noted' \cap QuietNotes = {},
           NEW t \in Threads, NEW s, s = Own(t), Left(t)
    PROVE  Settled(t, s)
<1>0. Leaves(t) /\ Kind(t) /\ Alone(t) /\ SessionLeft(t) /\ pc[t] = "idle"
  BY Zenon DEF Left, Leaves, Kind
<1>1. /\ noted \cap QuietNotes = {} /\ "mixed" \notin noted'
      /\ Keepers # {} => owner = t /\ s \in Keepers /\ depth >= Len(transactionStack)
                         /\ Session(t) = s
  BY <1>0, AloneFacts, Zenon
<1>2. /\ Spare(t) \in Int /\ ObserverUses(t) \in Nat /\ Spare(t) >= ObserverUses(t)
      /\ Free(t, s) = B(s \in Keepers)
  BY <1>0, <1>1, QuietBefore, Zenon
<1>3. s \in Sessions /\ connectionUseCount[s] \in Nat /\ (connectionUseCount[s] > 0 <=> conn[s] # Null)
  BY <1>0, OwnFacts, Zenon DEF Store, StoreTypes, ConnectedInv
<1>4. s \in Keepers => conn[s] # Null
  <2>1. ASSUME s \in Keepers PROVE connectionUseCount[s] > 0
    <3> DEFINE c == connectionUseCount[s]
               u == B(Used(t))
               q == B(isInStepQuery[s])
    <3>1. c - u - q = 1
      BY <1>2, <2>1, BValues, Zenon DEF Free
    <3>2. c \in Nat /\ u \in {0, 1} /\ q \in {0, 1}
      BY <1>3, BValues, Zenon
    <3> HIDE DEF c, u, q
    <3>3. c > 0
      BY <3>1, <3>2
    <3> QED
      BY <3>3, Zenon DEF c
  <2> QED
    BY <1>3, <2>1, Zenon
<1>5. /\ Keepers # {} /\ Turned(t) /\ pc'[t] \in {"idle", "acquire"}
      /\ \/ Linked(t, -1) /\ Len(transactionStack) = 1 /\ transactionStack' = <<>>
         \/ /\ Linked(t, 0) /\ pc'[t] = "idle" /\ Keepers' = Keepers
            /\ Len(transactionStack) > 1 /\ Len(transactionStack') = Len(transactionStack) - 1
            /\ depth' >= depth - 1
  BY <1>1, <1>4, Zenon DEF Left
<1>6. s \in Keepers /\ owner = t /\ depth >= Len(transactionStack)
      /\ ObserverUses(t) = Len(transactionStack)
  BY <1>1, <1>5, Zenon DEF ObserverUses
<1>7. depth \in Nat /\ depth' \in Nat /\ Len(transactionStack) \in Nat
  BY DEF Store, StoreTypes, CallTypes
<1>8. Spare(t)' \in Int /\ Spare(t)' >= Spare(t) - 1
  <2>1. Spare(t) >= 0
    BY <1>2
  <2> QED
    BY <1>0, <2>1, SpareNext, Zenon
<1>9. Free(t, s) = 1 /\ Free(t, s) >= 1 /\ Free(t, s) >= 0
  <2>1. Free(t, s) = 1
    BY <1>2, <1>6, BValues, Zenon
  <2> QED
    BY <2>1
<1>10. pc'[t] # "crashed" /\ ~Closing(t)'
  <2>1. pc'[t] \in Busy => op'[t] = "GiveConnectionTemporarily"
    <3>1. \A place : Moves(t, place) => pc'[t] = place
      BY Zenon DEF Moves, Store, CallInv
    <3> QED
      BY <1>0, <3>1, Zenon DEF Leaves, Busy
  <2> QED
    BY <1>5, <2>1, Zenon DEF Closing
<1>11. CASE Linked(t, -1) /\ Len(transactionStack) = 1 /\ transactionStack' = <<>>
  <2>1. Keepers' = {}
    BY <1>11, Zenon DEF Keepers
  <2>2. ObserverUses(t)' = 0
    BY <2>1, Zenon DEF ObserverUses
  <2>3. Spare(t)' >= ObserverUses(t)'
    <3>1. ObserverUses(t) = 1
      BY <1>6, <1>11, Zenon
    <3> QED
      BY <1>2, <1>8, <2>2, <3>1, SMTT(30)
  <2>4. Running' => Free(t, s)' = B(s \in Keepers')
    <3>1. B(s \in Keepers') = 0
      BY <2>1, BValues, Zenon
    <3>2. Running' => Free(t, s)' = Free(t, s) - 1
      BY <1>0, <1>9, <1>11, FreeNext, Zenon
    <3> QED
      BY <1>9, <3>1, <3>2
  <2> QED
    BY <1>0, <1>5, <1>10, <1>11, <2>1, <2>3, <2>4, AloneSettled, Zenon
<1>12. CASE /\ Linked(t, 0) /\ pc'[t] = "idle" /\ Keepers' = Keepers
            /\ Len(transactionStack) > 1 /\ Len(transactionStack') = Len(transactionStack) - 1
            /\ depth' >= depth - 1
  <2>1. depth' >= Len(transactionStack')
    <3>1. /\ depth' >= depth - 1 /\ depth >= Len(transactionStack)
          /\ Len(transactionStack') = Len(transactionStack) - 1
      BY <1>6, <1>12, Zenon
    <3> QED
      BY <1>7, <3>1
  <2>2. ObserverUses(t)' = 0 \/ ObserverUses(t)' = ObserverUses(t) - 1
    BY <1>6, <1>12, Zenon DEF ObserverUses
  <2>3. Spare(t)' >= ObserverUses(t)'
    <3>1. ObserverUses(t) > 1
      BY <1>6, <1>12, Zenon
    <3> QED
      BY <1>2, <1>8, <2>2, <3>1, SMTT(30)
  <2>4. Running' => Free(t, s)' = B(s \in Keepers')
    <3>1. Running' => Free(t, s)' = Free(t, s)
      BY <1>0, <1>9, <1>12, FreeNext, Zenon
    <3> QED
      BY <1>2, <1>12, <3>1, Zenon
  <2>5. ~Starting(t)'
    BY <1>12, Zenon DEF Starting, Busy
  <2> QED
    BY <1>0, <1>5, <1>6, <1>10, <1>12, <2>1, <2>3, <2>4, <2>5, AloneSettled, Zenon
<1> QED
  BY <1>5, <1>11, <1>12, Zenon

(* QuietInv is preserved.                                                      *)
LEMMA QuietNext ==
    ASSUME Store, Store', Running, QuietInv, NEW t \in Threads, Kind(t), Effect(t),
           noted \subseteq noted'
    PROVE  QuietInv'
<1>1. CASE noted' \cap QuietNotes = {}
  <2>1. noted \cap QuietNotes = {}
    BY <1>1, Zenon
  <2>2. Settled(t, Own(t))
    BY <1>1, <2>1, PlainSettled, CalledSettled, FinishedSettled, GrownSettled, KeptSettled,
       LeftSettled, Zenon DEF Effect
  <2> QED
    BY <2>1, <2>2, QuietStep, Zenon
<1>2. CASE noted' \cap QuietNotes # {}
  BY <1>2, Zenon DEF QuietInv
<1> QED
  BY <1>1, <1>2

-----------------------------------------------------------------------------
(* The open result sets and the queries of the sessions.                     *)

(* A thread with an open result set has a session, and keeps it.               *)
LEMMA OpenSession ==
    ASSUME Store, Store', QuietInv, QuietInv', noted \cap QuietNotes = {}, noted' \cap QuietNotes = {},
           NEW t \in Threads, Kind(t)
    PROVE  /\ \A u \in Threads : Opened(u) # {} => Session(u) \in Sessions /\ Session(u) # NoSession
           /\ Opened(t) # {} /\ Opened(t)' # {} => Session(t)' = Session(t)
<1>1. ASSUME NEW u \in Threads, Opened(u) # {} PROVE Session(u) \in Sessions /\ Session(u) # NoSession
  <2> DEFINE V == threadMap[u].useCount
             d == B(pc[u] \in Busy)
             p == Cardinality(Opened(u))
             n == ObserverUses(u)
  <2>1. V >= d + p + n
    BY Zenon DEF QuietInv, QuietThread
  <2>2. V \in Nat /\ d \in {0, 1} /\ p \in Nat /\ p # 0
    BY <1>1, OwnFacts, BValues, OpenedCount, Zenon DEF Store
  <2>3. n \in Nat
    <3>1. Len(transactionStack) \in Nat
      BY DEF Store, StoreTypes, CallTypes
    <3> QED
      BY <3>1, Zenon DEF ObserverUses
  <2> HIDE DEF V, d, p, n
  <2>4. V > 0
    BY <2>1, <2>2, <2>3
  <2> QED
    BY <2>4, OwnFacts, Zenon DEF V, Store
<1>2. ASSUME Opened(t) # {}, Opened(t)' # {} PROVE Session(t)' = Session(t)
  <2> DEFINE V == threadMap'[t].useCount
             d == B(pc'[t] \in Busy)
             p == Cardinality(Opened(t)')
             n == ObserverUses(t)'
  <2>1. V >= d + p + n
    BY Zenon DEF QuietInv, QuietThread
  <2>2. V \in Nat /\ d \in {0, 1} /\ p \in Nat /\ p # 0
    BY <1>2, OwnAfter, BValues, OpenedCount, Zenon
  <2>3. n \in Nat
    <3>1. Len(transactionStack') \in Nat
      BY DEF Store, StoreTypes, CallTypes
    <3> QED
      BY <3>1, SMTT(30) DEF ObserverUses
  <2> HIDE DEF V, d, p, n
  <2>4. V # 0
    BY <2>1, <2>2, <2>3
  <2>5. Session(t)' = Own(t)
    BY <2>4, OwnAfter, Zenon DEF V
  <2>6. Session(t) = Own(t)
    BY <1>1, <1>2, OwnFacts, Zenon DEF Store
  <2> QED
    BY <2>5, <2>6, Zenon
<1> QED
  BY <1>1, <1>2, Zenon

(* What ReasonInv says of the result sets that u has open.                     *)
LEMMA ReasonOpened ==
    ASSUME ReasonInv, noted \cap ReasonNotes = {}, NEW u \in Threads, NEW r \in Opened(u)
    PROVE  /\ ~resultSet[r].isClosed /\ isInStepQuery[Session(u)]
           /\ \A q \in Opened(u) : q = r
BY Zenon DEF ReasonInv, Opened

(* A result set that stays open is not closed meanwhile.                       *)
LEMMA StaysOpen ==
    ASSUME Store, NEW t \in Threads, Kind(t), ~Closes(t), NEW u \in Threads,
           NEW r \in Opened(u), r \in Opened(u)', \A x, y \in Opened(t) : x = y
    PROVE  resultSet'[r].isClosed = resultSet[r].isClosed
<1>0. r \in ResultSets /\ resultSet[r].statement # Null /\ resultSet[r].tid = u
      /\ resultSet'[r].statement # Null
  BY Zenon DEF Opened
<1>1. CASE Prepares(t)
  <2>1. arg[t] \in ResultSets /\ resultSet[arg[t]].statement = Null
    BY <1>1, Zenon DEF Prepares, Store, PrepareInv, Preparing
  <2>2. r # arg[t]
    BY <1>0, <2>1, Zenon
  <2>3. resultSet' = [resultSet EXCEPT ![arg[t]] =
                        [tid |-> t, statement |-> conn[Session(t)], isClosed |-> FALSE]]
    BY <1>1, Zenon DEF Prepares
  <2> QED
    BY <1>0, <2>1, <2>2, <2>3, Zenon DEF Store, StoreTypes
<1>2. CASE Finishes(t)
  <2>1. PICK q \in Opened(t), b \in BOOLEAN :
           resultSet' = [resultSet EXCEPT ![q].statement = Null, ![q].isClosed = b]
    BY <1>2, Zenon DEF Finishes
  <2>2. q \in ResultSets /\ resultSet \in [ResultSets -> [tid : Threads \cup {NoThread},
                                                          statement : Connections, isClosed : BOOLEAN]]
    BY Zenon DEF Opened, Store, StoreTypes
  <2>3. r # q
    <3>1. resultSet'[q].statement = Null
      BY <2>1, <2>2
    <3> QED
      BY <1>0, <3>1, Zenon
  <2> QED
    BY <1>0, <2>1, <2>2, <2>3
<1>3. CASE ~Prepares(t) /\ ~Finishes(t)
  BY <1>3, Zenon DEF Kind, Begins, Passes, Acquires, Ends, Reopens, Keeps, Leaves, Refuses, Same
<1> QED
  BY <1>1, <1>2, <1>3

(* A step of any kind keeps ReasonInv.                                      *)
LEMMA ReasonNext ==
    ASSUME Store, Store', Running, QuietInv, QuietInv', StepInv', ReasonInv, NEW t \in Threads,
           Kind(t), noted \subseteq noted'
    PROVE  ReasonInv'
<1> SUFFICES ASSUME noted' \cap ReasonNotes = {}, NEW r \in ResultSets, resultSet'[r].statement # Null
             PROVE  /\ ~resultSet'[r].isClosed
                    /\ isInStepQuery'[Session(resultSet[r].tid)']
                    /\ \A q \in ResultSets : resultSet'[q].statement # Null
                                             /\ resultSet'[q].tid = resultSet'[r].tid => q = r
  BY Zenon DEF ReasonInv
<1>0. /\ noted \cap ReasonNotes = {} /\ noted \cap QuietNotes = {} /\ noted' \cap QuietNotes = {}
      /\ ~Refuses(t) /\ ~Closes(t)
  BY Zenon DEF ReasonNotes, Refuses, Closes
<1>1. PICK u \in Threads : u = resultSet'[r].tid /\ r \in Opened(u)'
  <2>1. resultSet'[r].tid \in Threads
    BY Zenon DEF StepInv
  <2>2. \A x \in Threads : x = resultSet'[r].tid => r \in Opened(x)'
    BY Zenon DEF Opened
  <2> QED
    BY <2>1, <2>2, Zenon
<1>2. \A x, y \in Opened(t) : x = y
  BY <1>0, ReasonOpened, Zenon
<1>3. /\ \A x \in Threads : Opened(x) # {} => Session(x) \in Sessions /\ Session(x) # NoSession
      /\ Opened(t) # {} /\ Opened(t)' # {} => Session(t)' = Session(t)
  BY <1>0, OpenSession, Zenon
<1>4. Untouched(t)
  BY KindUntouched, Zenon
<1>5. SUFFICES ~resultSet'[r].isClosed /\ isInStepQuery'[Session(u)'] /\ \A q \in Opened(u)' : q = r
  BY <1>1, Zenon DEF Opened, Session
<1>6. CASE u # t
  <2>1. Opened(u)' = Opened(u) /\ r \in Opened(u)
    BY <1>1, <1>6, OpenedOthers, Zenon
  <2>2. ~resultSet[r].isClosed /\ isInStepQuery[Session(u)] /\ \A q \in Opened(u) : q = r
    BY <1>0, <1>1, <2>1, ReasonOpened, Zenon
  <2>3. ~resultSet'[r].isClosed
    BY <1>0, <1>1, <1>2, <2>1, <2>2, StaysOpen, Zenon
  <2>4. Session(u)' = Session(u) /\ Session(u) \in Sessions
    BY <1>1, <1>3, <1>4, <1>6, <2>1, Zenon DEF Untouched
  <2>5. isInStepQuery'[Session(u)] = isInStepQuery[Session(u)]
    BY <1>1, <1>4, <1>6, <2>4, Zenon DEF Untouched
  <2> QED
    BY <2>1, <2>2, <2>3, <2>4, <2>5, Zenon
<1>7. CASE u = t /\ Prepares(t)
  <2>1. arg[t] \in ResultSets /\ ~isInStepQuery[Session(t)]
    BY <1>7, Zenon DEF Prepares, Store, PrepareInv, Preparing
  <2>2. Opened(t) = {}
    <3>1. ASSUME NEW q \in Opened(t) PROVE FALSE
      BY <1>0, <2>1, <3>1, ReasonOpened, Zenon
    <3> QED
      BY <3>1, Zenon
  <2>3. \A q \in Opened(t)' : q = arg[t]
    <3>1. Opened(t)' = Opened(t) \/ Opened(t)' = Opened(t) \cup {arg[t]}
      BY <1>7, OpenedOwn
    <3> QED
      BY <2>2, <3>1, ZenonT(30)
  <2>4. r = arg[t]
    BY <1>1, <1>7, <2>3, ZenonT(30)
  <2>5. ~resultSet'[r].isClosed
    <3>1. resultSet' = [resultSet EXCEPT ![arg[t]] =
                          [tid |-> t, statement |-> conn[Session(t)], isClosed |-> FALSE]]
      BY <1>7, Zenon DEF Prepares
    <3> QED
      BY <2>1, <2>4, <3>1, SMTT(30) DEF Store, StoreTypes
  <2>6. Session(t) \in Sessions /\ Session(t)' = Session(t)
    <3>1. Session(t) # NoSession /\ pc[t] \in Busy /\ Turns(t, 0)
      BY <1>7, OwnFacts, Zenon DEF Store, Prepares, Busy
    <3>2. Own(t) = Session(t) /\ Session(t) \in Sessions /\ threadMap[t].useCount \in Nat
          /\ threadMap[t].useCount > 0
      BY <3>1, OwnFacts, ZenonT(30) DEF Store
    <3>3. threadMap'[t].useCount # 0
      BY <3>1, <3>2 DEF Turns, Plus
    <3> QED
      BY <3>1, <3>2, <3>3, Zenon DEF Turns
  <2>7. isInStepQuery'[Session(t)]
    <3>1. isInStepQuery' = [isInStepQuery EXCEPT ![Session(t)] = TRUE]
      BY <1>7, Zenon DEF Prepares
    <3> QED
      BY <2>6, <3>1, Zenon DEF Store, StoreTypes
  <2> QED
    BY <1>7, <2>3, <2>4, <2>5, <2>6, <2>7, Zenon
<1>8. CASE u = t /\ Finishes(t)
  <2>1. PICK q \in Opened(t) : Opened(t)' = Opened(t) \ {q}
    BY <1>8, OpenedOwn, Zenon
  <2>2. r \in Opened(t) /\ r # q
    BY <1>1, <1>8, <2>1, Zenon
  <2> QED
    BY <1>2, <2>2, Zenon
<1>9. CASE u = t /\ ~Prepares(t) /\ ~Finishes(t)
  <2>1. Opened(t)' = Opened(t) /\ r \in Opened(t)
    <3>1. Opened(t)' = Opened(t)
      BY <1>9, OpenedOwn, Zenon
    <3>2. r \in Opened(t)'
      BY <1>1, <1>9, Zenon
    <3> QED
      BY <3>1, <3>2, Zenon
  <2>2. ~resultSet[r].isClosed /\ isInStepQuery[Session(t)] /\ \A q \in Opened(t) : q = r
    BY <1>0, <2>1, ReasonOpened, Zenon
  <2>3. ~resultSet'[r].isClosed
    <3>1. r \in Opened(t) /\ r \in Opened(t)'
      BY <2>1, Zenon
    <3>2. resultSet'[r].isClosed = resultSet[r].isClosed
      BY <1>0, <1>2, <3>1, StaysOpen, Zenon
    <3> QED
      BY <2>2, <3>2, Zenon
  <2>4. Session(t)' = Session(t)
    BY <1>3, <2>1, Zenon
  <2>5. UNCHANGED isInStepQuery
    BY <1>0, <1>9, Zenon DEF Kind, Begins, Passes, Acquires, Ends, Reopens, Keeps, Leaves, Same
  <2> QED
    BY <1>9, <2>1, <2>2, <2>3, <2>4, <2>5, Zenon
<1> QED
  BY <1>6, <1>7, <1>8, <1>9, SMTT(30)

-----------------------------------------------------------------------------
(* What a step of each kind preserves of ReadInv, OpenedInv and CommitInv.     *)

(* The arithmetic of counted uses.                                             *)
LEMMA RestIsNone ==
    ASSUME NEW n \in Nat, NEW a \in {0, 1}, NEW b \in {0, 1}
    PROVE  /\ n - a - b = 0 <=> n = a + b
           /\ n - a - b >= 0 <=> n >= a + b
           /\ n = 0 /\ n - a - b >= 0 => n - a - b = 0
OBVIOUS

(* Taking away nothing.                                                     *)
LEMMA LessNone == 0 - 0 - 0 = 0 /\ \A n \in Nat : n - 0 - 0 = n
OBVIOUS

(* A count of uses is 0, 1 or more.                                         *)
LEMMA UseCases ==
    ASSUME NEW n \in Nat
    PROVE  /\ n = 0 \/ n = 1 \/ n > 1
           /\ n > 0 <=> n # 0
OBVIOUS

(* One use less than none or one is none.                                   *)
LEMMA PlusSmall ==
    /\ Plus(0, -1) = 0 /\ Plus(1, -1) = 0
    /\ \A n \in Nat : n > 0 => Plus(n, 0) >= 0 + 1
BY DEF Plus

(* A count that is not negative, and one more or less.                      *)
LEMMA RestMoves ==
    ASSUME NEW i \in Int, i >= 0
    PROVE  /\ i + 1 \in Int /\ i + 1 >= 0
           /\ i >= 1 \/ i = 0
           /\ i >= 1 => i # 0 /\ i - 1 \in Int /\ i - 1 >= 0
OBVIOUS

(* None is a count.                                                         *)
LEMMA NoneAtLeast == 0 \in Nat /\ 0 \in Int /\ 0 >= 0 /\ ~(0 > 0)
OBVIOUS

(* What ReadInv says of the session that t has or gets.                        *)
LEMMA ReadBefore ==
    ASSUME Store, Running, ReadInv, "inStepQuery" \notin noted, NEW t \in Threads, SessionLeft(t),
           NEW s, s = Own(t)
    PROVE  /\ isInStepQuery[s] => threadMap[t].useCount >= B(pc[t] \in Busy) + 1
           /\ Free(t, s) \in Int /\ Free(t, s) >= 0
           /\ Reads(s) => Free(t, s) = 0
           /\ Transacts(t) => /\ ~isInStepQuery[s]
                              /\ pc[t] = "execute" /\ ~damaged => conn[s].isWriteConnection
<1>0. /\ Session(t) # NoSession => s = Session(t)
      /\ pc[t] \in Busy => Session(t) # NoSession
      /\ s \in Sessions /\ \A u \in Threads : u # t => Session(u) # s
      /\ connectionUseCount[s] \in Nat
  BY OwnFacts, Zenon DEF Store, StoreTypes
<1>1. B(Used(t)) \in {0, 1} /\ B(isInStepQuery[s]) \in {0, 1}
  BY BValues, Zenon
<1>2. CASE Session(t) # NoSession
  <2>1. ReadThread(t) /\ s = Session(t)
    BY <1>0, <1>2, Zenon DEF ReadInv
  <2>2. /\ connectionUseCount[s] >= B(Used(t)) + B(isInStepQuery[s])
        /\ Reads(s) => connectionUseCount[s] = B(Used(t)) + B(isInStepQuery[s])
    BY <2>1, Zenon DEF ReadThread
  <2>3. Free(t, s) \in Int /\ Free(t, s) >= 0 /\ (Reads(s) => Free(t, s) = 0)
    BY <1>0, <1>1, <2>2, SMTT(30) DEF Free
  <2> QED
    BY <2>1, <2>3, Zenon DEF ReadThread
<1>3. CASE Session(t) = NoSession
  <2>1. \A u \in Threads : Session(u) # s
    BY <1>0, <1>3, NothingAssumption, Zenon
  <2>2. ~isInStepQuery[s] /\ ~Reads(s)
    BY <1>0, <2>1, Zenon DEF ReadInv
  <2>3. ~Used(t) /\ ~Transacts(t)
    BY <1>0, <1>3, Zenon DEF Used, Transacts, Busy
  <2>4. B(Used(t)) = 0 /\ B(isInStepQuery[s]) = 0
    BY <2>2, <2>3, BValues, Zenon
  <2>5. Free(t, s) \in Int /\ Free(t, s) >= 0
    BY <1>0, <2>4 DEF Free
  <2> QED
    BY <2>2, <2>3, <2>5, Zenon
<1> QED
  BY <1>2, <1>3, Zenon

(* A step that respects ReadInv is of one of the kinds, and leaves a        *)
(* transaction only from an idle thread.                                    *)
LEMMA ReadKinds ==
    ASSUME NEW t, ReadKind(t)
    PROVE  Kind(t) /\ ~(pc[t] = "execute" /\ Leaves(t))
BY Zenon DEF ReadKind, Ordinary, Kind, Leaves

(* A query of the session keeps its use of the session.                        *)
LEMMA ReadUses ==
    ASSUME Store, NEW t \in Threads, SessionLeft(t), NEW s, s = Own(t), ReadKind(t),
           "inStepQuery" \notin noted',
           isInStepQuery[s] => threadMap[t].useCount >= B(pc[t] \in Busy) + 1
    PROVE  isInStepQuery'[s] => threadMap'[t].useCount >= B(pc'[t] \in Busy) + 1
<1>0. /\ threadMap[t].useCount \in Nat /\ s \in Sessions
      /\ pc[t] \in Busy => threadMap[t].useCount > 0
  BY OwnFacts, Zenon DEF Store
<1>p. \A place : Moves(t, place) => pc'[t] = place
  BY Zenon DEF Moves, Store, CallInv
<1>d. \A d \in {-1, 0, 1} : Turns(t, d) => threadMap'[t].useCount = Plus(threadMap[t].useCount, d)
  BY Zenon DEF Turns
<1>b. /\ pc[t] \in Busy => B(pc[t] \in Busy) = 1
      /\ pc'[t] \in Busy => B(pc'[t] \in Busy) = 1
      /\ pc[t] \notin Busy => B(pc[t] \in Busy) = 0
      /\ pc'[t] \notin Busy => B(pc'[t] \in Busy) = 0
  BY BValues, Zenon
<1>q. isInStepQuery \in [Sessions -> BOOLEAN]
  BY Zenon DEF Store, StoreTypes
<1>1. ASSUME NEW d \in {-1, 0, 1}, Turns(t, d), isInStepQuery'[s] => isInStepQuery[s],
             d = -1 => pc[t] \in Busy /\ pc'[t] \notin Busy,
             d = 0 => (pc'[t] \in Busy => pc[t] \in Busy)
      PROVE  isInStepQuery'[s] => threadMap'[t].useCount >= B(pc'[t] \in Busy) + 1
  <2>1. threadMap'[t].useCount = Plus(threadMap[t].useCount, d)
    BY <1>1, <1>d, Zenon
  <2> QED
    BY <1>0, <1>1, <1>b, <2>1, SMTT(30) DEF Plus
<1>s. Same => isInStepQuery'[s] = isInStepQuery[s]
  BY Zenon DEF Same
<1>i. -1 \in {-1, 0, 1} /\ 0 \in {-1, 0, 1} /\ 1 \in {-1, 0, 1} /\ 1 # 0 /\ 1 # -1 /\ 0 # -1
  OBVIOUS
<1>2. CASE Begins(t)
  <2>1. Turns(t, 1) /\ Same
    BY <1>2, Zenon DEF Begins
  <2> QED
    BY <1>1, <1>s, <1>i, <2>1, Zenon
<1>3. CASE Passes(t)
  <2>1. Turns(t, 0) /\ Same /\ pc'[t] \notin Busy
    BY <1>3, <1>p, Zenon DEF Passes, Busy
  <2> QED
    BY <1>1, <1>s, <1>i, <2>1, Zenon
<1>4. CASE Acquires(t)
  <2>1. Turns(t, 0) /\ Same /\ pc[t] \in Busy
    BY <1>4, Zenon DEF Acquires, Busy
  <2> QED
    BY <1>1, <1>s, <1>i, <2>1, Zenon
<1>5. CASE Ends(t)
  <2>1. pc[t] \in Busy /\ Same /\ (Turns(t, 0) \/ (Turns(t, -1) /\ pc'[t] \notin Busy))
    BY <1>5, <1>p, Zenon DEF Ends, Busy
  <2> QED
    BY <1>1, <1>s, <1>i, <2>1, Zenon
<1>6. CASE Reopens(t)
  <2>1. Turns(t, -1) /\ Same /\ pc[t] \in Busy /\ pc'[t] \notin Busy
    BY <1>6, <1>p, Zenon DEF Reopens, Busy
  <2> QED
    BY <1>1, <1>s, <1>i, <2>1, Zenon
<1>7. CASE Keeps(t) \/ Closes(t)
  <2>1. Turns(t, 0) /\ isInStepQuery'[s] = isInStepQuery[s] /\ pc'[t] \notin Busy
    BY <1>7, <1>p, <1>s, Zenon DEF Keeps, Closes, Busy
  <2> QED
    BY <1>1, <1>i, <2>1, Zenon
<1>8. CASE Prepares(t)
  <2>1. Turns(t, 0) /\ pc[t] \in Busy /\ pc'[t] \notin Busy
    BY <1>8, <1>p, Zenon DEF Prepares, Busy
  <2>2. threadMap'[t].useCount = Plus(threadMap[t].useCount, 0)
    BY <1>d, <1>i, <2>1, Zenon
  <2>3. threadMap[t].useCount > 0 /\ B(pc'[t] \in Busy) = 0
    BY <1>0, <1>b, <2>1, Zenon
  <2>4. threadMap'[t].useCount >= 0 + 1
    BY <1>0, <2>2, <2>3, PlusSmall, Zenon
  <2> QED
    BY <2>3, <2>4, Zenon
<1>9. CASE Leaves(t)
  BY <1>9, <1>s, Zenon DEF Leaves
<1>10. CASE Finishes(t) \/ Refuses(t)
  BY <1>0, <1>10, <1>q, Zenon DEF Finishes, Refuses
<1> QED
  BY <1>2, <1>3, <1>4, <1>5, <1>6, <1>7, <1>8, <1>9, <1>10, Zenon DEF ReadKind, Ordinary

(* A read connection stays with the session only for the reasons it has.       *)
LEMMA ReadFree ==
    ASSUME Store, Store', Running, Running', NEW t \in Threads, SessionLeft(t), NEW s, s = Own(t),
           ReadKind(t), "inStepQuery" \notin noted',
           Free(t, s) \in Int, Free(t, s) >= 0, Reads(s) => Free(t, s) = 0
    PROVE  Free(t, s)' \in Int /\ Free(t, s)' >= 0 /\ (Reads(s)' => Free(t, s)' = 0)
<1>0. /\ s \in Sessions /\ connectionUseCount[s] \in Nat /\ connectionUseCount'[s] \in Nat
      /\ connectionUseCount'[s] > 0 <=> conn'[s] # Null
      /\ connectionUseCount[s] > 0 <=> conn[s] # Null
  BY OwnFacts, Zenon DEF Store, StoreTypes, ConnectedInv
<1>b. B(Used(t)) \in {0, 1} /\ B(isInStepQuery[s]) \in {0, 1}
  BY BValues, Zenon
<1>1. connectionUseCount[s] = 0 => Free(t, s) = 0
  BY <1>0, <1>b, RestIsNone, Zenon DEF Free
<1>2. conn'[s] = conn[s] \/ conn'[s] = Null \/ connectionUseCount[s] = 0
  <2>1. PICK d \in {-1, 0, 1} : Linked(t, d)
    BY ReadKinds, KindMoves, Zenon
  <2>2. /\ connectionUseCount'[s] = Plus(connectionUseCount[s], d)
        /\ d = 0 \/ (d = 1 /\ conn[s] # Null) \/ connectionUseCount[s] > 1 => conn'[s] = conn[s]
    BY <1>0, <2>1, Zenon DEF Linked
  <2>3. d = -1 \/ d = 0 \/ d = 1
    BY <2>1, Zenon
  <2>4. CASE connectionUseCount[s] = 1 /\ d = -1
    <3>1. connectionUseCount'[s] = 0
      BY <2>2, <2>4, PlusSmall, Zenon
    <3> QED
      BY <1>0, <3>1, NoneAtLeast, Zenon
  <2>5. CASE d = 1 /\ conn[s] = Null
    BY <1>0, <2>5, UseCases, Zenon
  <2> QED
    BY <1>0, <2>2, <2>3, <2>4, <2>5, UseCases, Zenon
<1>3. Reads(s)' => Free(t, s) = 0
  BY <1>1, <1>2, Zenon DEF Reads
<1>4. CASE Ordinary(t)
  <2>1. Free(t, s)' = Free(t, s)
    BY <1>4, FreeNext, Zenon DEF Ordinary, Kind
  <2> QED
    BY <1>3, <2>1, Zenon
<1>5. CASE Keeps(t) /\ conn[s].isWriteConnection
  <2>1. Linked(t, 0)
    BY <1>5, Zenon DEF Keeps
  <2>2. conn'[s] = conn[s]
    BY <1>0, <2>1, Zenon DEF Linked
  <2>3. ~Reads(s)'
    BY <1>5, <2>2, Zenon DEF Reads
  <2>4. Free(t, s)' = Free(t, s) + 1
    BY <1>5, FreeNext, Zenon DEF Kind
  <2>5. Free(t, s)' \in Int /\ Free(t, s)' >= 0
    BY <2>4, RestMoves, Zenon
  <2> QED
    BY <2>3, <2>5, Zenon
<1>6. CASE Leaves(t)
  <2>1. CASE Linked(t, 0)
    <3>1. Free(t, s)' = Free(t, s)
      BY <1>6, <2>1, FreeNext, Zenon DEF Kind
    <3> QED
      BY <1>3, <3>1, Zenon
  <2>2. CASE Linked(t, -1) /\ Free(t, s) >= 1
    <3>1. Free(t, s)' = Free(t, s) - 1
      BY <1>6, <2>2, FreeNext, Zenon DEF Kind
    <3>2. Free(t, s) # 0 /\ Free(t, s)' \in Int /\ Free(t, s)' >= 0
      BY <2>2, <3>1, RestMoves, Zenon
    <3> QED
      BY <1>3, <3>2, Zenon
  <2>3. CASE Linked(t, -1) /\ Free(t, s) = 0
    <3>1. pc[t] = "idle" /\ Same /\ ~isInStepQuery[s]
      BY <1>6, Zenon DEF Leaves
    <3>2. \A place : Moves(t, place) => pc'[t] = place
      BY Zenon DEF Moves, Store, CallInv
    <3>3. ~Used(t) /\ ~Used(t)' /\ ~isInStepQuery'[s]
      BY <1>6, <3>1, <3>2, Zenon DEF Used, Leaves, Same
    <3>4. /\ B(Used(t)) = 0 /\ B(Used(t)') = 0
          /\ B(isInStepQuery[s]) = 0 /\ B(isInStepQuery'[s]) = 0
      BY <3>1, <3>3, BValues, Zenon
    <3>5. connectionUseCount[s] = 0
      <4>1. connectionUseCount[s] - 0 - 0 = 0
        BY <2>3, <3>4, Zenon DEF Free
      <4> QED
        BY <1>0, <4>1, LessNone, Zenon
    <3>6. connectionUseCount'[s] = Plus(connectionUseCount[s], -1)
      BY <1>0, <2>3, Zenon DEF Linked
    <3>7. connectionUseCount'[s] = 0
      BY <3>5, <3>6, PlusSmall, Zenon
    <3>8. Free(t, s)' = 0 - 0 - 0
      BY <3>4, <3>7, Zenon DEF Free
    <3>9. Free(t, s)' = 0
      BY <3>8, LessNone, Zenon
    <3> QED
      BY <3>9, NoneAtLeast, Zenon
  <2>4. Linked(t, 0) \/ Linked(t, -1)
    BY <1>6, Zenon DEF Leaves
  <2>5. Free(t, s) >= 1 \/ Free(t, s) = 0
    BY RestMoves, Zenon
  <2> QED
    BY <2>1, <2>2, <2>3, <2>4, <2>5, Zenon
<1> QED
  BY <1>4, <1>5, <1>6, Zenon DEF ReadKind

(* What ReadInv says of another thread stays true.                          *)
LEMMA ReadOther ==
    ASSUME Store, Running, NEW t \in Threads, Kind(t), damaged => damaged',
           NEW u \in Threads, u # t, Session(u) # NoSession, ReadThread(u)
    PROVE  ReadThread(u)' /\ Session(u)' = Session(u)
<1>1. Untouched(t)
  BY KindUntouched, Zenon
<1>2. /\ threadMap'[u] = threadMap[u] /\ Session(u)' = Session(u)
      /\ pc'[u] = pc[u] /\ op'[u] = op[u] /\ Session(u) \in Sessions
  BY <1>1, Zenon DEF Untouched
<1>3. /\ conn'[Session(u)] = conn[Session(u)]
      /\ connectionUseCount'[Session(u)] = connectionUseCount[Session(u)]
      /\ isInStepQuery'[Session(u)] = isInStepQuery[Session(u)]
  BY <1>1, <1>2, Zenon DEF Untouched
<1>4. (Used(u)' <=> Used(u)) /\ (Transacts(u)' <=> Transacts(u))
  BY <1>2, Zenon DEF Used, Transacts
<1>5. B(Used(u)') = B(Used(u)) /\ B(pc'[u] \in Busy) = B(pc[u] \in Busy)
  BY <1>2, <1>4, Zenon DEF B
<1>6. isInStepQuery'[Session(u)'] => threadMap'[u].useCount >= B(pc'[u] \in Busy) + 1
  BY <1>2, <1>3, <1>5, Zenon DEF ReadThread
<1>7. /\ connectionUseCount'[Session(u)'] >= B(Used(u)') + B(isInStepQuery'[Session(u)'])
      /\ conn'[Session(u)'] # Null /\ ~conn'[Session(u)'].isWriteConnection
         => connectionUseCount'[Session(u)'] = B(Used(u)') + B(isInStepQuery'[Session(u)'])
  BY <1>2, <1>3, <1>5, Zenon DEF ReadThread, Reads
<1>8. Transacts(u)' =>
         /\ ~isInStepQuery'[Session(u)']
         /\ pc'[u] = "execute" /\ ~damaged' => conn'[Session(u)'].isWriteConnection
  BY <1>2, <1>3, <1>4, Zenon DEF ReadThread
<1> QED
  BY <1>2, <1>6, <1>7, <1>8, Zenon DEF ReadThread, Reads

(* What it says of the thread itself is true again, for the session that it *)
(* had or got.                                                              *)
LEMMA ReadOwn ==
    ASSUME Store, Store', Running, ReadInv, "inStepQuery" \notin noted, "inStepQuery" \notin noted',
           NEW t \in Threads, ReadKind(t), Granted(t), damaged => damaged', SessionLeft(t),
           NEW s, s = Own(t)
    PROVE  /\ isInStepQuery'[s] => threadMap'[t].useCount >= B(pc'[t] \in Busy) + 1
           /\ Running' => /\ connectionUseCount'[s] >= B(Used(t)') + B(isInStepQuery'[s])
                          /\ Reads(s)' => connectionUseCount'[s]
                                             = B(Used(t)') + B(isInStepQuery'[s])
           /\ Transacts(t)' => /\ ~isInStepQuery'[s]
                               /\ pc'[t] = "execute" /\ ~damaged' => conn'[s].isWriteConnection
<1>0. /\ isInStepQuery[s] => threadMap[t].useCount >= B(pc[t] \in Busy) + 1
      /\ Free(t, s) \in Int /\ Free(t, s) >= 0
      /\ Reads(s) => Free(t, s) = 0
      /\ Transacts(t) => ~isInStepQuery[s]
  BY ReadBefore, Zenon
<1>1. isInStepQuery'[s] => threadMap'[t].useCount >= B(pc'[t] \in Busy) + 1
  BY <1>0, ReadUses, Zenon
<1>2. /\ s \in Sessions /\ connectionUseCount[s] \in Nat /\ connectionUseCount'[s] \in Nat
      /\ connectionUseCount[s] > 0 <=> conn[s] # Null
  BY OwnFacts, Zenon DEF Store, StoreTypes, ConnectedInv
<1>3. ASSUME Running'
      PROVE  /\ connectionUseCount'[s] >= B(Used(t)') + B(isInStepQuery'[s])
             /\ Reads(s)' => connectionUseCount'[s] = B(Used(t)') + B(isInStepQuery'[s])
  <2>1. Free(t, s)' \in Int /\ Free(t, s)' >= 0 /\ (Reads(s)' => Free(t, s)' = 0)
    BY <1>0, <1>3, ReadFree, Zenon
  <2>2. B(Used(t)') \in {0, 1} /\ B(isInStepQuery'[s]) \in {0, 1}
    BY BValues, Zenon
  <2>3. Free(t, s)' = connectionUseCount'[s] - B(Used(t)') - B(isInStepQuery'[s])
    BY Zenon DEF Free
  <2>4. ASSUME NEW n \in Nat, NEW a \in {0, 1}, NEW b \in {0, 1}, NEW f, f = n - a - b,
               f >= 0, Reads(s)' => f = 0
        PROVE  n >= a + b /\ (Reads(s)' => n = a + b)
    BY <2>4, RestIsNone, Zenon
  <2> QED
    BY <1>2, <2>1, <2>2, <2>3, <2>4, Zenon
<1>4. ASSUME Transacts(t)'
      PROVE  /\ ~isInStepQuery'[s]
             /\ pc'[t] = "execute" /\ ~damaged' => conn'[s].isWriteConnection
  <2>1. CASE /\ pc[t] = "idle" /\ pc'[t] = "acquire" /\ Same
             /\ isInStepQuery[s] => "inStepQuery" \in noted'
    BY <2>1, Zenon DEF Same
  <2>2. CASE /\ Acquires(t) /\ Transacts(t) /\ pc[t] = "acquire"
             /\ conn[s] = Null /\ ~damaged => conn'[s].isWriteConnection
    <3>1. Same /\ Linked(t, 1) /\ ~Used(t) /\ ~isInStepQuery[s]
      BY <1>0, <2>2, Zenon DEF Acquires, Used
    <3>2. B(Used(t)) = 0 /\ B(isInStepQuery[s]) = 0
      BY <3>1, BValues, Zenon
    <3>3. Free(t, s) = connectionUseCount[s]
      <4>1. Free(t, s) = connectionUseCount[s] - 0 - 0
        BY <3>2, Zenon DEF Free
      <4> QED
        BY <1>2, <4>1, LessNone, Zenon
    <3>4. conn[s] # Null => connectionUseCount[s] # 0
      BY <1>2
    <3>5. conn[s] # Null => conn[s].isWriteConnection
      BY <1>0, <3>3, <3>4, Zenon DEF Reads
    <3>6. conn[s] # Null => conn'[s] = conn[s]
      BY <1>2, <3>1, Zenon DEF Linked
    <3> QED
      BY <2>2, <3>1, <3>5, <3>6, Zenon DEF Same
  <2> QED
    BY <1>4, <2>1, <2>2, Zenon DEF Granted
<1> QED
  BY <1>1, <1>3, <1>4, Zenon

(* A step that respects ReadInv keeps it.                                   *)
LEMMA ReadNext ==
    ASSUME Store, Store', ReadInv, NEW t \in Threads, ReadKind(t), Granted(t), Steps(t),
           damaged => damaged'
    PROVE  ReadInv'
<1> SUFFICES ASSUME "inStepQuery" \notin noted'
             PROVE  /\ \A u \in Threads : Session(u)' # NoSession => ReadThread(u)'
                    /\ \A x \in Sessions : (\A u \in Threads : Session(u)' # x)
                          => ~isInStepQuery'[x] /\ (Running' => ~Reads(x)')
  BY Zenon DEF ReadInv
<1>0. "inStepQuery" \notin noted /\ Running /\ Kind(t)
  BY ReadKinds, Zenon DEF Steps
<1>1. /\ \A u \in Threads : Session(u) # NoSession => ReadThread(u)
      /\ \A x \in Sessions : (\A u \in Threads : Session(u) # x)
            => ~isInStepQuery[x] /\ (Running => ~Reads(x))
  BY <1>0, Zenon DEF ReadInv
<1>2. Untouched(t)
  BY <1>0, KindUntouched, Zenon
<1>3. PICK s : s = Own(t)
  OBVIOUS
<1>4. /\ threadMap'[t].useCount \in Nat
      /\ Session(t)' = NoSession <=> threadMap'[t].useCount = 0
      /\ Session(t)' # NoSession => Session(t)' = s /\ SessionLeft(t)
  BY <1>0, <1>3, OwnAfter, Zenon
<1>5. SessionLeft(t) =>
         /\ isInStepQuery'[s] => threadMap'[t].useCount >= B(pc'[t] \in Busy) + 1
         /\ Running' => /\ connectionUseCount'[s] >= B(Used(t)') + B(isInStepQuery'[s])
                        /\ Reads(s)' => connectionUseCount'[s]
                                           = B(Used(t)') + B(isInStepQuery'[s])
         /\ Transacts(t)' => /\ ~isInStepQuery'[s]
                             /\ pc'[t] = "execute" /\ ~damaged' => conn'[s].isWriteConnection
  BY <1>0, <1>3, ReadOwn, Zenon
<1>6. ASSUME Session(t)' # NoSession PROVE ReadThread(t)'
  BY <1>4, <1>5, <1>6, Zenon DEF ReadThread, Reads
<1>7. ASSUME NEW u \in Threads, Session(u)' # NoSession PROVE ReadThread(u)'
  <2>1. CASE u = t
    BY <1>6, <1>7, <2>1, Zenon
  <2>2. CASE u # t
    <3>1. Session(u) # NoSession
      BY <1>2, <1>7, <2>2, Zenon DEF Untouched
    <3> QED
      BY <1>0, <1>1, <2>2, <3>1, ReadOther, Zenon
  <2> QED
    BY <2>1, <2>2, Zenon
<1>8. ASSUME NEW x \in Sessions, \A u \in Threads : Session(u)' # x
      PROVE  ~isInStepQuery'[x] /\ (Running' => ~Reads(x)')
  <2>0. /\ Session(t) # NoSession => s = Session(t) /\ SessionLeft(t)
        /\ x # NoSession
    BY <1>3, OwnFacts, NothingAssumption, Zenon DEF Store
  <2>1. CASE x = s /\ SessionLeft(t)
    <3>1. Session(t)' = NoSession /\ threadMap'[t].useCount = 0
      BY <1>4, <1>8, <2>1, Zenon
    <3>2. B(pc'[t] \in Busy) \in {0, 1}
      BY BValues, Zenon
    <3>3. ~isInStepQuery'[s]
      <4>1. \A b \in {0, 1} : ~(0 >= b + 1)
        OBVIOUS
      <4>2. isInStepQuery'[s] => threadMap'[t].useCount >= B(pc'[t] \in Busy) + 1
        BY <1>5, <2>1, Zenon
      <4>3. isInStepQuery'[s] => 0 >= B(pc'[t] \in Busy) + 1
        BY <3>1, <4>2, Zenon
      <4> QED
        BY <3>2, <4>1, <4>3, Zenon
    <3>4. ~Used(t)'
      BY <3>1, Zenon DEF Used, Store, Owned, Busy
    <3>5. B(Used(t)') = 0 /\ B(isInStepQuery'[s]) = 0
      BY <3>3, <3>4, BValues, Zenon
    <3>6. Running' /\ Reads(s)' => connectionUseCount'[s] = 0
      <4>1. Running' /\ Reads(s)' => connectionUseCount'[s] = B(Used(t)') + B(isInStepQuery'[s])
        BY <1>5, <2>1, Zenon
      <4>2. Running' /\ Reads(s)' => connectionUseCount'[s] = 0 + 0
        BY <3>5, <4>1, Zenon
      <4> QED
        BY <4>2
    <3>7. Running' /\ Reads(s)' => connectionUseCount'[s] > 0
      BY <1>8, <2>1, Zenon DEF Store, ConnectedInv, Reads
    <3>8. ~(0 > 0)
      OBVIOUS
    <3> QED
      BY <2>1, <3>3, <3>6, <3>7, <3>8, Zenon
  <2>2. CASE ~(x = s /\ SessionLeft(t))
    <3>1. \A u \in Threads : Session(u) # x
      BY <1>2, <1>8, <2>0, <2>2, Zenon DEF Untouched
    <3>2. isInStepQuery'[x] = isInStepQuery[x] /\ conn'[x] = conn[x]
      <4>1. CASE x # s
        BY <1>2, <1>3, <4>1, Zenon DEF Untouched
      <4>2. CASE x = s /\ ~SessionLeft(t)
        <5>1. Linked(t, 0) /\ UNCHANGED isInStepQuery
          BY <1>0, <4>2, KindMoves, Zenon
        <5> QED
          BY <1>3, <4>2, <5>1, Zenon DEF Linked
      <4> QED
        BY <2>2, <4>1, <4>2, Zenon
    <3> QED
      BY <1>0, <1>1, <3>1, <3>2, Zenon DEF Reads
  <2> QED
    BY <2>1, <2>2, Zenon
<1> QED
  BY <1>7, <1>8, Zenon
(* The write connection is in a transaction only if it was, or a step put it   *)
(* there.                                                                      *)
LEMMA WriterNext ==
    ASSUME OpenedInv, PoolTypeOK, damaged => damaged',
           InOrder' => \/ InOrder /\ writeConnection' = writeConnection
                       \/ writeConnection'.id > opened,
           inTransaction' \subseteq inTransaction, WriterOpen'
    PROVE  WriterOpen /\ writeConnection' = writeConnection
<1>1. InOrder' /\ writeConnection' \in inTransaction /\ ~damaged
  BY Zenon DEF WriterOpen, InOrder
<1>2. writeConnection'.id \in 0..opened /\ opened \in Nat
  BY <1>1, Zenon DEF OpenedInv, PoolTypeOK
<1>3. ~(writeConnection'.id > opened)
  BY <1>2
<1> QED
  BY <1>1, <1>3, Zenon DEF WriterOpen

(* Only connections of the pool enter transactions, and numbers grow, so    *)
(* OpenedInv is kept.                                                       *)
LEMMA OpenedNext ==
    ASSUME OpenedInv, PoolTypeOK, PoolTypeOK', WriterHeld, damaged => damaged', opened' >= opened,
           inTransaction' \subseteq inTransaction \cup {conn[s] : s \in Sessions}
    PROVE  OpenedInv'
<1> SUFFICES ASSUME ~damaged', NEW c \in inTransaction' PROVE c.id \in 0..opened'
  BY Zenon DEF OpenedInv
<1>0. ~damaged /\ opened \in Nat /\ opened' \in Nat
  BY Zenon DEF PoolTypeOK
<1>1. c.id \in 0..opened
  <2>1. CASE c \in inTransaction
    BY <1>0, <2>1, Zenon DEF OpenedInv
  <2>2. ASSUME NEW s \in Sessions, c = conn[s] PROVE c.id \in 0..opened
    BY <1>0, <2>2 DEF WriterHeld
  <2> QED
    BY <2>1, <2>2, Zenon
<1> QED
  BY <1>0, <1>1

(* The connection that an ending transaction call uses is the write connection. *)
LEMMA EndedWriter ==
    ASSUME Store, WriterHeld, ReadInv, OpenedInv, Running, damaged => damaged',
           InOrder' => \/ InOrder /\ writeConnection' = writeConnection
                       \/ writeConnection'.id > opened,
           "inStepQuery" \notin noted', noted \subseteq noted', NEW t \in Threads, SessionLeft(t),
           \/ pc[t] = "execute" /\ op[t] \in TransactionCalls
           \/ /\ pc[t] = "idle" /\ conn[Own(t)] # Null
              /\ isInStepQuery[Own(t)] => "inStepQuery" \in noted',
           inTransaction' = inTransaction \ {conn[Own(t)]}
    PROVE  ~WriterOpen'
<1> SUFFICES ASSUME WriterOpen' PROVE FALSE
  OBVIOUS
<1>1. WriterOpen /\ writeConnection' = writeConnection
  <2>1. inTransaction' \subseteq inTransaction
    BY Zenon
  <2> QED
    BY <2>1, WriterNext, Zenon DEF Store
<1>2. PICK s : s = Own(t)
  OBVIOUS
<1>3. /\ s \in Sessions /\ connectionUseCount[s] \in Nat
      /\ connectionUseCount[s] > 0 <=> conn[s] # Null
  BY <1>2, OwnFacts, Zenon DEF Store, StoreTypes, ConnectedInv
<1>4. "inStepQuery" \notin noted /\ ~damaged /\ writeConnection # Null
  BY <1>1, Zenon DEF WriterOpen, InOrder
<1>5. conn[s].isWriteConnection
  <2>1. CASE pc[t] = "execute" /\ op[t] \in TransactionCalls
    BY <1>2, <1>4, <2>1, ReadBefore, Zenon DEF Transacts
  <2>2. CASE pc[t] = "idle" /\ conn[s] # Null /\ ~isInStepQuery[s]
    <3>1. ~Used(t)
      BY <2>2, Zenon DEF Used
    <3>2. B(Used(t)) = 0 /\ B(isInStepQuery[s]) = 0
      BY <2>2, <3>1, BValues, Zenon
    <3>3. Reads(s) => Free(t, s) = 0
      BY <1>2, <1>4, ReadBefore, Zenon
    <3>4. Free(t, s) # 0
      <4>1. Free(t, s) = connectionUseCount[s] - 0 - 0
        BY <3>2, Zenon DEF Free
      <4>2. Free(t, s) = connectionUseCount[s] /\ connectionUseCount[s] > 0
        BY <1>3, <2>2, <4>1, LessNone, Zenon
      <4> QED
        BY <1>3, <4>2, UseCases, Zenon
    <3> QED
      BY <2>2, <3>3, <3>4, Zenon DEF Reads
  <2> QED
    BY <1>2, <2>1, <2>2, Zenon
<1>6. conn[s] = writeConnection
  BY <1>3, <1>4, <1>5 DEF WriterHeld
<1> QED
  BY <1>1, <1>2, <1>6, Zenon DEF WriterOpen

(* What CommitInv says of another thread stays true when a thread with all  *)
(* the transactions steps ...                                               *)
LEMMA CommitAlone ==
    ASSUME Store, NEW t \in Threads, Kind(t), Alone(t), noted' \cap CommitNotes = {},
           \A u \in Threads : CommitThread(u), NEW u \in Threads, u # t
    PROVE  CommitThread(u)'
<1>1. "overlap" \notin noted'
  BY Zenon DEF CommitNotes
<1>2. owner \in {NoThread, t}
  BY <1>1, Zenon DEF Alone, CommitThread
<1>3. owner # u
  BY <1>2, NothingAssumption, Zenon
<1>4. ~Transacting(u)
  BY <1>3, Zenon DEF CommitThread
<1>5. pc'[u] = pc[u] /\ op'[u] = op[u]
  BY KindUntouched, Zenon DEF Untouched
<1>6. ~Transacting(u)'
  BY <1>4, <1>5, Zenon DEF Transacting
<1> QED
  BY <1>6, Zenon DEF CommitThread, Transacting, TransactionCalls

(* ... and when the step is unrelated to transactions.                      *)
LEMMA CommitUnrelated ==
    ASSUME Store, NEW t \in Threads, Kind(t), Unrelated(t), WriterOpen' => WriterOpen,
           NEW u \in Threads, CommitThread(u)
    PROVE  CommitThread(u)'
<1>1. /\ owner' = owner /\ Len(transactionStack') = Len(transactionStack)
      /\ Transacting(t)' => pc'[t] # "pop" /\ pc[t] \in Busy /\ op'[t] = op[t]
  BY Zenon DEF Unrelated, Plain, StackKept
<1>2. CASE u # t
  <2>1. pc'[u] = pc[u] /\ op'[u] = op[u]
    BY <1>2, KindUntouched, Zenon DEF Untouched
  <2>2. Transacting(u)' <=> Transacting(u)
    BY <2>1, Zenon DEF Transacting
  <2> QED
    BY <1>1, <2>1, <2>2, Zenon DEF CommitThread
<1>3. CASE u = t
  <2>1. Transacting(t)' => Transacting(t)
    BY <1>1, Zenon DEF Transacting
  <2>2. pc'[t] \in Busy /\ op'[t] = "Commit" => Transacting(t)'
    BY Zenon DEF Transacting, TransactionCalls
  <2>3. pc'[t] = "pop" => Transacting(t)'
    BY Zenon DEF Transacting
  <2> QED
    BY <1>1, <1>3, <2>1, <2>2, <2>3, Zenon DEF CommitThread
<1> QED
  BY <1>2, <1>3, Zenon

(* A thread in no transaction call has nothing to respect.                  *)
LEMMA CommitIdle ==
    ASSUME NEW t, ~Transacting(t)'
    PROVE  CommitThread(t)'
BY Zenon DEF CommitThread, Transacting, TransactionCalls

(* A step with one of the outcomes keeps CommitInv.                         *)
LEMMA CommitNext ==
    ASSUME Store, Store', WriterHeld, ReadInv, CommitInv, OpenedInv, NEW t \in Threads, Kind(t), Steps(t),
           Outcome(t), damaged => damaged',
           InOrder' => \/ InOrder /\ writeConnection' = writeConnection
                       \/ writeConnection'.id > opened
    PROVE  CommitInv'
<1> DEFINE L == Len(transactionStack)
           K == Len(transactionStack')
<1> SUFFICES ASSUME noted' \cap CommitNotes = {}
             PROVE  /\ \A u \in Threads : CommitThread(u)'
                    /\ \A i \in 1..K : transactionStack'[i].id = i - 1
                    /\ depth' >= K
                    /\ WriterOpen' => depth' >= 1
  BY Zenon DEF CommitInv
<1>0. /\ noted \cap CommitNotes = {} /\ noted \subseteq noted' /\ Running
      /\ "inStepQuery" \notin noted' /\ "rollBack" \notin noted'
  BY Zenon DEF Steps, CommitNotes
<1>1. /\ \A u \in Threads : CommitThread(u)
      /\ \A i \in 1..L : transactionStack[i].id = i - 1
      /\ depth >= L
      /\ WriterOpen => depth >= 1
  BY <1>0, Zenon DEF CommitInv
<1>2. L \in Nat /\ K \in Nat /\ depth \in Nat /\ depth' \in Nat
  <2>1. /\ transactionStack \in Seq(Transactions) /\ transactionStack' \in Seq(Transactions)
        /\ depth \in Nat /\ depth' \in Nat
    BY Zenon DEF Store, StoreTypes, CallTypes
  <2> QED
    BY <2>1
<1> HIDE DEF L, K
<1>w. UNCHANGED inTransaction /\ WriterOpen' => WriterOpen
  BY WriterNext, Zenon DEF Store
<1>e. ASSUME SessionLeft(t), inTransaction' = inTransaction \ {conn[Own(t)]},
             \/ pc[t] = "execute" /\ op[t] \in TransactionCalls
             \/ /\ pc[t] = "idle" /\ conn[Own(t)] # Null
                /\ isInStepQuery[Own(t)] => "inStepQuery" \in noted'
      PROVE  ~WriterOpen'
  BY <1>0, <1>e, EndedWriter, Zenon
<1>s. ASSUME NEW n, Shrinks(n)
      PROVE  n \in 0..L /\ K = n /\ \A i \in 1..K : transactionStack'[i].id = i - 1
  <2>1. n \in 0..L /\ K = n /\ \A i \in 1..n : transactionStack'[i].id = transactionStack[i].id
    BY <1>s, Zenon DEF Shrinks, L, K
  <2> QED
    BY <1>1, <1>2, <2>1
<1>y. StackStays => K = L /\ depth' = depth /\ \A i \in 1..K : transactionStack'[i].id = i - 1
  BY <1>s, Zenon DEF StackStays, L
<1>3. ASSUME Unrelated(t)
      PROVE  /\ \A u \in Threads : CommitThread(u)'
             /\ \A i \in 1..K : transactionStack'[i].id = i - 1
             /\ depth' >= K
             /\ WriterOpen' => depth' >= 1
  <2>1. StackStays /\ UNCHANGED inTransaction
    BY <1>3, Zenon DEF Unrelated
  <2>2. WriterOpen' => WriterOpen
    BY <1>w, <2>1, Zenon
  <2>3. \A u \in Threads : CommitThread(u)'
    BY <1>1, <1>3, <2>2, CommitUnrelated, Zenon
  <2> QED
    BY <1>1, <1>y, <2>1, <2>2, <2>3, Zenon
<1>4. ASSUME Alone(t), Turned(t),
             Requested(t) \/ Committed(t) \/ PoppedAfter(t) \/ Pushed(t) \/ Ended(t)
      PROVE  /\ CommitThread(t)'
             /\ \A i \in 1..K : transactionStack'[i].id = i - 1
             /\ depth' >= K
             /\ WriterOpen' => depth' >= 1
  <2>0. Transacting(t)' => owner' = t
    BY <1>4, Zenon DEF Turned
  <2>1. CASE Requested(t)
    <3>1. K = L /\ depth' = depth /\ \A i \in 1..K : transactionStack'[i].id = i - 1
      BY <1>y, <2>1, Zenon DEF Requested
    <3>2. WriterOpen' => WriterOpen
      BY <1>w, <2>1, Zenon DEF Requested
    <3>3. transactionStack # <<>> => L >= 1 /\ Top.id = L - 1
      <4>1. transactionStack \in Seq(Transactions)
        BY Zenon DEF Store, StoreTypes, CallTypes
      <4>2. transactionStack # <<>> => L >= 1
        BY <4>1 DEF L
      <4>3. L >= 1 => L \in 1..L
        BY <1>2
      <4> QED
        BY <1>1, <4>2, <4>3, Zenon DEF Top, L
    <3>4. transactionStack # <<>> => /\ Top.id = 0 => K = 1
                                     /\ Top.id # 0 => K >= 1 /\ K # 1
      BY <1>2, <3>1, <3>3
    <3>5. Transacting(t)' => /\ op'[t] # "RollBack"
                             /\ pc'[t] \in Busy /\ op'[t] = "Commit" => K = 1
                             /\ pc'[t] = "pop" => K >= 1 /\ K # 1
      BY <1>0, <2>1, <3>4, Zenon DEF Requested
    <3>6. CommitThread(t)'
      BY <2>0, <3>5, Zenon DEF CommitThread, Transacting, TransactionCalls, K
    <3> QED
      BY <1>1, <3>1, <3>2, <3>6, Zenon
  <2>2. CASE Committed(t)
    <3>1. K = L /\ depth' = depth /\ \A i \in 1..K : transactionStack'[i].id = i - 1
      BY <1>y, <2>2, Zenon DEF Committed
    <3>2. /\ pc[t] \in Busy /\ op[t] = "Commit" /\ op[t] \in TransactionCalls /\ pc[t] = "execute"
          /\ pc'[t] = "pop" /\ op'[t] = "Commit" /\ inTransaction' = inTransaction \ {conn[Own(t)]}
      BY <2>2, Zenon DEF Committed, Busy, TransactionCalls
    <3>3. SessionLeft(t)
      BY <3>2, OwnFacts, Zenon DEF Store
    <3>4. ~WriterOpen'
      BY <1>e, <3>2, <3>3, Zenon
    <3>5. L = 1
      BY <1>1, <3>2, Zenon DEF CommitThread, L
    <3>6. K >= 1
      BY <3>1, <3>5
    <3>7. pc'[t] \notin Busy
      BY <3>2, Zenon DEF Busy
    <3>8. CommitThread(t)'
      BY <2>0, <3>2, <3>4, <3>6, <3>7, Zenon DEF CommitThread, K
    <3> QED
      BY <1>1, <3>1, <3>4, <3>8, Zenon
  <2>3. CASE PoppedAfter(t)
    <3>1. L >= 1 /\ (L = 1 => ~WriterOpen)
      BY <1>1, <2>3, Zenon DEF PoppedAfter, CommitThread, L
    <3>2. transactionStack # <<>>
      BY <3>1 DEF L
    <3>3. Shrinks(L - 1) /\ depth' = Plus(depth, -1) /\ ~Transacting(t)' /\ UNCHANGED inTransaction
      BY <2>3, <3>2, Zenon DEF PoppedAfter, L
    <3>4. K = L - 1 /\ \A i \in 1..K : transactionStack'[i].id = i - 1
      BY <1>s, <3>3, Zenon
    <3>5. WriterOpen' => WriterOpen
      BY <1>w, <3>3, Zenon
    <3>6. depth' >= K /\ (WriterOpen' => depth' >= 1)
      BY <1>1, <1>2, <3>1, <3>3, <3>4, <3>5, SMTT(30) DEF Plus
    <3> QED
      BY <3>3, <3>4, <3>6, CommitIdle, Zenon
  <2>4. CASE Pushed(t)
    <3>1. /\ ~Transacting(t)' /\ depth' = depth + 1 /\ K = L + 1
          /\ \A i \in 1..L : transactionStack'[i].id = transactionStack[i].id
          /\ transactionStack'[L + 1].id = L
      BY <2>4, Zenon DEF Pushed, K, L
    <3>2. \A i \in 1..K : transactionStack'[i].id = i - 1
      BY <1>1, <1>2, <3>1, SMTT(30)
    <3>3. depth' >= K /\ depth' >= 1
      BY <1>1, <1>2, <3>1
    <3> QED
      BY <3>1, <3>2, <3>3, CommitIdle, Zenon
  <2>5. CASE Ended(t)
    <3>1. /\ pc[t] = "idle" /\ pc'[t] # "pop"
          /\ Transacting(t)' => op'[t] = "GiveConnectionTemporarily"
          /\ isInStepQuery[Own(t)] => "inStepQuery" \in noted'
      BY <2>5, Zenon DEF Ended
    <3>2. CommitThread(t)'
      BY <2>0, <3>1, Zenon DEF CommitThread, Transacting, TransactionCalls
    <3>3. CASE /\ Shrinks(0) /\ conn[Own(t)] # Null /\ SessionLeft(t) /\ depth' = Plus(depth, -1)
               /\ inTransaction' = inTransaction \ {conn[Own(t)]}
      <4>1. ~WriterOpen'
        BY <1>e, <3>1, <3>3, Zenon
      <4>2. K = 0 /\ \A i \in 1..K : transactionStack'[i].id = i - 1
        BY <1>s, <3>3, Zenon
      <4>3. depth' >= K
        BY <1>2, <4>2
      <4> QED
        BY <3>2, <4>1, <4>2, <4>3, Zenon
    <3>4. CASE L > 1 /\ Shrinks(L - 1) /\ depth' = Plus(depth, -1) /\ UNCHANGED inTransaction
      <4>1. K = L - 1 /\ \A i \in 1..K : transactionStack'[i].id = i - 1
        BY <1>s, <3>4, Zenon
      <4>2. depth' >= K /\ depth' >= 1
        BY <1>1, <1>2, <3>4, <4>1 DEF Plus
      <4> QED
        BY <3>2, <4>1, <4>2, Zenon
    <3>5. ASSUME NEW n \in 0..L, Shrinks(n), depth' = depth, UNCHANGED inTransaction
          PROVE  /\ CommitThread(t)'
                 /\ \A i \in 1..K : transactionStack'[i].id = i - 1
                 /\ depth' >= K
                 /\ WriterOpen' => depth' >= 1
      <4>1. K = n /\ \A i \in 1..K : transactionStack'[i].id = i - 1
        BY <1>s, <3>5, Zenon
      <4>2. WriterOpen' => WriterOpen
        BY <1>w, <3>5, Zenon
      <4>3. depth' >= K
        BY <1>1, <1>2, <3>5, <4>1
      <4> QED
        BY <1>1, <3>2, <3>5, <4>1, <4>2, <4>3, Zenon
    <3> QED
      BY <2>5, <3>3, <3>4, <3>5, Zenon DEF Ended, L
  <2> QED
    BY <1>4, <2>1, <2>2, <2>3, <2>4, <2>5, Zenon
<1>5. ~(Transacting(t) /\ op[t] = "RollBack")
  BY <1>1, Zenon DEF CommitThread
<1>6. CASE Alone(t) /\ Turned(t)
           /\ (Requested(t) \/ Committed(t) \/ PoppedAfter(t) \/ Pushed(t) \/ Ended(t))
  <2>1. \A u \in Threads : u # t => CommitThread(u)'
    BY <1>1, <1>6, CommitAlone, Zenon
  <2> QED
    BY <1>4, <1>6, <2>1, Zenon
<1> QED
  BY <1>3, <1>5, <1>6, Zenon DEF Outcome

=============================================================================
