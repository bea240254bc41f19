---------------------------- MODULE TaskPoolProofs ----------------------------
(***************************************************************************)
(* Proofs about TaskPool, for any number of threads, queues and tasks.      *)
(***************************************************************************)
EXTENDS TaskPool, TLAPS, FiniteSetTheorems

\* The head and the rest of a queue.
LEMMA TailFacts ==
    ASSUME NEW S, NEW q \in Seq(S), q # <<>>
    PROVE  /\ Head(q) \in S /\ Tail(q) \in Seq(S)
           /\ Len(q) \in Nat \ {0} /\ Len(Tail(q)) = Len(q) - 1
OBVIOUS

-------------------------------------------------------------------------------
(* The condition variable and the spawning of threads.                      *)

\* A notification moves waiting threads and leaves all the others where they are.
LEMMA NotifiedFacts ==
    ASSUME NEW p \in PcValues
    PROVE  /\ Notified(p) \in PcValues
           /\ Notified(p) = "running" <=> p = "running"
           /\ Notified(p) = "none" <=> p = "none"
BY DEF Notified, PcValues

\* notify_all keeps exactly the running threads running.
LEMMA NotifyAllFacts ==
    ASSUME NEW f \in [Threads -> PcValues]
    PROVE  /\ NotifyAll(f) \in [Threads -> PcValues]
           /\ \A t \in Threads : NotifyAll(f)[t] = "running" <=> f[t] = "running"
BY NotifiedFacts DEF NotifyAll

\* So does notify_one, whichever waiter it picks.
LEMMA NotifyOneFacts ==
    ASSUME pc \in [Threads -> PcValues], NEW f \in NotifyOne
    PROVE  /\ f \in [Threads -> PcValues]
           /\ \A t \in Threads : f[t] = "running" <=> pc[t] = "running"
BY NotifiedFacts DEF NotifyOne, Waiters

\* TryToSpawnThreads keeps the thread count within maxThreads_ and only moves a
\* thread that did not exist.
LEMMA SpawnFacts ==
    ASSUME NEW f \in [Threads -> PcValues], NEW n, curThreads \in Int,
           curThreads <= MaxThreads, TryToSpawnThreads(f, n)
    PROVE  /\ pc' \in [Threads -> PcValues]
           /\ curThreads' \in Int /\ curThreads' <= MaxThreads
           /\ \A t \in Threads : pc'[t] = "running" <=> f[t] = "running"
BY SizeAssumption DEF TryToSpawnThreads, PcValues

-------------------------------------------------------------------------------
(* Type correctness.                                                        *)

\* A new pool has a well-typed state.
LEMMA InitType == Init => TypeOK
<1> SUFFICES ASSUME Init PROVE TypeOK
  OBVIOUS
<1>1. task \in [Threads -> [tag : -1..NumTags, id : 0..MaxTasks]]
  BY SizeAssumption DEF Init, NoTask
<1>2. 0 <= CountMax /\ 0 <= MaxThreads /\ 0 \in 0..MaxTasks
  BY SizeAssumption
<1>3. genericTasks \in Seq(1..MaxTasks) /\ queuedTasks \in [Tags -> Seq(1..MaxTasks)]
  BY DEF Init
<1>4. isStarted \in BOOLEAN /\ isStopping \in BOOLEAN
  BY Zenon DEF Init
<1> QED
  BY <1>1, <1>2, <1>3, <1>4 DEF Init, TypeOK, PcValues

\* One turn of the loop of GetTask keeps the types.
LEMMA LoopType ==
    ASSUME TypeOK, NEW t \in Threads, Loop(t)
    PROVE  TypeOK'
<1>1. CASE TakeGeneric(t)
  <2>1. /\ genericTasks' \in Seq(1..MaxTasks)
        /\ Head(genericTasks) \in 1..MaxTasks
    BY <1>1, TailFacts, Zenon DEF TakeGeneric, TypeOK
  <2>2. task' \in [Threads -> [tag : -1..NumTags, id : 0..MaxTasks]]
    BY <1>1, <2>1, SizeAssumption DEF TakeGeneric, TypeOK, Generic
  <2>3. pc' \in [Threads -> PcValues]
    BY <1>1 DEF TakeGeneric, TypeOK, PcValues
  <2> QED
    BY <1>1, <2>1, <2>2, <2>3, Zenon DEF TakeGeneric, Loop, TypeOK, countVars, flagVars
<1>2. CASE TakeQueued(t)
  <2>1. PICK q \in Available(t) :
            /\ task' = [task EXCEPT ![t] = [tag |-> q, id |-> Head(queuedTasks[q])]]
            /\ queuedTasks' = [queuedTasks EXCEPT ![q] = Tail(@)]
            /\ lockThread' = [lockThread EXCEPT ![q] = t]
    BY <1>2, Zenon DEF TakeQueued
  <2>2. q \in Tags /\ queuedTasks[q] # <<>> /\ queuedTasks[q] \in Seq(1..MaxTasks)
    BY <2>1 DEF Available, TypeOK
  <2>3. Head(queuedTasks[q]) \in 1..MaxTasks /\ Tail(queuedTasks[q]) \in Seq(1..MaxTasks)
    BY <2>2, TailFacts, Zenon
  <2>4. task' \in [Threads -> [tag : -1..NumTags, id : 0..MaxTasks]]
    <3>1. q \in -1..NumTags /\ Head(queuedTasks[q]) \in 0..MaxTasks
      BY <2>2, <2>3, SizeAssumption DEF Tags
    <3> QED
      BY <2>1, <3>1 DEF TypeOK
  <2>5. queuedTasks' \in [Tags -> Seq(1..MaxTasks)]
    BY <2>1, <2>2, <2>3 DEF TypeOK
  <2>6. lockThread' \in [Tags -> Threads \cup {NoThread}]
    BY <2>1, <2>2 DEF TypeOK
  <2>7. pc' \in [Threads -> PcValues]
    BY <1>2 DEF TakeQueued, TypeOK, PcValues
  <2> QED
    BY <1>2, <2>4, <2>5, <2>6, <2>7, Zenon DEF TakeQueued, Loop, TypeOK, countVars, flagVars
<1>3. CASE IdleExit(t)
  <2>1. pc' \in [Threads -> PcValues]
    BY <1>3, NotifyAllFacts DEF IdleExit, TypeOK, PcValues
  <2>2. lockThread' \in [Tags -> Threads \cup {NoThread}]
    BY <1>3 DEF IdleExit, TypeOK
  <2> QED
    BY <1>3, <2>1, <2>2 DEF IdleExit, Loop, TypeOK, countVars, flagVars
<1> QED
  BY <1>1, <1>2, <1>3 DEF Loop

\* Every operation of the pool keeps every variable in its range; a task counter
\* never passes INT_MAX and curThreads_ never passes maxThreads_.
LEMMA NextType == TypeOK /\ [Next]_vars => TypeOK'
<1> SUFFICES ASSUME TypeOK, [Next]_vars PROVE TypeOK'
  OBVIOUS
<1>1. CASE Start
  <2>1. pc' \in [Threads -> PcValues]
    BY <1>1 DEF Start, TypeOK, PcValues
  <2>2. curThreads' \in Int /\ curThreads' <= MaxThreads
    BY <1>1, SizeAssumption DEF Start
  <2> QED
    BY <1>1, <2>1, <2>2, Zenon DEF Start, TypeOK, queueVars, countVars
<1>2. CASE Stop
  <2>1. pc' \in [Threads -> PcValues]
    BY <1>2, NotifyAllFacts DEF Stop, TypeOK
  <2> QED
    BY <1>2, <2>1 DEF Stop, TypeOK, queueVars, countVars
<1>3. CASE StopReturn
  BY <1>3, Zenon DEF StopReturn, TypeOK, queueVars, countVars
<1>4. CASE Schedule
  <2>1. PICK f \in NotifyOne : TryToSpawnThreads(f, queuedTaskCount + genericTaskCount')
    BY <1>4 DEF Schedule
  <2>2. pc' \in [Threads -> PcValues] /\ curThreads' \in Int /\ curThreads' <= MaxThreads
    BY <2>1, NotifyOneFacts, SpawnFacts, Zenon DEF TypeOK
  <2>3. scheduled' \in 1..MaxTasks
    BY <1>4, SizeAssumption DEF Schedule, CanSchedule, TypeOK
  <2>4. genericTasks' \in Seq(1..MaxTasks)
    BY <1>4, <2>3 DEF Schedule, TypeOK
  <2>5. genericTaskCount' \in Int /\ genericTaskCount' <= CountMax
    BY <1>4, SizeAssumption DEF Schedule, TypeOK
  <2>6. UNCHANGED <<queuedTasks, lockThread, mapTags, queuedTaskCount, isStarted,
                    isStopping, stopper, genericThread, task>>
    BY <1>4 DEF Schedule, flagVars
  <2>7. scheduled' \in 0..MaxTasks
    BY <2>3, SizeAssumption
  <2> QED
    BY <2>2, <2>4, <2>5, <2>6, <2>7, Zenon DEF TypeOK
<1>5. ASSUME NEW q \in Tags, ScheduleQueued(q) PROVE TypeOK'
  <2>1. pc' \in [Threads -> PcValues] /\ curThreads' \in Int /\ curThreads' <= MaxThreads
    BY <1>5, NotifyAllFacts, SpawnFacts, Zenon DEF TypeOK, ScheduleQueued
  <2>2. scheduled' \in 1..MaxTasks
    BY <1>5, SizeAssumption DEF ScheduleQueued, PutTask, CanSchedule, TypeOK
  <2>3. queuedTasks' \in [Tags -> Seq(1..MaxTasks)]
    BY <1>5, <2>2 DEF ScheduleQueued, PutTask, TypeOK
  <2>4. queuedTaskCount' \in Int /\ queuedTaskCount' <= CountMax
    BY <1>5, SizeAssumption DEF ScheduleQueued, PutTask, TypeOK
  <2>5. UNCHANGED <<genericTasks, lockThread, genericTaskCount, isStarted,
                    isStopping, stopper, genericThread, task>>
        /\ mapTags' = mapTags \cup {q}
    BY <1>5 DEF ScheduleQueued, PutTask, flagVars
  <2>6. scheduled' \in 0..MaxTasks
    BY <2>2, SizeAssumption
  <2> QED
    BY <2>1, <2>3, <2>4, <2>5, <2>6, Zenon DEF TypeOK
<1>6. ASSUME NEW q \in Tags, ShrinkMemory(q) PROVE TypeOK'
  BY <1>6 DEF ShrinkMemory, TypeOK, countVars, flagVars
<1>7. ASSUME NEW t \in Threads, TaskWorker(t) PROVE TypeOK'
  <2>1. CASE Loop(t)
    BY <2>1, LoopType
  <2>2. CASE BecomeGenericWorker(t)
    BY <2>2 DEF BecomeGenericWorker, TypeOK, PcValues, queueVars, countVars, flagVars
  <2>3. CASE pc' = [pc EXCEPT ![t] = "exit"]
             /\ UNCHANGED <<queueVars, countVars, flagVars, genericThread,
                            curThreads, task, scheduled>>
    BY <2>3 DEF TypeOK, PcValues, queueVars, countVars, flagVars
  <2>4. CASE SpuriousWakeup(t)
    BY <2>4, NotifiedFacts DEF SpuriousWakeup, TypeOK, queueVars, countVars, flagVars
  <2>5. CASE FinishExecuteTask(t)
    <3>1. task' \in [Threads -> [tag : -1..NumTags, id : 0..MaxTasks]]
      BY <2>5, SizeAssumption DEF FinishExecuteTask, TypeOK, NoTask
    <3>2. lockThread' \in [Tags -> Threads \cup {NoThread}]
      BY <2>5, Zenon DEF FinishExecuteTask, TypeOK
    <3>3. /\ genericTaskCount' \in Int /\ genericTaskCount' <= CountMax
          /\ queuedTaskCount' \in Int /\ queuedTaskCount' <= CountMax
      <4>1. /\ genericTaskCount' \in {genericTaskCount, genericTaskCount - 1}
            /\ queuedTaskCount' \in {queuedTaskCount, queuedTaskCount - 1}
        BY <2>5 DEF FinishExecuteTask
      <4>2. /\ genericTaskCount \in Int /\ genericTaskCount <= CountMax
            /\ queuedTaskCount \in Int /\ queuedTaskCount <= CountMax
        BY DEF TypeOK
      <4>3. CountMax \in Int
        BY SizeAssumption
      <4> QED
        BY <4>1, <4>2, <4>3
    <3>4. pc' \in [Threads -> PcValues]
      BY <2>5 DEF FinishExecuteTask, TypeOK, PcValues
    <3> QED
      BY <2>5, <3>1, <3>2, <3>3, <3>4, Zenon DEF FinishExecuteTask, TypeOK, flagVars
  <2>6. CASE ExitGenericWorker(t)
    <3>1. curThreads' \in Int /\ curThreads' <= MaxThreads
      BY <2>6, SizeAssumption DEF ExitGenericWorker, TypeOK
    <3> QED
      BY <2>6, <3>1 DEF ExitGenericWorker, TypeOK, PcValues, queueVars, countVars, flagVars
  <2> QED
    BY <1>7, <2>1, <2>2, <2>3, <2>4, <2>5, <2>6 DEF TaskWorker, GetTask, Wakeup, Timeout
<1>8. CASE UNCHANGED vars
  BY <1>8 DEF vars, TypeOK
<1> QED
  BY <1>1, <1>2, <1>3, <1>4, <1>5, <1>6, <1>7, <1>8 DEF Next, Client

\* The variables of the pool always have their types.
THEOREM TypeCorrect == Spec => []TypeOK
BY InitType, NextType, PTL DEF Spec

-------------------------------------------------------------------------------
(* The lock of a queue and the thread that runs its task.                   *)

\* A step that starts and ends no task, and touches no lock, keeps LockInv.
LEMMA LockFrame ==
    ASSUME LockInv, lockThread \in [Tags -> Threads \cup {NoThread}],
           \A t \in Threads : pc'[t] = "running" <=> pc[t] = "running",
           task' = task, lockThread' = lockThread, mapTags \subseteq mapTags'
    PROVE  LockInv'
<1>1. ASSUME NEW t \in Threads, NEW q \in Tags PROVE Running(t, q)' <=> Running(t, q)
  BY DEF Running
<1>2. ASSUME NEW q \in Tags, lockThread[q] # NoThread PROVE Running(lockThread[q], q)'
  BY <1>1, <1>2 DEF LockInv
<1> QED
  BY <1>1, <1>2 DEF LockInv, Running

\* A new pool has no queues and no running tasks.
LEMMA InitLock == Init => LockInv
BY DEF Init, LockInv, Running

\* GetTaskAutoLock locks the queue for the thread that takes its task; no
\* other turn of the loop changes who holds a lock.
LEMMA LoopLock ==
    ASSUME TypeOK, LockInv, NEW t \in Threads, pc[t] # "running", Loop(t)
    PROVE  LockInv'
<1>0. \A q \in Tags : lockThread[q] # t
  BY ThreadsAssumption DEF LockInv, Running
<1>1. CASE TakeGeneric(t)
  <2>1. /\ task' = [task EXCEPT ![t] = [tag |-> Generic, id |-> Head(genericTasks)]]
        /\ pc' = [pc EXCEPT ![t] = "running"]
        /\ lockThread' = lockThread /\ mapTags' = mapTags
    BY <1>1 DEF TakeGeneric, Loop
  <2>2. Generic \notin Tags
    BY DEF Tags, Generic
  <2>3. ASSUME NEW u \in Threads, NEW q \in Tags PROVE Running(u, q)' <=> Running(u, q)
    BY <2>1, <2>2 DEF Running, TypeOK
  <2>4. ASSUME NEW q \in Tags, lockThread[q] # NoThread PROVE Running(lockThread[q], q)'
    BY <2>1, <2>3, <2>4 DEF LockInv, TypeOK
  <2>5. ASSUME NEW u \in Threads, NEW q \in Tags, Running(u, q)'
        PROVE  lockThread'[q] = u /\ q \in mapTags'
    BY <2>1, <2>3, <2>5 DEF LockInv
  <2> QED
    BY <2>1, <2>4, <2>5 DEF LockInv, Running
<1>2. CASE TakeQueued(t)
  <2>1. PICK q \in Available(t) :
            /\ task' = [task EXCEPT ![t] = [tag |-> q, id |-> Head(queuedTasks[q])]]
            /\ lockThread' = [lockThread EXCEPT ![q] = t]
    BY <1>2, Zenon DEF TakeQueued
  <2>2. q \in mapTags /\ q \in Tags /\ lockThread[q] = NoThread
    BY <1>0, <2>1 DEF Available, TypeOK
  <2>3. pc' = [pc EXCEPT ![t] = "running"] /\ mapTags' = mapTags
    BY <1>2 DEF TakeQueued, Loop
  <2>4. ASSUME NEW u \in Threads, NEW r \in Tags
        PROVE  Running(u, r)' <=> (u = t /\ r = q) \/ Running(u, r)
    BY <2>1, <2>3 DEF Running, TypeOK
  <2>5. ASSUME NEW r \in Tags PROVE lockThread'[r] = IF r = q THEN t ELSE lockThread[r]
    BY <2>1 DEF TypeOK
  <2>6. ASSUME NEW u \in Threads, NEW r \in Tags, Running(u, r)'
        PROVE  lockThread'[r] = u /\ r \in mapTags'
    BY <2>2, <2>3, <2>4, <2>5, <2>6, ThreadsAssumption DEF LockInv
  <2>7. ASSUME NEW r \in Tags, lockThread'[r] # NoThread
        PROVE  Running(lockThread[r], r)'
    <3>1. lockThread'[r] \in Threads
      BY <2>5, <2>7, Zenon DEF TypeOK
    <3> QED
      BY <2>4, <2>5, <2>7, <3>1 DEF LockInv
  <2> QED
    BY <2>6, <2>7 DEF LockInv
<1>3. CASE IdleExit(t)
  <2>1. lockThread' = lockThread
    BY <1>0, <1>3 DEF IdleExit, TypeOK
  <2>2. \A u \in Threads : pc'[u] = "running" <=> pc[u] = "running"
    BY <1>3, NotifyAllFacts DEF IdleExit, TypeOK
  <2> QED
    BY <1>3, <2>1, <2>2, LockFrame DEF IdleExit, Loop, TypeOK
<1> QED
  BY <1>1, <1>2, <1>3 DEF Loop

\* Every operation keeps the locks and the running tasks in step.
LEMMA NextLock == TypeOK /\ LockInv /\ [Next]_vars => LockInv'
<1> SUFFICES ASSUME TypeOK, LockInv, [Next]_vars PROVE LockInv'
  OBVIOUS
<1> USE DEF queueVars
<1>1. CASE Start
  <2>1. \A t \in Threads : pc'[t] = "running" <=> pc[t] = "running"
    BY <1>1 DEF Start, TypeOK
  <2> QED
    BY <1>1, <2>1, LockFrame DEF Start, TypeOK
<1>2. CASE Stop
  BY <1>2, LockFrame, NotifyAllFacts, Zenon DEF Stop, TypeOK
<1>3. CASE StopReturn
  BY <1>3, LockFrame DEF StopReturn, TypeOK
<1>4. CASE Schedule
  <2>1. PICK f \in NotifyOne : TryToSpawnThreads(f, queuedTaskCount + genericTaskCount')
    BY <1>4 DEF Schedule
  <2>2. \A t \in Threads : pc'[t] = "running" <=> pc[t] = "running"
    BY <2>1, NotifyOneFacts, SpawnFacts DEF TypeOK
  <2> QED
    BY <1>4, <2>2, LockFrame DEF Schedule, TypeOK
<1>5. ASSUME NEW q \in Tags, ScheduleQueued(q) PROVE LockInv'
  <2>1. \A t \in Threads : pc'[t] = "running" <=> pc[t] = "running"
    BY <1>5, NotifyAllFacts, SpawnFacts, Zenon DEF TypeOK, ScheduleQueued
  <2> QED
    BY <1>5, <2>1, LockFrame DEF ScheduleQueued, PutTask, TypeOK
<1>6. ASSUME NEW q \in Tags, ShrinkMemory(q) PROVE LockInv'
  <2>1. lockThread' = lockThread /\ lockThread[q] = NoThread /\ pc' = pc /\ task' = task
    BY <1>6 DEF ShrinkMemory, IsEmptyAndUnlocked, TypeOK
  <2>2. ASSUME NEW t \in Threads, NEW r \in Tags, Running(t, r)'
        PROVE  lockThread'[r] = t /\ r \in mapTags'
    <3>1. Running(t, r)
      BY <2>1, <2>2 DEF Running
    <3> QED
      BY <1>6, <2>1, <3>1, ThreadsAssumption DEF LockInv, ShrinkMemory
  <2> QED
    BY <2>1, <2>2 DEF LockInv, Running
<1>7. ASSUME NEW t \in Threads, TaskWorker(t) PROVE LockInv'
  <2>1. CASE Loop(t) /\ pc[t] # "running"
    BY <2>1, LoopLock
  <2>2. CASE BecomeGenericWorker(t)
    BY <2>2, LockFrame DEF BecomeGenericWorker, TypeOK
  <2>3. CASE /\ pc[t] # "running" /\ pc' = [pc EXCEPT ![t] = "exit"]
             /\ UNCHANGED <<queueVars, countVars, flagVars, genericThread,
                            curThreads, task, scheduled>>
    BY <2>3, LockFrame DEF TypeOK
  <2>4. CASE SpuriousWakeup(t)
    BY <2>4, NotifiedFacts, LockFrame DEF SpuriousWakeup, TypeOK
  <2>5. CASE FinishExecuteTask(t)
    <3>1. ASSUME NEW u \in Threads, NEW r \in Tags
          PROVE  Running(u, r)' <=> u # t /\ Running(u, r)
      BY <2>5 DEF FinishExecuteTask, Running, TypeOK
    <3>2. ASSUME NEW r \in Tags
          PROVE  lockThread'[r] = IF lockThread[r] = t THEN NoThread ELSE lockThread[r]
      <4>1. lockThread[r] = t => task[t].tag = r
        BY ThreadsAssumption DEF LockInv, Running
      <4> QED
        BY <2>5, <4>1 DEF FinishExecuteTask, TypeOK
    <3>3. ASSUME NEW u \in Threads, NEW r \in Tags, Running(u, r)'
          PROVE  lockThread'[r] = u /\ r \in mapTags'
      BY <2>5, <3>1, <3>2, <3>3 DEF LockInv, FinishExecuteTask
    <3>4. ASSUME NEW r \in Tags, lockThread'[r] # NoThread
          PROVE  Running(lockThread[r], r)'
      <4>1. lockThread'[r] = lockThread[r] /\ lockThread[r] \in Threads /\ lockThread[r] # t
        BY <3>2, <3>4 DEF TypeOK
      <4> QED
        BY <3>1, <3>4, <4>1 DEF LockInv
    <3> QED
      BY <3>3, <3>4 DEF LockInv
  <2>6. CASE ExitGenericWorker(t)
    BY <2>6, LockFrame DEF ExitGenericWorker, TypeOK
  <2> QED
    BY <1>7, <2>1, <2>2, <2>3, <2>4, <2>5, <2>6 DEF TaskWorker, GetTask, Wakeup, Timeout
<1>8. CASE UNCHANGED vars
  BY <1>8, LockFrame DEF vars, TypeOK
<1> QED
  BY <1>1, <1>2, <1>3, <1>4, <1>5, <1>6, <1>7, <1>8 DEF Next, Client

\* A queue is locked exactly while a thread executes a task of it, and its
\* entry stays in the map that long: FinishExecuteTask's raw pointer is valid.
THEOREM LockCorrect == Spec => []LockInv
<1>1. Init => TypeOK /\ LockInv
  BY InitType, InitLock
<1>2. TypeOK /\ LockInv /\ [Next]_vars => (TypeOK /\ LockInv)'
  BY NextType, NextLock
<1> QED
  BY <1>1, <1>2, PTL DEF Spec

\* Two threads never execute tasks of one queue at the same time.
THEOREM Serial == Spec => []OneByOne
<1>1. LockInv => OneByOne
  BY DEF LockInv, OneByOne
<1> QED
  BY <1>1, LockCorrect, PTL

-------------------------------------------------------------------------------
(* The pool implements SerialExecutor.                                      *)

\* A thread that runs has a task (ids start at 1).
HasTask == \A t \in Threads : pc[t] = "running" => task[t].id # 0

ExecutorInv == TypeOK /\ LockInv /\ HasTask

\* ReapTask hands out a scheduled task; only FinishExecuteTask drops it.
LEMMA NextHasTask == ExecutorInv /\ [Next]_vars => HasTask'
<1> SUFFICES ASSUME ExecutorInv, [Next]_vars PROVE HasTask'
  OBVIOUS
<1> USE DEF ExecutorInv
<1>0. ASSUME \A t \in Threads : pc'[t] = "running" <=> pc[t] = "running", task' = task
      PROVE  HasTask'
  BY <1>0 DEF HasTask
<1>1. ASSUME NEW t \in Threads, Loop(t) PROVE HasTask'
  <2>1. CASE TakeGeneric(t)
    <3>1. Head(genericTasks) # 0
      BY <2>1, TailFacts, SizeAssumption DEF TakeGeneric, TypeOK
    <3> QED
      BY <2>1, <3>1 DEF TakeGeneric, TypeOK, HasTask
  <2>2. CASE TakeQueued(t)
    <3>1. PICK q \in Available(t) :
              task' = [task EXCEPT ![t] = [tag |-> q, id |-> Head(queuedTasks[q])]]
      BY <2>2, Zenon DEF TakeQueued
    <3>2. queuedTasks[q] # <<>> /\ queuedTasks[q] \in Seq(1..MaxTasks)
      BY <3>1 DEF Available, TypeOK
    <3>3. Head(queuedTasks[q]) # 0
      BY <3>2, TailFacts, SizeAssumption
    <3> QED
      BY <2>2, <3>1, <3>3 DEF TakeQueued, TypeOK, HasTask
  <2>3. CASE IdleExit(t)
    <3>1. \A u \in Threads : pc'[u] = "running" => pc[u] = "running"
      BY <2>3, NotifyAllFacts DEF IdleExit, TypeOK
    <3> QED
      BY <2>3, <3>1 DEF IdleExit, HasTask
  <2> QED
    BY <1>1, <2>1, <2>2, <2>3 DEF Loop
<1>2. CASE Start
  <2>1. \A t \in Threads : pc'[t] = "running" <=> pc[t] = "running"
    BY <1>2 DEF Start, TypeOK
  <2> QED
    BY <1>0, <1>2, <2>1 DEF Start
<1>3. CASE Stop
  BY <1>0, <1>3, NotifyAllFacts DEF Stop, TypeOK
<1>4. CASE StopReturn
  BY <1>0, <1>4 DEF StopReturn
<1>5. CASE Schedule
  <2>1. PICK f \in NotifyOne : TryToSpawnThreads(f, queuedTaskCount + genericTaskCount')
    BY <1>5 DEF Schedule
  <2>2. \A t \in Threads : pc'[t] = "running" <=> pc[t] = "running"
    BY <2>1, NotifyOneFacts, SpawnFacts DEF TypeOK
  <2> QED
    BY <1>0, <1>5, <2>2 DEF Schedule
<1>6. ASSUME NEW q \in Tags, ScheduleQueued(q) PROVE HasTask'
  <2>1. \A t \in Threads : pc'[t] = "running" <=> pc[t] = "running"
    BY <1>6, NotifyAllFacts, SpawnFacts, Zenon DEF TypeOK, ScheduleQueued
  <2> QED
    BY <1>0, <1>6, <2>1 DEF ScheduleQueued, PutTask
<1>7. ASSUME NEW q \in Tags, ShrinkMemory(q) PROVE HasTask'
  BY <1>0, <1>7 DEF ShrinkMemory
<1>8. ASSUME NEW t \in Threads, TaskWorker(t) PROVE HasTask'
  <2>1. CASE BecomeGenericWorker(t) \/ ExitGenericWorker(t)
    BY <2>1 DEF BecomeGenericWorker, ExitGenericWorker, TypeOK, HasTask
  <2>2. CASE pc' = [pc EXCEPT ![t] = "exit"] /\ UNCHANGED task
    BY <2>2 DEF TypeOK, HasTask
  <2>3. CASE SpuriousWakeup(t)
    BY <1>0, <2>3, NotifiedFacts DEF SpuriousWakeup, TypeOK
  <2>4. CASE FinishExecuteTask(t)
    BY <2>4 DEF FinishExecuteTask, TypeOK, HasTask
  <2> QED
    BY <1>1, <1>8, <2>1, <2>2, <2>3, <2>4 DEF TaskWorker, GetTask, Wakeup, Timeout
<1>9. CASE UNCHANGED vars
  BY <1>9 DEF vars, HasTask
<1> QED
  BY <1>2, <1>3, <1>4, <1>5, <1>6, <1>7, <1>8, <1>9 DEF Next, Client

\* The executor does not see a step that leaves queues, locks and tasks alone.
LEMMA ExecutorFrame ==
    ASSUME queuedTasks' = queuedTasks, lockThread' = lockThread, task' = task
    PROVE  UNCHANGED Executor!vars
BY DEF Executor!vars, TaskOf

\* One turn of GetTask's loop starts the oldest task of one queue, or does
\* nothing the executor sees.
LEMMA LoopImplements ==
    ASSUME ExecutorInv, NEW t \in Threads, pc[t] # "running", Loop(t)
    PROVE  [Executor!Next]_(Executor!vars)
<1> USE DEF ExecutorInv
<1>0. \A q \in Tags : lockThread[q] # t
  BY ThreadsAssumption DEF LockInv, Running
<1>1. CASE TakeGeneric(t)
  <2>1. \A q \in Tags : TaskOf(q)' = TaskOf(q)
    BY <1>0, <1>1 DEF TakeGeneric, TaskOf, TypeOK
  <2> QED
    BY <1>1, <2>1 DEF TakeGeneric, Executor!vars
<1>2. CASE TakeQueued(t)
  <2>1. PICK q \in Available(t) :
            /\ task' = [task EXCEPT ![t] = [tag |-> q, id |-> Head(queuedTasks[q])]]
            /\ queuedTasks' = [queuedTasks EXCEPT ![q] = Tail(@)]
            /\ lockThread' = [lockThread EXCEPT ![q] = t]
    BY <1>2, Zenon DEF TakeQueued
  <2>2. q \in Tags /\ lockThread[q] = NoThread /\ queuedTasks[q] # <<>>
    BY <1>0, <2>1 DEF Available, TypeOK
  <2>3. TaskOf(q) = 0 /\ TaskOf(q)' = Head(queuedTasks[q])
    BY <2>1, <2>2, ThreadsAssumption DEF TaskOf, TypeOK
  <2>4. \A r \in Tags : r # q => TaskOf(r)' = TaskOf(r)
    BY <1>0, <2>1, <2>2 DEF TaskOf, TypeOK
  <2>5. Executor!Begin(q)
    BY <2>1, <2>2, <2>3, <2>4, Zenon DEF Executor!Begin
  <2> QED
    BY <2>2, <2>5 DEF Executor!Next
<1>3. CASE IdleExit(t)
  <2>1. lockThread' = lockThread
    BY <1>0, <1>3 DEF IdleExit, TypeOK
  <2> QED
    BY <1>3, <2>1, ExecutorFrame DEF IdleExit
<1> QED
  BY <1>1, <1>2, <1>3 DEF Loop

\* Every step of the pool is a step of the executor or invisible to it.
LEMMA NextImplements == ExecutorInv /\ [Next]_vars => [Executor!Next]_(Executor!vars)
<1> SUFFICES ASSUME ExecutorInv, [Next]_vars PROVE [Executor!Next]_(Executor!vars)
  OBVIOUS
<1> USE DEF ExecutorInv, queueVars
<1>1. CASE Start \/ Stop \/ StopReturn \/ Schedule
  BY <1>1, ExecutorFrame DEF Start, Stop, StopReturn, Schedule
<1>2. ASSUME NEW q \in Tags, ScheduleQueued(q) PROVE Executor!Next
  <2>1. scheduled' \in 1..MaxTasks
    BY <1>2, SizeAssumption DEF ScheduleQueued, PutTask, CanSchedule, TypeOK
  <2>2. \A r \in Tags : TaskOf(r)' = TaskOf(r)
    BY <1>2 DEF ScheduleQueued, PutTask, TaskOf
  <2>3. Executor!Submit(q)
    BY <1>2, <2>1, <2>2, Zenon DEF ScheduleQueued, PutTask, Executor!Submit
  <2> QED
    BY <2>3 DEF Executor!Next
<1>3. ASSUME NEW q \in Tags, ShrinkMemory(q) PROVE UNCHANGED Executor!vars
  <2>1. queuedTasks' = queuedTasks /\ lockThread' = lockThread
    BY <1>3 DEF ShrinkMemory, IsEmptyAndUnlocked, TypeOK
  <2> QED
    BY <1>3, <2>1, ExecutorFrame DEF ShrinkMemory
<1>4. ASSUME NEW t \in Threads, TaskWorker(t) PROVE [Executor!Next]_(Executor!vars)
  <2>1. CASE Loop(t) /\ pc[t] # "running"
    BY <2>1, LoopImplements
  <2>2. CASE UNCHANGED <<queueVars, task>>
    BY <2>2, ExecutorFrame
  <2>3. CASE FinishExecuteTask(t) /\ task[t].tag \notin Tags
    <3>1. \A q \in Tags : lockThread[q] # t
      BY <2>3, ThreadsAssumption DEF LockInv, Running
    <3>2. \A q \in Tags : TaskOf(q)' = TaskOf(q)
      BY <2>3, <3>1 DEF FinishExecuteTask, TaskOf, TypeOK
    <3> QED
      BY <2>3, <3>2 DEF FinishExecuteTask, Executor!vars
  <2>4. CASE FinishExecuteTask(t) /\ task[t].tag \in Tags
    <3>0. PICK q \in Tags : q = task[t].tag
      BY <2>4
    <3>1. lockThread[q] = t
      BY <2>4, <3>0 DEF FinishExecuteTask, LockInv, Running
    <3>2. \A r \in Tags : r # q => lockThread[r] # t
      BY <3>0, ThreadsAssumption DEF LockInv, Running
    <3>3. TaskOf(q) # 0 /\ TaskOf(q)' = 0
      BY <2>4, <3>0, <3>1, ThreadsAssumption DEF FinishExecuteTask, TaskOf, HasTask, TypeOK
    <3>4. \A r \in Tags : r # q => TaskOf(r)' = TaskOf(r)
      BY <2>4, <3>0, <3>2 DEF FinishExecuteTask, TaskOf, TypeOK
    <3>5. Executor!End(q)
      BY <2>4, <3>3, <3>4, Zenon DEF FinishExecuteTask, Executor!End
    <3> QED
      BY <3>5 DEF Executor!Next
  <2> QED
    BY <1>4, <2>1, <2>2, <2>3, <2>4 DEF TaskWorker, GetTask, Wakeup, Timeout,
       BecomeGenericWorker, SpuriousWakeup, ExitGenericWorker
<1>5. CASE UNCHANGED vars
  BY <1>5, ExecutorFrame DEF vars
<1> QED
  BY <1>1, <1>2, <1>3, <1>4, <1>5 DEF Next, Client

\* The pool implements the serial executor: the tasks of a tag start in the
\* order they were scheduled, each only after the one before it has ended.
THEOREM Implements == Spec => ImplementsSerialExecutor
<1>1. Init => ExecutorInv /\ Executor!Init
  <2>1. Init => HasTask
    BY DEF Init, HasTask
  <2>2. Init => Executor!Init
    BY DEF Init, Executor!Init, TaskOf
  <2> QED
    BY <2>1, <2>2, InitType, InitLock DEF ExecutorInv
<1>2. ExecutorInv /\ [Next]_vars => ExecutorInv' /\ [Executor!Next]_(Executor!vars)
  BY NextType, NextLock, NextHasTask, NextImplements DEF ExecutorInv
<1> QED
  BY <1>1, <1>2, PTL DEF Spec, ImplementsSerialExecutor, Executor!Spec

-------------------------------------------------------------------------------
(* Who is awake when a queue has a task.                                    *)

\* A task waits that no thread has locked away.
Runnable == \E q \in mapTags : queuedTasks[q] # <<>> /\ lockThread[q] = NoThread

Sleeping(t) == pc[t] \in {"timed", "wait"}

\* Somebody will still look at the queues, or everybody but the generic worker
\* has been woken since the task came; Stop() woke them all.
Awake(t) == pc[t] \in {"spawned", "get", "notified", "running"}
StallInv ==
    /\ isStopping => \A t \in Threads : ~Sleeping(t)
    /\ Runnable => \/ \E t \in Threads : Awake(t)
                   \/ \A t \in Threads : t # genericThread => ~Sleeping(t)

\* A step that puts nobody to sleep, stops nobody who looks at the queues and
\* makes no task runnable keeps StallInv.
LEMMA StallFrame ==
    ASSUME StallInv, isStopping' => isStopping, Runnable' => Runnable,
           \A t \in Threads : Sleeping(t)' => Sleeping(t) /\ (t # genericThread' => t # genericThread),
           \A t \in Threads : Awake(t) => Awake(t)'
    PROVE  StallInv'
BY DEF StallInv

\* A notification wakes a sleeping thread and changes nothing for the others.
LEMMA NotifiedAwake ==
    ASSUME NEW p \in PcValues
    PROVE  /\ Notified(p) \notin {"timed", "wait"}
           /\ p \notin {"timed", "wait"} => Notified(p) = p
BY DEF Notified, PcValues

\* notify_one changes the state of sleeping threads only.
LEMMA NotifyOneAwake ==
    ASSUME pc \in [Threads -> PcValues], NEW f \in NotifyOne, NEW t \in Threads
    PROVE  \/ f[t] = pc[t]
           \/ pc[t] \in {"timed", "wait"} /\ f[t] = Notified(pc[t])
BY DEF NotifyOne, Waiters

\* TryToSpawnThreads changes the state of threads that did not exist only.
LEMMA SpawnAwake ==
    ASSUME NEW f \in [Threads -> PcValues], NEW n, TryToSpawnThreads(f, n), NEW t \in Threads
    PROVE  pc'[t] = f[t] \/ (f[t] = "none" /\ pc'[t] = "spawned")
<1>1. CASE curThreads >= MaxThreads \/ curThreads >= n
  BY <1>1 DEF TryToSpawnThreads
<1>2. CASE ~(curThreads >= MaxThreads \/ curThreads >= n)
  <2>1. PICK u \in Threads : f[u] = "none" /\ pc' = [f EXCEPT ![u] = "spawned"]
    BY <1>2 DEF TryToSpawnThreads
  <2> QED
    BY <2>1
<1> QED
  BY <1>1, <1>2

\* One turn of GetTask's loop takes a task, or leaves nothing the thread could
\* take, or wakes the others before the generic worker sleeps.
LEMMA LoopStall ==
    ASSUME TypeOK, StallInv, NEW t \in Threads, Loop(t)
    PROVE  StallInv'
<1>0. isStopping' = isStopping /\ genericThread' = genericThread /\ mapTags' = mapTags
  BY DEF Loop, flagVars
<1>1. CASE TakeGeneric(t) \/ TakeQueued(t)
  <2>1. pc' = [pc EXCEPT ![t] = "running"]
    BY <1>1 DEF TakeGeneric, TakeQueued
  <2>2. Awake(t)' /\ \A u \in Threads : Sleeping(u)' => Sleeping(u)
    BY <2>1 DEF Awake, Sleeping, TypeOK
  <2> QED
    BY <1>0, <2>2 DEF StallInv
<1>2. CASE IdleExit(t) /\ isStopping
  <2>1. pc' = [pc EXCEPT ![t] = "exit"]
    BY <1>2 DEF IdleExit
  <2>2. \A u \in Threads : ~Sleeping(u)'
    BY <1>2, <2>1 DEF StallInv, Sleeping, TypeOK
  <2> QED
    BY <2>2 DEF StallInv
<1>3. CASE IdleExit(t) /\ ~isStopping /\ LeavesQueues(t)
  <2>1. pc' = [NotifyAll(pc) EXCEPT ![t] = "wait"] /\ genericThread = t
    BY <1>3 DEF IdleExit, LeavesQueues, IsGenericWorker
  <2>2. \A u \in Threads : u # t => ~Sleeping(u)'
    BY <2>1, NotifiedAwake DEF NotifyAll, Sleeping, TypeOK
  <2> QED
    BY <1>0, <1>3, <2>1, <2>2 DEF StallInv
<1>4. CASE IdleExit(t) /\ ~isStopping /\ Available(t) = {}
  <2>1. ASSUME NEW q \in mapTags, queuedTasks'[q] # <<>>, lockThread'[q] = NoThread PROVE FALSE
    <3>1. q \in Tags /\ queuedTasks[q] # <<>>
      BY <1>4, <2>1 DEF IdleExit, TypeOK
    <3>2. lockThread[q] \in {NoThread, t}
      BY <1>4, <2>1, <3>1, Zenon DEF IdleExit
    <3> QED
      BY <1>4, <3>1, <3>2 DEF Available
  <2>2. ~Runnable'
    BY <1>0, <2>1 DEF Runnable
  <2> QED
    BY <1>0, <1>4, <2>2 DEF StallInv
<1> QED
  BY <1>1, <1>2, <1>3, <1>4 DEF Loop, IdleExit

\* Every step keeps StallInv.
LEMMA NextStall == TypeOK /\ StallInv /\ [Next]_vars => StallInv'
<1> SUFFICES ASSUME TypeOK, StallInv, [Next]_vars PROVE StallInv'
  OBVIOUS
<1> USE DEF queueVars, flagVars
<1>0. ASSUME UNCHANGED <<queuedTasks, lockThread, mapTags>> PROVE Runnable' <=> Runnable
  BY <1>0 DEF Runnable
<1>1. CASE Start
  <2>1. ASSUME NEW t \in Threads
        PROVE  (Sleeping(t)' => Sleeping(t)) /\ (Awake(t) => Awake(t)')
    BY <1>1 DEF Start, Sleeping, Awake, TypeOK
  <2> QED
    BY <1>0, <1>1, <2>1, StallFrame DEF Start
<1>2. CASE Stop
  <2>1. \A t \in Threads : ~Sleeping(t)'
    BY <1>2, NotifiedAwake DEF Stop, NotifyAll, Sleeping, TypeOK
  <2> QED
    BY <2>1 DEF StallInv
<1>3. CASE StopReturn
  BY <1>0, <1>3, StallFrame DEF StopReturn, Sleeping, Awake
<1>4. CASE Schedule
  <2>1. PICK f \in NotifyOne : TryToSpawnThreads(f, queuedTaskCount + genericTaskCount')
    BY <1>4 DEF Schedule
  <2>2. f \in [Threads -> PcValues] /\ pc \in [Threads -> PcValues]
    BY <2>1, NotifyOneFacts DEF TypeOK
  <2>3. ASSUME NEW t \in Threads
        PROVE  (Sleeping(t)' => Sleeping(t)) /\ (Awake(t) => Awake(t)')
    <3>1. pc'[t] = f[t] \/ (f[t] = "none" /\ pc'[t] = "spawned")
      BY <2>1, <2>2, SpawnAwake
    <3>2. f[t] = pc[t] \/ (pc[t] \in {"timed", "wait"} /\ f[t] = Notified(pc[t]))
      BY <2>1, <2>2, NotifyOneAwake
    <3>3. Notified(pc[t]) \notin {"timed", "wait"}
      BY <2>2, NotifiedAwake
    <3> QED
      BY <3>1, <3>2, <3>3 DEF Sleeping, Awake
  <2> QED
    BY <1>0, <1>4, <2>3, StallFrame DEF Schedule
<1>5. ASSUME NEW q \in Tags, ScheduleQueued(q) PROVE StallInv'
  <2>1. NotifyAll(pc) \in [Threads -> PcValues]
    BY NotifyAllFacts DEF TypeOK
  <2>2. ASSUME NEW t \in Threads PROVE ~Sleeping(t)'
    <3>1. pc'[t] = NotifyAll(pc)[t] \/ pc'[t] = "spawned"
      BY <1>5, <2>1, SpawnAwake DEF ScheduleQueued
    <3>2. NotifyAll(pc)[t] \notin {"timed", "wait"}
      BY NotifiedAwake DEF NotifyAll, TypeOK
    <3> QED
      BY <3>1, <3>2 DEF Sleeping
  <2> QED
    BY <2>2 DEF StallInv
<1>6. ASSUME NEW q \in Tags, ShrinkMemory(q) PROVE StallInv'
  <2>1. queuedTasks' = queuedTasks /\ lockThread' = lockThread /\ mapTags' \subseteq mapTags
    BY <1>6 DEF ShrinkMemory, IsEmptyAndUnlocked, TypeOK
  <2>2. Runnable' => Runnable
    BY <2>1 DEF Runnable
  <2> QED
    BY <1>6, <2>2, StallFrame DEF ShrinkMemory, Sleeping, Awake
<1>7. ASSUME NEW t \in Threads, TaskWorker(t) PROVE StallInv'
  <2>1. CASE Loop(t)
    BY <2>1, LoopStall
  <2>2. CASE BecomeGenericWorker(t)
    <3>1. ASSUME NEW u \in Threads
          PROVE  (Sleeping(u)' => Sleeping(u) /\ u # t) /\ (Awake(u) => Awake(u)')
      BY <2>2 DEF BecomeGenericWorker, Sleeping, Awake, TypeOK
    <3>2. ASSUME NEW u \in Threads, u # genericThread' PROVE u # genericThread
      BY <2>2, <3>2, ThreadsAssumption DEF BecomeGenericWorker
    <3> QED
      BY <1>0, <2>2, <3>1, <3>2, StallFrame DEF BecomeGenericWorker
  <2>3. CASE /\ pc[t] \in {"timed", "timedNotified"} /\ pc' = [pc EXCEPT ![t] = "exit"]
             /\ UNCHANGED <<queueVars, countVars, flagVars, genericThread,
                            curThreads, task, scheduled>>
    <3>1. ASSUME NEW u \in Threads
          PROVE  (Sleeping(u)' => Sleeping(u)) /\ (Awake(u) => Awake(u)')
      BY <2>3 DEF Sleeping, Awake, TypeOK
    <3> QED
      BY <1>0, <2>3, <3>1, StallFrame
  <2>4. CASE SpuriousWakeup(t)
    <3>1. ASSUME NEW u \in Threads
          PROVE  (Sleeping(u)' => Sleeping(u)) /\ (Awake(u) => Awake(u)')
      BY <2>4, NotifiedAwake, SMTT(30) DEF SpuriousWakeup, Sleeping, Awake, TypeOK
    <3> QED
      BY <1>0, <2>4, <3>1, StallFrame DEF SpuriousWakeup
  <2>5. CASE FinishExecuteTask(t)
    <3>1. Awake(t)' /\ \A u \in Threads : Sleeping(u)' => Sleeping(u)
      BY <2>5 DEF FinishExecuteTask, Sleeping, Awake, TypeOK
    <3> QED
      BY <2>5, <3>1 DEF FinishExecuteTask, StallInv
  <2>6. CASE ExitGenericWorker(t)
    <3>1. ASSUME NEW u \in Threads
          PROVE  (Sleeping(u)' => Sleeping(u) /\ u # t) /\ (Awake(u) => Awake(u)')
      BY <2>6 DEF ExitGenericWorker, Sleeping, Awake, TypeOK
    <3>2. ASSUME NEW u \in Threads, u # t, u # genericThread' PROVE u # genericThread
      BY <2>6, <3>2 DEF ExitGenericWorker, IsGenericWorker
    <3> QED
      BY <1>0, <2>6, <3>1, <3>2, StallFrame DEF ExitGenericWorker
  <2> QED
    BY <1>7, <2>1, <2>2, <2>3, <2>4, <2>5, <2>6 DEF TaskWorker, GetTask, Wakeup, Timeout
<1>8. CASE UNCHANGED vars
  BY <1>0, <1>8, StallFrame DEF vars, Sleeping, Awake
<1> QED
  BY <1>1, <1>2, <1>3, <1>4, <1>5, <1>6, <1>7, <1>8 DEF Next, Client

-------------------------------------------------------------------------------
(* The counters.                                                            *)

\* A thread that runs has a task of some queue, or a generic one.
Tagged == \A t \in Threads : pc[t] = "running" => task[t].tag \in {Generic} \cup Tags

TaskCounts ==
    /\ Tagged
    /\ IsFiniteSet(WaitingPlaces)
    /\ genericTaskCount = Len(genericTasks) + Cardinality(RunningOf({Generic}))
    /\ queuedTaskCount = Cardinality(WaitingPlaces) + Cardinality(RunningOf(Tags))

AccountInv == TypeOK /\ TaskCounts /\ curThreads = Cardinality(Live)

\* The threads are finitely many, and so are those that run or live.
LEMMA FiniteThreads ==
    /\ \A S : IsFiniteSet(RunningOf(S)) /\ Cardinality(RunningOf(S)) \in Nat
    /\ IsFiniteSet(Live) /\ Cardinality(Live) \in Nat
<1>1. \A T \in SUBSET Threads : IsFiniteSet(T) /\ Cardinality(T) \in Nat
  BY ThreadsAssumption, FS_Subset, FS_CardinalityType
<1>2. Live \in SUBSET Threads /\ \A S : RunningOf(S) \in SUBSET Threads
  BY DEF Live, RunningOf
<1> QED
  BY <1>1, <1>2

\* A step that starts and ends no task leaves the running threads alone.
LEMMA RunningFrame ==
    ASSUME \A t \in Threads : pc'[t] = "running" <=> pc[t] = "running", task' = task
    PROVE  \A S : RunningOf(S)' = RunningOf(S)
BY DEF RunningOf

\* A thread that takes a task of g joins those that run one of g.
LEMMA TakeRunning ==
    ASSUME TypeOK, NEW t \in Threads, NEW g, NEW k, pc[t] # "running",
           pc' = [pc EXCEPT ![t] = "running"],
           task' = [task EXCEPT ![t] = [tag |-> g, id |-> k]], NEW S
    PROVE  /\ t \notin RunningOf(S)
           /\ RunningOf(S)' = IF g \in S THEN RunningOf(S) \cup {t} ELSE RunningOf(S)
<1>1. t \notin RunningOf(S)
  BY DEF RunningOf
<1>2. ASSUME NEW u \in Threads
      PROVE  u \in RunningOf(S)' <=> u \in RunningOf(S) \/ (u = t /\ g \in S)
  BY DEF RunningOf, TypeOK
<1>3. RunningOf(S) \subseteq Threads /\ RunningOf(S)' \subseteq Threads
  BY DEF RunningOf
<1> QED
  BY <1>1, <1>2, <1>3

\* One that finishes its task leaves them.
LEMMA FinishRunning ==
    ASSUME TypeOK, NEW t \in Threads, FinishExecuteTask(t), NEW S
    PROVE  RunningOf(S)' = RunningOf(S) \ {t}
<1>1. ASSUME NEW u \in Threads PROVE u \in RunningOf(S)' <=> u \in RunningOf(S) /\ u # t
  BY DEF FinishExecuteTask, RunningOf, TypeOK
<1>2. RunningOf(S) \subseteq Threads /\ RunningOf(S)' \subseteq Threads
  BY DEF RunningOf
<1> QED
  BY <1>1, <1>2

\* What a place in a queue is.
LEMMA PlaceFacts ==
    ASSUME NEW p
    PROVE  p \in WaitingPlaces <=>
              \E r \in Tags : \E i \in DOMAIN queuedTasks[r] : p = <<r, i>>
BY DEF WaitingPlaces

\* Appending to a queue adds one place.
LEMMA AppendPlace ==
    ASSUME TypeOK, IsFiniteSet(WaitingPlaces), NEW q \in Tags, NEW k \in 1..MaxTasks,
           queuedTasks' = [queuedTasks EXCEPT ![q] = Append(@, k)]
    PROVE  /\ IsFiniteSet(WaitingPlaces)'
           /\ Cardinality(WaitingPlaces)' = Cardinality(WaitingPlaces) + 1
<1> DEFINE n == Len(queuedTasks[q])
<1>1. queuedTasks[q] \in Seq(1..MaxTasks) /\ n \in Nat /\ DOMAIN queuedTasks[q] = 1..n
  BY DEF TypeOK
<1>2. DOMAIN queuedTasks'[q] = 1..(n + 1)
  BY <1>1 DEF TypeOK
<1>3. 1..(n + 1) = (1..n) \cup {n + 1} /\ n + 1 \notin 1..n
  BY <1>1
<1>4. \A r \in Tags : DOMAIN queuedTasks'[r] =
          IF r = q THEN DOMAIN queuedTasks[r] \cup {n + 1} ELSE DOMAIN queuedTasks[r]
  BY <1>1, <1>2, <1>3, Zenon DEF TypeOK
<1> HIDE DEF n
<1>5. WaitingPlaces' = WaitingPlaces \cup {<<q, n + 1>>}
  <2>1. ASSUME NEW p PROVE p \in WaitingPlaces' <=>
             \E r \in Tags : \E i \in DOMAIN queuedTasks'[r] : p = <<r, i>>
    BY DEF WaitingPlaces
  <2>2. ASSUME NEW p, p \in WaitingPlaces' PROVE p \in WaitingPlaces \cup {<<q, n + 1>>}
    <3>1. PICK r \in Tags : \E i \in DOMAIN queuedTasks'[r] : p = <<r, i>>
      BY <2>1, <2>2
    <3>2. PICK i \in DOMAIN queuedTasks'[r] : p = <<r, i>>
      BY <3>1
    <3>3. i \in DOMAIN queuedTasks[r] \/ (r = q /\ i = n + 1)
      BY <1>4, <3>2, Zenon
    <3> QED
      BY <3>2, <3>3, PlaceFacts
  <2>3. ASSUME NEW p, p \in WaitingPlaces PROVE p \in WaitingPlaces'
    <3>1. PICK r \in Tags : \E i \in DOMAIN queuedTasks[r] : p = <<r, i>>
      BY <2>3, PlaceFacts
    <3>2. PICK i \in DOMAIN queuedTasks[r] : p = <<r, i>>
      BY <3>1
    <3>3. i \in DOMAIN queuedTasks'[r]
      BY <1>4, <3>2
    <3> QED
      BY <2>1, <3>2, <3>3
  <2>4. <<q, n + 1>> \in WaitingPlaces'
    <3>1. n + 1 \in DOMAIN queuedTasks'[q]
      BY <1>4, Zenon
    <3> QED
      BY <2>1, <3>1
  <2> QED
    BY <2>2, <2>3, <2>4
<1>6. <<q, n + 1>> \notin WaitingPlaces
  BY <1>1, <1>3, PlaceFacts
<1> QED
  BY <1>5, <1>6, FS_AddElement

\* Taking the head of a queue removes one: the places are 1..Len.
LEMMA TailPlace ==
    ASSUME TypeOK, IsFiniteSet(WaitingPlaces), NEW q \in Tags, queuedTasks[q] # <<>>,
           queuedTasks' = [queuedTasks EXCEPT ![q] = Tail(@)]
    PROVE  /\ IsFiniteSet(WaitingPlaces)'
           /\ Cardinality(WaitingPlaces)' = Cardinality(WaitingPlaces) - 1
<1> DEFINE n == Len(queuedTasks[q])
<1>1. queuedTasks[q] \in Seq(1..MaxTasks) /\ n \in Nat \ {0} /\ DOMAIN queuedTasks[q] = 1..n
  BY TailFacts DEF TypeOK
<1>2. DOMAIN queuedTasks'[q] = 1..(n - 1)
  <2>1. Tail(queuedTasks[q]) \in Seq(1..MaxTasks) /\ Len(Tail(queuedTasks[q])) = n - 1
    BY <1>1, TailFacts, Zenon
  <2> QED
    BY <2>1 DEF TypeOK
<1>3. 1..(n - 1) = (1..n) \ {n} /\ n \in 1..n
  BY <1>1
<1>4. \A r \in Tags : DOMAIN queuedTasks'[r] =
          IF r = q THEN DOMAIN queuedTasks[r] \ {n} ELSE DOMAIN queuedTasks[r]
  BY <1>1, <1>2, <1>3, Zenon DEF TypeOK
<1> HIDE DEF n
<1>5. WaitingPlaces' = WaitingPlaces \ {<<q, n>>}
  <2>1. ASSUME NEW p PROVE p \in WaitingPlaces' <=>
             \E r \in Tags : \E i \in DOMAIN queuedTasks'[r] : p = <<r, i>>
    BY SMTT(30) DEF WaitingPlaces
  <2>2. ASSUME NEW p, p \in WaitingPlaces' PROVE p \in WaitingPlaces \ {<<q, n>>}
    <3>1. PICK r \in Tags : \E i \in DOMAIN queuedTasks'[r] : p = <<r, i>>
      BY <2>1, <2>2
    <3>2. PICK i \in DOMAIN queuedTasks'[r] : p = <<r, i>>
      BY <3>1
    <3>3. i \in DOMAIN queuedTasks[r] /\ ~(r = q /\ i = n)
      BY <1>4, <3>2, Zenon
    <3>4. p # <<q, n>>
      BY <3>2, <3>3
    <3> QED
      BY <3>2, <3>3, <3>4, PlaceFacts
  <2>3. ASSUME NEW p, p \in WaitingPlaces, p # <<q, n>> PROVE p \in WaitingPlaces'
    <3>1. PICK r \in Tags : \E i \in DOMAIN queuedTasks[r] : p = <<r, i>>
      BY <2>3, PlaceFacts
    <3>2. PICK i \in DOMAIN queuedTasks[r] : p = <<r, i>>
      BY <3>1
    <3>3. i \in DOMAIN queuedTasks'[r]
      <4>1. CASE r = q
        <5>1. i # n
          BY <2>3, <3>2, <4>1
        <5> QED
          BY <1>4, <3>2, <4>1, <5>1, Zenon
      <4>2. CASE r # q
        BY <1>4, <3>2, <4>2
      <4> QED
        BY <4>1, <4>2
    <3> QED
      BY <2>1, <3>2, <3>3
  <2> QED
    BY <2>2, <2>3
<1>6. <<q, n>> \in WaitingPlaces
  BY <1>1, <1>3, PlaceFacts
<1> QED
  BY <1>5, <1>6, FS_RemoveElement, Zenon

\* Nobody runs, waits or lives in a new pool.
LEMMA InitAccount == Init => AccountInv
<1> SUFFICES ASSUME Init PROVE AccountInv
  OBVIOUS
<1>1. Live = {} /\ \A S : RunningOf(S) = {}
  BY DEF Init, Live, RunningOf
<1>2. WaitingPlaces = {}
  BY PlaceFacts DEF Init
<1>3. Tagged
  BY DEF Init, Tagged
<1>4. Len(genericTasks) = 0 /\ genericTaskCount = 0 /\ queuedTaskCount = 0 /\ curThreads = 0
  BY DEF Init
<1>5. TaskCounts /\ curThreads = Cardinality(Live)
  <2>1. /\ Cardinality(RunningOf({Generic})) = 0 /\ Cardinality(RunningOf(Tags)) = 0
        /\ Cardinality(Live) = 0 /\ Cardinality(WaitingPlaces) = 0
    BY <1>1, <1>2, FS_EmptySet
  <2> QED
    BY <1>2, <1>3, <1>4, <2>1, FS_EmptySet DEF TaskCounts
<1> QED
  BY <1>5, InitType DEF AccountInv

\* A thread that is spawned is one more, one that leaves is one less, and all
\* the others stay alive: curThreads_ follows.
LEMMA ThreadCount ==
    ASSUME TypeOK, curThreads = Cardinality(Live), [Next]_vars
    PROVE  curThreads' = Cardinality(Live')
<1>0. ASSUME \A t \in Threads : pc'[t] = "none" <=> pc[t] = "none", curThreads' = curThreads
      PROVE  curThreads' = Cardinality(Live')
  <2>1. Live' = Live
    BY <1>0 DEF Live
  <2> QED
    BY <1>0, <2>1
<1>a. \A t \in Threads : NotifyAll(pc)[t] = "none" <=> pc[t] = "none"
  BY NotifiedFacts DEF NotifyAll, TypeOK
<1>b. ASSUME NEW f \in [Threads -> PcValues], NEW n, TryToSpawnThreads(f, n),
             \A t \in Threads : f[t] = "none" <=> pc[t] = "none"
      PROVE  curThreads' = Cardinality(Live')
  <2>1. CASE curThreads >= MaxThreads \/ curThreads >= n
    BY <1>0, <1>b, <2>1 DEF TryToSpawnThreads
  <2>2. CASE ~(curThreads >= MaxThreads \/ curThreads >= n)
    <3>1. PICK u \in Threads : /\ f[u] = "none" /\ pc' = [f EXCEPT ![u] = "spawned"]
                               /\ curThreads' = curThreads + 1
      BY <1>b, <2>2 DEF TryToSpawnThreads
    <3>2. Live' = Live \cup {u} /\ u \notin Live
      BY <1>b, <3>1 DEF Live
    <3> QED
      BY <3>1, <3>2, FiniteThreads, FS_AddElement, Zenon
  <2> QED
    BY <2>1, <2>2
<1>1. CASE Start
  <2>1. PICK S \in SUBSET Threads :
          /\ Cardinality(S) = MinThreads - curThreads
          /\ \A t \in S : pc[t] = "none"
          /\ pc' = [t \in Threads |-> IF t \in S THEN "spawned" ELSE pc[t]]
    BY <1>1 DEF Start
  <2>2. Live' = Live \cup S /\ Live \cap S = {}
    BY <2>1 DEF Live
  <2>3. IsFiniteSet(S) /\ Cardinality(S) \in Nat
    BY ThreadsAssumption, FS_Subset, FS_CardinalityType
  <2>4. Cardinality(Live') = Cardinality(Live) + Cardinality(S)
    <3>1. Cardinality(Live \cup S) =
             Cardinality(Live) + Cardinality(S) - Cardinality(Live \cap S)
      BY <2>3, FiniteThreads, FS_Union
    <3>2. Cardinality(Live \cap S) = 0
      BY <2>2, FS_EmptySet
    <3>3. Cardinality(Live) \in Nat
      BY FiniteThreads
    <3> QED
      BY <2>2, <2>3, <3>1, <3>2, <3>3
  <2>5. curThreads' = MinThreads /\ MinThreads \in Int /\ curThreads \in Int
    BY <1>1, SizeAssumption, SMTT(30) DEF Start, TypeOK
  <2> QED
    BY <2>1, <2>4, <2>5
<1>2. CASE Stop
  BY <1>0, <1>a, <1>2 DEF Stop
<1>3. CASE StopReturn \/ (\E q \in Tags : ShrinkMemory(q)) \/ UNCHANGED vars
  BY <1>0, <1>3 DEF StopReturn, ShrinkMemory, vars
<1>4. CASE Schedule
  <2>1. PICK f \in NotifyOne : TryToSpawnThreads(f, queuedTaskCount + genericTaskCount')
    BY <1>4 DEF Schedule
  <2>2. f \in [Threads -> PcValues] /\ pc \in [Threads -> PcValues]
    BY <2>1, NotifyOneFacts DEF TypeOK
  <2>3. \A t \in Threads : f[t] = "none" <=> pc[t] = "none"
    BY <2>1, <2>2, NotifiedFacts DEF NotifyOne, Waiters
  <2> QED
    BY <1>b, <2>1, <2>2, <2>3
<1>5. ASSUME NEW q \in Tags, ScheduleQueued(q) PROVE curThreads' = Cardinality(Live')
  BY <1>5, <1>a, <1>b, NotifyAllFacts, Zenon DEF ScheduleQueued, TypeOK
<1>6. ASSUME NEW t \in Threads, TaskWorker(t) PROVE curThreads' = Cardinality(Live')
  <2>1. CASE Loop(t) /\ pc[t] # "none"
    <3>1. \A u \in Threads : pc'[u] = "none" <=> pc[u] = "none"
      BY <1>a, <2>1, Zenon DEF Loop, TakeGeneric, TakeQueued, IdleExit, NotifyAll, TypeOK
    <3> QED
      BY <1>0, <2>1, <3>1 DEF Loop
  <2>2. CASE BecomeGenericWorker(t) \/ FinishExecuteTask(t)
    <3>1. \A u \in Threads : pc'[u] = "none" <=> pc[u] = "none"
      BY <2>2 DEF BecomeGenericWorker, FinishExecuteTask, TypeOK
    <3> QED
      BY <1>0, <2>2, <3>1, Zenon DEF BecomeGenericWorker, FinishExecuteTask
  <2>3. CASE pc[t] # "none" /\ pc' = [pc EXCEPT ![t] = "exit"] /\ curThreads' = curThreads
    BY <1>0, <2>3 DEF TypeOK
  <2>4. CASE SpuriousWakeup(t)
    BY <1>0, <2>4, NotifiedFacts DEF SpuriousWakeup, TypeOK
  <2>5. CASE ExitGenericWorker(t)
    <3>1. Live' = Live \ {t} /\ t \in Live
      BY <2>5 DEF ExitGenericWorker, Live, TypeOK
    <3> QED
      BY <2>5, <3>1, FiniteThreads, FS_RemoveElement DEF ExitGenericWorker
  <2> QED
    BY <1>6, <2>1, <2>2, <2>3, <2>4, <2>5 DEF TaskWorker, GetTask, Wakeup, Timeout
<1> QED
  BY <1>1, <1>2, <1>3, <1>4, <1>5, <1>6 DEF Next, Client

\* A step that moves no task keeps the counts.
LEMMA CountFrame ==
    ASSUME TaskCounts, \A t \in Threads : pc'[t] = "running" <=> pc[t] = "running",
           UNCHANGED <<task, genericTasks, queuedTasks, genericTaskCount, queuedTaskCount>>
    PROVE  TaskCounts'
<1>1. \A S : RunningOf(S)' = RunningOf(S)
  BY RunningFrame
<1>2. RunningOf({Generic})' = RunningOf({Generic}) /\ RunningOf(Tags)' = RunningOf(Tags)
  BY DEF RunningOf
<1>3. WaitingPlaces' = WaitingPlaces
  BY DEF WaitingPlaces
<1>4. Tagged'
  BY DEF TaskCounts, Tagged
<1> QED
  BY <1>2, <1>3, <1>4, Zenon DEF TaskCounts

\* A turn of the loop moves one task from a queue to a thread, or none.
LEMMA LoopCounts ==
    ASSUME TypeOK, TaskCounts, NEW t \in Threads, pc[t] # "running", Loop(t)
    PROVE  TaskCounts'
<1>0. genericTaskCount' = genericTaskCount /\ queuedTaskCount' = queuedTaskCount
  BY DEF Loop, countVars
<1>z. Generic \notin Tags
  BY DEF Generic, Tags
<1>1. CASE TakeGeneric(t)
  <2>1. /\ genericTasks # <<>> /\ genericTasks' = Tail(genericTasks) /\ queuedTasks' = queuedTasks
        /\ pc' = [pc EXCEPT ![t] = "running"]
        /\ task' = [task EXCEPT ![t] = [tag |-> Generic, id |-> Head(genericTasks)]]
    BY <1>1 DEF TakeGeneric
  <2>2. /\ Len(genericTasks') = Len(genericTasks) - 1 /\ Len(genericTasks) \in Nat
    BY <2>1, TailFacts, SMTT(30) DEF TypeOK
  <2>3. /\ RunningOf({Generic})' = RunningOf({Generic}) \cup {t} /\ t \notin RunningOf({Generic})
        /\ RunningOf(Tags)' = RunningOf(Tags)
    BY <1>z, <2>1, TakeRunning, Zenon
  <2>4. /\ Cardinality(RunningOf({Generic})') = Cardinality(RunningOf({Generic})) + 1
        /\ Cardinality(RunningOf({Generic})) \in Nat
    BY <2>3, FiniteThreads, FS_AddElement, Zenon
  <2>5. WaitingPlaces' = WaitingPlaces
    BY <2>1 DEF WaitingPlaces
  <2>6. Tagged'
    BY <2>1, Zenon DEF TaskCounts, Tagged, TypeOK
  <2>7. genericTaskCount' = Len(genericTasks') + Cardinality(RunningOf({Generic})')
    BY <1>0, <2>2, <2>4 DEF TaskCounts
  <2> QED
    BY <1>0, <2>3, <2>5, <2>6, <2>7 DEF TaskCounts
<1>2. CASE TakeQueued(t)
  <2>1. PICK q \in Available(t) :
            /\ task' = [task EXCEPT ![t] = [tag |-> q, id |-> Head(queuedTasks[q])]]
            /\ queuedTasks' = [queuedTasks EXCEPT ![q] = Tail(@)]
    BY <1>2, Zenon DEF TakeQueued
  <2>2. /\ q \in Tags /\ queuedTasks[q] # <<>> /\ genericTasks' = genericTasks
        /\ pc' = [pc EXCEPT ![t] = "running"]
    BY <1>2, <2>1, Zenon DEF TakeQueued, Available, TypeOK
  <2>3. /\ RunningOf({Generic})' = RunningOf({Generic}) /\ t \notin RunningOf(Tags)
        /\ RunningOf(Tags)' = RunningOf(Tags) \cup {t}
    BY <1>z, <2>1, <2>2, TakeRunning, Zenon
  <2>4. /\ Cardinality(RunningOf(Tags)') = Cardinality(RunningOf(Tags)) + 1
        /\ Cardinality(RunningOf(Tags)) \in Nat
    BY <2>3, FiniteThreads, FS_AddElement, Zenon
  <2>5. /\ IsFiniteSet(WaitingPlaces') /\ Cardinality(WaitingPlaces') = Cardinality(WaitingPlaces) - 1
        /\ Cardinality(WaitingPlaces) \in Nat
    BY <2>1, <2>2, TailPlace, FS_CardinalityType, Zenon DEF TaskCounts
  <2>6. Tagged'
    BY <2>1, <2>2 DEF TaskCounts, Tagged, TypeOK
  <2>7. queuedTaskCount' = Cardinality(WaitingPlaces') + Cardinality(RunningOf(Tags)')
    BY <1>0, <2>4, <2>5 DEF TaskCounts
  <2> QED
    BY <1>0, <2>2, <2>3, <2>5, <2>6, <2>7 DEF TaskCounts
<1>3. CASE IdleExit(t)
  <2>1. \A u \in Threads : pc'[u] = "running" <=> pc[u] = "running"
    BY <1>3, NotifyAllFacts DEF IdleExit, TypeOK
  <2> QED
    BY <1>0, <1>3, <2>1, CountFrame DEF IdleExit
<1> QED
  BY <1>1, <1>2, <1>3 DEF Loop

\* Every operation that schedules, takes or finishes a task counts it.
LEMMA NextCounts == TypeOK /\ TaskCounts /\ [Next]_vars => TaskCounts'
<1> SUFFICES ASSUME TypeOK, TaskCounts, [Next]_vars PROVE TaskCounts'
  OBVIOUS
<1> USE DEF queueVars, countVars
<1>1. CASE Start
  <2>1. \A t \in Threads : pc'[t] = "running" <=> pc[t] = "running"
    BY <1>1 DEF Start, TypeOK
  <2> QED
    BY <1>1, <2>1, CountFrame DEF Start
<1>2. CASE Stop
  <2>1. \A t \in Threads : pc'[t] = "running" <=> pc[t] = "running"
    BY <1>2, NotifyAllFacts DEF Stop, TypeOK
  <2> QED
    BY <1>2, <2>1, CountFrame DEF Stop
<1>3. CASE StopReturn \/ UNCHANGED vars
  BY <1>3, CountFrame DEF StopReturn, vars
<1>4. CASE Schedule
  <2>1. PICK f \in NotifyOne : TryToSpawnThreads(f, queuedTaskCount + genericTaskCount')
    BY <1>4 DEF Schedule
  <2>2. \A t \in Threads : pc'[t] = "running" <=> pc[t] = "running"
    BY <2>1, NotifyOneFacts, SpawnFacts DEF TypeOK
  <2>3. RunningOf({Generic})' = RunningOf({Generic}) /\ RunningOf(Tags)' = RunningOf(Tags)
    BY <1>4, <2>2 DEF Schedule, RunningOf
  <2>4. WaitingPlaces' = WaitingPlaces /\ queuedTaskCount' = queuedTaskCount
    BY <1>4 DEF Schedule, WaitingPlaces
  <2>5. Len(genericTasks') = Len(genericTasks) + 1 /\ Len(genericTasks) \in Nat
    BY <1>4 DEF Schedule, TypeOK
  <2>6. Cardinality(RunningOf({Generic})) \in Nat /\ genericTaskCount' = genericTaskCount + 1
    BY <1>4, FiniteThreads DEF Schedule
  <2>7. Tagged'
    BY <1>4, <2>2 DEF Schedule, TaskCounts, Tagged
  <2>8. genericTaskCount' = Len(genericTasks') + Cardinality(RunningOf({Generic}))
    BY <2>5, <2>6 DEF TaskCounts
  <2> QED
    BY <2>3, <2>4, <2>7, <2>8 DEF TaskCounts
<1>5. ASSUME NEW q \in Tags, ScheduleQueued(q) PROVE TaskCounts'
  <2>1. \A t \in Threads : pc'[t] = "running" <=> pc[t] = "running"
    BY <1>5, NotifyAllFacts, SpawnFacts, Zenon DEF TypeOK, ScheduleQueued
  <2>2. /\ queuedTasks' = [queuedTasks EXCEPT ![q] = Append(@, scheduled')]
        /\ queuedTaskCount' = queuedTaskCount + 1
        /\ UNCHANGED <<genericTasks, genericTaskCount, task>>
    BY <1>5 DEF ScheduleQueued, PutTask
  <2>3. RunningOf({Generic})' = RunningOf({Generic}) /\ RunningOf(Tags)' = RunningOf(Tags)
    BY <2>1, <2>2 DEF RunningOf
  <2>4. scheduled' \in 1..MaxTasks
    BY <1>5, SizeAssumption, SMTT(30) DEF ScheduleQueued, PutTask, CanSchedule, TypeOK
  <2>5. /\ IsFiniteSet(WaitingPlaces') /\ Cardinality(WaitingPlaces') = Cardinality(WaitingPlaces) + 1
        /\ Cardinality(WaitingPlaces) \in Nat
    BY <2>2, <2>4, AppendPlace, FS_CardinalityType, Zenon DEF TaskCounts
  <2>6. Cardinality(RunningOf(Tags)) \in Nat
    BY FiniteThreads
  <2>7. Tagged'
    BY <2>1, <2>2, Zenon DEF TaskCounts, Tagged
  <2>8. queuedTaskCount' = Cardinality(WaitingPlaces') + Cardinality(RunningOf(Tags))
    BY <2>2, <2>5, <2>6 DEF TaskCounts
  <2> QED
    BY <2>2, <2>3, <2>5, <2>7, <2>8 DEF TaskCounts
<1>6. ASSUME NEW q \in Tags, ShrinkMemory(q) PROVE TaskCounts'
  <2>1. queuedTasks' = queuedTasks
    BY <1>6 DEF ShrinkMemory, IsEmptyAndUnlocked, TypeOK
  <2> QED
    BY <1>6, <2>1, CountFrame DEF ShrinkMemory
<1>7. ASSUME NEW t \in Threads, TaskWorker(t) PROVE TaskCounts'
  <2>1. CASE Loop(t) /\ pc[t] # "running"
    BY <2>1, LoopCounts
  <2>2. CASE BecomeGenericWorker(t) \/ ExitGenericWorker(t)
    <3>1. \A u \in Threads : pc'[u] = "running" <=> pc[u] = "running"
      BY <2>2 DEF BecomeGenericWorker, ExitGenericWorker, TypeOK
    <3> QED
      BY <2>2, <3>1, CountFrame DEF BecomeGenericWorker, ExitGenericWorker
  <2>3. CASE /\ pc[t] # "running" /\ pc' = [pc EXCEPT ![t] = "exit"]
             /\ UNCHANGED <<queueVars, countVars, flagVars, genericThread,
                            curThreads, task, scheduled>>
    <3>1. \A u \in Threads : pc'[u] = "running" <=> pc[u] = "running"
      BY <2>3 DEF TypeOK
    <3> QED
      BY <2>3, <3>1, CountFrame
  <2>4. CASE SpuriousWakeup(t)
    <3>1. \A u \in Threads : pc'[u] = "running" <=> pc[u] = "running"
      BY <2>4, NotifiedFacts, SMTT(30) DEF SpuriousWakeup, TypeOK
    <3> QED
      BY <2>4, <3>1, CountFrame DEF SpuriousWakeup
  <2>5. CASE FinishExecuteTask(t)
    <3>1. /\ RunningOf({Generic})' = RunningOf({Generic}) \ {t}
          /\ RunningOf(Tags)' = RunningOf(Tags) \ {t}
      BY <2>5, FinishRunning
    <3>2. WaitingPlaces' = WaitingPlaces /\ genericTasks' = genericTasks
      BY <2>5 DEF FinishExecuteTask, WaitingPlaces
    <3>3. Tagged'
      BY <2>5 DEF FinishExecuteTask, TaskCounts, Tagged, TypeOK
    <3>4. Generic \notin Tags /\ task[t].tag \in {Generic} \cup Tags
      BY <2>5, SMTT(30) DEF FinishExecuteTask, TaskCounts, Tagged, Generic, Tags
    <3>5. /\ Cardinality(RunningOf({Generic})) \in Nat /\ Cardinality(RunningOf(Tags)) \in Nat
          /\ Cardinality(WaitingPlaces) \in Nat /\ Len(genericTasks) \in Nat
      BY FiniteThreads, FS_CardinalityType, SMTT(30) DEF TaskCounts, TypeOK
    <3>6. CASE task[t].tag \in Tags
      <4>1. t \in RunningOf(Tags) /\ t \notin RunningOf({Generic})
        BY <2>5, <3>4, <3>6 DEF FinishExecuteTask, RunningOf
      <4>5. RunningOf({Generic})' = RunningOf({Generic})
        BY <3>1, <4>1
      <4>6. IsFiniteSet(RunningOf(Tags))
        BY FiniteThreads
      <4>2. /\ Cardinality(RunningOf(Tags)') = Cardinality(RunningOf(Tags)) - 1
            /\ RunningOf({Generic})' = RunningOf({Generic})
        BY <3>1, <4>1, <4>5, <4>6, FS_RemoveElement, Zenon
      <4>3. queuedTaskCount' = queuedTaskCount - 1 /\ genericTaskCount' = genericTaskCount
        BY <2>5, <3>6 DEF FinishExecuteTask
      <4>4. queuedTaskCount' = Cardinality(WaitingPlaces) + Cardinality(RunningOf(Tags)')
        BY <3>5, <4>2, <4>3 DEF TaskCounts
      <4> QED
        BY <3>2, <3>3, <4>2, <4>3, <4>4 DEF TaskCounts
    <3>7. CASE task[t].tag \notin Tags
      <4>1. t \notin RunningOf(Tags) /\ t \in RunningOf({Generic})
        BY <2>5, <3>4, <3>7 DEF FinishExecuteTask, RunningOf
      <4>5. RunningOf(Tags)' = RunningOf(Tags)
        BY <3>1, <4>1
      <4>6. IsFiniteSet(RunningOf({Generic}))
        BY FiniteThreads
      <4>2. /\ Cardinality(RunningOf({Generic})') = Cardinality(RunningOf({Generic})) - 1
            /\ RunningOf(Tags)' = RunningOf(Tags)
        BY <3>1, <4>1, <4>5, <4>6, FS_RemoveElement, Zenon
      <4>3. genericTaskCount' = genericTaskCount - 1 /\ queuedTaskCount' = queuedTaskCount
        BY <2>5, <3>7 DEF FinishExecuteTask
      <4>4. genericTaskCount' = Len(genericTasks) + Cardinality(RunningOf({Generic})')
        BY <3>5, <4>2, <4>3 DEF TaskCounts
      <4> QED
        BY <3>2, <3>3, <4>2, <4>3, <4>4 DEF TaskCounts
    <3> QED
      BY <3>6, <3>7
  <2> QED
    BY <1>7, <2>1, <2>2, <2>3, <2>4, <2>5 DEF TaskWorker, GetTask, Wakeup, Timeout
<1> QED
  BY <1>1, <1>2, <1>3, <1>4, <1>5, <1>6, <1>7 DEF Next, Client

\* AccountInv is inductive, so it always holds.
LEMMA AccountInvariant == Spec => []AccountInv
<1>1. AccountInv /\ [Next]_vars => AccountInv'
  BY NextType, NextCounts, ThreadCount DEF AccountInv
<1> QED
  BY <1>1, InitAccount, PTL DEF Spec

\* genericTaskCount_, queuedTaskCount_ and curThreads_ are exact in every state:
\* no path counts a task or a thread twice or forgets one.
THEOREM Counted == Spec => []Accounting
<1>1. AccountInv => Accounting
  BY DEF AccountInv, TaskCounts, Accounting
<1> QED
  BY <1>1, AccountInvariant, PTL

\* A runnable queue keeps some thread awake for as long as the generic worker
\* has company: only the exit of all the others can leave it to a sleeper.
THEOREM StallFree == Spec => []StallOnlyAfterExit
<1>1. Init => StallInv
  BY DEF Init, StallInv, Runnable
<1>2. AccountInv /\ StallInv => StallOnlyAfterExit
  <2> SUFFICES ASSUME AccountInv, StallInv, Runnable, \A t \in Threads : Asleep(t)
               PROVE  curThreads <= 1
    BY DEF StallOnlyAfterExit, Runnable
  <2>1. \A t \in Threads : t # genericThread => pc[t] = "none"
    <3>1. \A t \in Threads : ~Awake(t)
      BY DEF Asleep, Awake
    <3>2. \A t \in Threads : t # genericThread => ~Sleeping(t)
      BY <3>1 DEF StallInv
    <3> QED
      BY <3>2 DEF Asleep, Sleeping
  <2>2. Live \in SUBSET {genericThread}
    BY <2>1 DEF Live
  <2>3. IsFiniteSet({genericThread}) /\ Cardinality({genericThread}) = 1
    BY FS_Singleton, Zenon
  <2>4. Cardinality(Live) <= 1
    BY <2>2, <2>3, FS_Subset
  <2> QED
    BY <2>4 DEF AccountInv
<1>3. AccountInv /\ StallInv /\ [Next]_vars => StallInv'
  BY NextStall DEF AccountInv
<1> QED
  BY <1>1, <1>2, <1>3, AccountInvariant, PTL DEF Spec
===============================================================================
