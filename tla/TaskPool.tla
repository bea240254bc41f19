------------------------------- MODULE TaskPool -------------------------------
(***************************************************************************)
(* The thread pool behind PreferencesImpl (preferences/src/task_pool.cpp    *)
(* and task_queue.cpp).  Every critical section of tasksMutex_ is one       *)
(* action; a thread blocked in hasTasks_.wait or wait_for is a value of pc. *)
(* The running of a task's body is the time a thread spends in "running".   *)
(* idleThreads_ and isGenericThreadIdle_ are only printed by Report() and   *)
(* are left out.                                                            *)
(***************************************************************************)
EXTENDS Integers, Sequences, FiniteSets

CONSTANTS Threads,     \* identities the operating system may give a worker
          NoThread,    \* std::thread::id() : no thread
          NumTags,     \* queue tags are 1..NumTags, in the order of std::map
          MaxThreads,  \* maxThreads_
          MinThreads,  \* minThreads_
          CountMax,    \* INT_MAX: a task counter never exceeds it
          MaxTasks     \* bound: tasks scheduled in one behaviour

ASSUME ThreadsAssumption ==
    /\ IsFiniteSet(Threads)
    /\ NoThread \notin Threads
    /\ Cardinality(Threads) >= MaxThreads
ASSUME SizeAssumption ==
    /\ MaxThreads \in Nat \ {0}
    /\ MinThreads \in 0..MaxThreads
    /\ NumTags \in Nat
    /\ CountMax \in Nat \ {0}
    /\ MaxTasks \in Nat

Tags == 1..NumTags
Generic == 0                        \* the "tag" of genericTasks_
NoTask == [tag |-> -1, id |-> 0]

VARIABLES
    genericTasks,     \* genericTasks_: ids of the generic tasks that wait
    queuedTasks,      \* queuedTasks_[q].tasks_
    lockThread,       \* queuedTasks_[q].lockThread_
    mapTags,          \* the keys present in the map queuedTasks_
    genericTaskCount, queuedTaskCount,
    isStarted, isStopping,
    genericThread,    \* genericThread_
    curThreads,       \* curThreads_
    pc,               \* where each worker is
    task,             \* the task a running worker executes
    stopper,          \* "none", or "waiting" inside Stop()
    scheduled         \* number of tasks scheduled so far; ids are 1, 2, ...

vars == <<genericTasks, queuedTasks, lockThread, mapTags, genericTaskCount,
          queuedTaskCount, isStarted, isStopping, genericThread, curThreads,
          pc, task, stopper, scheduled>>

queueVars == <<genericTasks, queuedTasks, lockThread, mapTags>>
countVars == <<genericTaskCount, queuedTaskCount>>
flagVars == <<isStarted, isStopping, stopper>>

PcValues == {"none", "spawned", "get", "timed", "timedNotified", "wait",
             "notified", "running", "exit"}

Init ==
    /\ genericTasks = <<>>
    /\ queuedTasks = [q \in Tags |-> <<>>]
    /\ lockThread = [q \in Tags |-> NoThread]
    /\ mapTags = {}
    /\ genericTaskCount = 0
    /\ queuedTaskCount = 0
    /\ isStarted = FALSE
    /\ isStopping = FALSE
    /\ genericThread = NoThread
    /\ curThreads = 0
    /\ pc = [t \in Threads |-> "none"]
    /\ task = [t \in Threads |-> NoTask]
    /\ stopper = "none"
    /\ scheduled = 0

-------------------------------------------------------------------------------
(* The condition variable hasTasks_.                                        *)

Notified(p) == CASE p = "timed" -> "timedNotified"
                 [] p = "wait"  -> "notified"
                 [] OTHER       -> p

NotifyAll(f) == [t \in Threads |-> Notified(f[t])]

Waiters == {t \in Threads : pc[t] \in {"timed", "wait"}}

\* The possible values of pc after hasTasks_.notify_one().
NotifyOne == IF Waiters = {} THEN {pc}
             ELSE {[pc EXCEPT ![t] = Notified(@)] : t \in Waiters}

(* SpawnThreads(false) reached through TryToSpawnThreads: one more thread   *)
(* when there are more tasks than threads.                                  *)
TryToSpawnThreads(f, tasks) ==
    IF curThreads >= MaxThreads \/ curThreads >= tasks
    THEN pc' = f /\ UNCHANGED curThreads
    ELSE \E t \in {u \in Threads : f[u] = "none"} :
             /\ pc' = [f EXCEPT ![t] = "spawned"]
             /\ curThreads' = curThreads + 1

-------------------------------------------------------------------------------
(* Operations of the pool's clients.                                        *)

\* Start(); its only caller, PreferencesImpl::Init, starts a new pool once.
Start ==
    /\ ~isStarted
    /\ ~isStopping
    /\ isStarted' = TRUE
    /\ isStopping' = FALSE
    /\ \E S \in SUBSET Threads :
          /\ Cardinality(S) = MinThreads - curThreads
          /\ \A t \in S : pc[t] = "none"
          /\ pc' = [t \in Threads |-> IF t \in S THEN "spawned" ELSE pc[t]]
    /\ curThreads' = MinThreads
    /\ UNCHANGED <<queueVars, countVars, genericThread, task, stopper, scheduled>>

\* Mutant: Stop() forgets to wake the idle workers.
StopSilently ==
    /\ isStarted
    /\ stopper = "none"
    /\ isStopping' = TRUE
    /\ stopper' = "waiting"
    /\ UNCHANGED <<queueVars, countVars, isStarted, genericThread, curThreads,
                   pc, task, scheduled>>

\* Stop() up to the wait on allThreadsExited_.
Stop ==
    /\ isStarted
    /\ stopper = "none"
    /\ isStopping' = TRUE
    /\ stopper' = "waiting"
    /\ pc' = NotifyAll(pc)
    /\ UNCHANGED <<queueVars, countVars, isStarted, genericThread, curThreads,
                   task, scheduled>>

\* The wait of Stop() ends: its predicate is curThreads_ <= 0.
StopReturn ==
    /\ stopper = "waiting"
    /\ curThreads <= 0
    /\ isStarted' = FALSE
    /\ stopper' = "none"
    /\ UNCHANGED <<queueVars, countVars, isStopping, genericThread, curThreads,
                   pc, task, scheduled>>

CanSchedule == isStarted /\ ~isStopping /\ scheduled < MaxTasks

\* Schedule(task)
Schedule ==
    /\ CanSchedule
    /\ genericTaskCount < CountMax
    /\ scheduled' = scheduled + 1
    /\ genericTasks' = Append(genericTasks, scheduled')
    /\ genericTaskCount' = genericTaskCount + 1
    /\ \E f \in NotifyOne : TryToSpawnThreads(f, queuedTaskCount + genericTaskCount')
    /\ UNCHANGED <<queuedTasks, lockThread, mapTags, queuedTaskCount, flagVars,
                   genericThread, task>>

\* The part of Schedule(queueTag, task) that puts the task in its queue.
PutTask(q) ==
    /\ CanSchedule
    /\ scheduled' = scheduled + 1
    /\ queuedTasks' = [queuedTasks EXCEPT ![q] = Append(@, scheduled')]
    /\ mapTags' = mapTags \cup {q}
    /\ queuedTaskCount' = queuedTaskCount + 1
    /\ UNCHANGED <<genericTasks, lockThread, genericTaskCount, flagVars,
                   genericThread, task>>

\* Mutant: notify_all is missing.
ScheduleSilently(q) ==
    /\ queuedTaskCount < CountMax
    /\ PutTask(q)
    /\ TryToSpawnThreads(pc, queuedTaskCount' + genericTaskCount)

\* Schedule(queueTag, task)
ScheduleQueued(q) ==
    /\ queuedTaskCount < CountMax
    /\ PutTask(q)
    /\ TryToSpawnThreads(NotifyAll(pc), queuedTaskCount' + genericTaskCount)

\* Mutant: the lock is not looked at.
IsEmpty(q) == queuedTasks[q] = <<>>

IsEmptyAndUnlocked(q) == lockThread[q] = NoThread /\ queuedTasks[q] = <<>>

\* ShrinkMemory(tag)
ShrinkMemory(q) ==
    /\ q \in mapTags
    /\ IsEmptyAndUnlocked(q)
    /\ mapTags' = mapTags \ {q}
    /\ queuedTasks' = [queuedTasks EXCEPT ![q] = <<>>]
    /\ lockThread' = [lockThread EXCEPT ![q] = NoThread]
    /\ UNCHANGED <<genericTasks, countVars, flagVars, genericThread, curThreads,
                   pc, task, scheduled>>

-------------------------------------------------------------------------------
(* A worker thread.                                                         *)

IsGenericWorker(t) == genericThread = t

\* The queues from which GetTaskAutoLock would hand t a task.
Available(t) ==
    {q \in mapTags : lockThread[q] \in {NoThread, t} /\ queuedTasks[q] # <<>>}

\* ReapTask does not reach the queues: the generic worker leaves them to the
\* other threads while there are any.
LeavesQueues(t) == IsGenericWorker(t) /\ curThreads > 1

\* ReapTask takes a generic task.
TakeGeneric(t) ==
    /\ genericTasks # <<>>
    /\ task' = [task EXCEPT ![t] = [tag |-> Generic, id |-> Head(genericTasks)]]
    /\ genericTasks' = Tail(genericTasks)
    /\ pc' = [pc EXCEPT ![t] = "running"]
    /\ UNCHANGED <<queuedTasks, lockThread>>

\* Mutant: the newest task of the queue is taken instead of the oldest.
TakeNewest(t) ==
    /\ genericTasks = <<>>
    /\ ~LeavesQueues(t)
    /\ \E q \in Available(t) : LET n == Len(queuedTasks[q]) IN
          /\ \A r \in Available(t) : q <= r
          /\ task' = [task EXCEPT ![t] = [tag |-> q, id |-> queuedTasks[q][n]]]
          /\ queuedTasks' = [queuedTasks EXCEPT ![q] = SubSeq(@, 1, n - 1)]
          /\ lockThread' = [lockThread EXCEPT ![q] = t]
    /\ pc' = [pc EXCEPT ![t] = "running"]
    /\ UNCHANGED genericTasks

\* ReapTask takes the task of the first queue, in map order, that has one for t.
TakeQueued(t) ==
    /\ genericTasks = <<>>
    /\ ~LeavesQueues(t)
    /\ \E q \in Available(t) :
          /\ \A r \in Available(t) : q <= r
          /\ task' = [task EXCEPT ![t] = [tag |-> q, id |-> Head(queuedTasks[q])]]
          /\ queuedTasks' = [queuedTasks EXCEPT ![q] = Tail(@)]
          /\ lockThread' = [lockThread EXCEPT ![q] = t]
    /\ pc' = [pc EXCEPT ![t] = "running"]
    /\ UNCHANGED genericTasks

\* IdleExit after ReapTask found nothing: leave, or wait on hasTasks_.  The
\* locks that GetTaskAutoLock or SetThreadFree touch in passing are released.
IdleExit(t) ==
    /\ genericTasks = <<>>
    /\ LeavesQueues(t) \/ Available(t) = {}
    /\ pc' = IF isStopping
             THEN [pc EXCEPT ![t] = "exit"]
             ELSE IF ~IsGenericWorker(t) /\ curThreads > MinThreads
             THEN [pc EXCEPT ![t] = "timed"]
             ELSE IF IsGenericWorker(t)
             THEN [NotifyAll(pc) EXCEPT ![t] = "wait"]
             ELSE [pc EXCEPT ![t] = "wait"]
    /\ lockThread' = [q \in Tags |-> IF lockThread[q] = t THEN NoThread
                                     ELSE lockThread[q]]
    /\ UNCHANGED <<genericTasks, queuedTasks, task>>

\* One turn of the loop of GetTask, under tasksMutex_.
Loop(t) ==
    /\ TakeGeneric(t) \/ TakeQueued(t) \/ IdleExit(t)
    /\ UNCHANGED <<mapTags, countVars, flagVars, genericThread, curThreads, scheduled>>

BecomeGenericWorker(t) ==
    /\ pc[t] = "spawned"
    /\ pc' = [pc EXCEPT ![t] = "get"]
    /\ genericThread' = IF genericThread = NoThread THEN t ELSE genericThread
    /\ UNCHANGED <<queueVars, countVars, flagVars, curThreads, task, scheduled>>

GetTask(t) ==
    /\ pc[t] = "get"
    /\ Loop(t)

\* hasTasks_.wait or wait_for returns after a notification.
Wakeup(t) ==
    /\ pc[t] \in {"notified", "timedNotified"}
    /\ Loop(t)

\* Mutant: the test of genericTaskCount_ after the timeout is missing.
TimeoutAlwaysExits(t) ==
    /\ pc[t] \in {"timed", "timedNotified"}
    /\ pc' = [pc EXCEPT ![t] = "exit"]
    /\ UNCHANGED <<queueVars, countVars, flagVars, genericThread, curThreads,
                   task, scheduled>>

\* wait_for returns cv_status::timeout: also after a notification, when the
\* thread gets tasksMutex_ back only after its deadline.
Timeout(t) ==
    /\ pc[t] \in {"timed", "timedNotified"}
    /\ IF genericTaskCount <= 0
       THEN /\ pc' = [pc EXCEPT ![t] = "exit"]
            /\ UNCHANGED <<queueVars, countVars, flagVars, genericThread,
                           curThreads, task, scheduled>>
       ELSE Loop(t)

\* A condition variable may wake a thread that nobody notified.
SpuriousWakeup(t) ==
    /\ pc[t] \in {"timed", "wait"}
    /\ pc' = [pc EXCEPT ![t] = Notified(@)]
    /\ UNCHANGED <<queueVars, countVars, flagVars, genericThread, curThreads,
                   task, scheduled>>

\* Mutant: every finished task is counted as a generic one.
FinishAsGeneric(t) ==
    /\ pc[t] = "running"
    /\ pc' = [pc EXCEPT ![t] = "get"]
    /\ task' = [task EXCEPT ![t] = NoTask]
    /\ lockThread' = [q \in Tags |-> IF lockThread[q] = t THEN NoThread
                                     ELSE lockThread[q]]
    /\ genericTaskCount' = genericTaskCount - 1
    /\ UNCHANGED <<genericTasks, queuedTasks, mapTags, queuedTaskCount, flagVars,
                   genericThread, curThreads, scheduled>>

\* The task's body has returned; FinishExecuteTask releases its queue.
FinishExecuteTask(t) ==
    /\ pc[t] = "running"
    /\ pc' = [pc EXCEPT ![t] = "get"]
    /\ task' = [task EXCEPT ![t] = NoTask]
    /\ IF task[t].tag \in Tags
       THEN /\ lockThread' = [lockThread EXCEPT ![task[t].tag] =
                                  IF @ = t THEN NoThread ELSE @]
            /\ queuedTaskCount' = queuedTaskCount - 1
            /\ UNCHANGED genericTaskCount
       ELSE /\ genericTaskCount' = genericTaskCount - 1
            /\ UNCHANGED <<lockThread, queuedTaskCount>>
    /\ UNCHANGED <<genericTasks, queuedTasks, mapTags, flagVars, genericThread,
                   curThreads, scheduled>>

ExitGenericWorker(t) ==
    /\ pc[t] = "exit"
    /\ pc' = [pc EXCEPT ![t] = "none"]
    /\ genericThread' = IF IsGenericWorker(t) THEN NoThread ELSE genericThread
    /\ curThreads' = curThreads - 1
    /\ UNCHANGED <<queueVars, countVars, flagVars, task, scheduled>>

TaskWorker(t) ==
    \/ BecomeGenericWorker(t)
    \/ GetTask(t)
    \/ Wakeup(t)
    \/ Timeout(t)
    \/ SpuriousWakeup(t)
    \/ FinishExecuteTask(t)
    \/ ExitGenericWorker(t)

Client ==
    \/ Start
    \/ Stop
    \/ StopReturn
    \/ Schedule
    \/ \E q \in Tags : ScheduleQueued(q) \/ ShrinkMemory(q)

Next == Client \/ \E t \in Threads : TaskWorker(t)

Spec == Init /\ [][Next]_vars

(* A worker is never stopped for good by the scheduler, its task's body     *)
(* returns, and wait_for ends after IDLE_WAIT_PERIOD.  Nobody is obliged to *)
(* schedule tasks or to stop the pool, and no wakeup is spurious for sure.  *)
WorkerStep(t) ==
    \/ BecomeGenericWorker(t) \/ GetTask(t) \/ Wakeup(t) \/ Timeout(t)
    \/ FinishExecuteTask(t) \/ ExitGenericWorker(t)

Fairness == WF_vars(StopReturn) /\ \A t \in Threads : WF_vars(WorkerStep(t))

FairSpec == Spec /\ Fairness

-------------------------------------------------------------------------------
(* Properties.                                                              *)

Running(t, q) == pc[t] = "running" /\ task[t].tag = q

TypeOK ==
    /\ genericTasks \in Seq(1..MaxTasks)
    /\ queuedTasks \in [Tags -> Seq(1..MaxTasks)]
    /\ lockThread \in [Tags -> Threads \cup {NoThread}]
    /\ mapTags \in SUBSET Tags
    /\ genericTaskCount \in Int /\ genericTaskCount <= CountMax
    /\ queuedTaskCount \in Int /\ queuedTaskCount <= CountMax
    /\ isStarted \in BOOLEAN
    /\ isStopping \in BOOLEAN
    /\ genericThread \in Threads \cup {NoThread}
    /\ curThreads \in Int /\ curThreads <= MaxThreads
    /\ pc \in [Threads -> PcValues]
    /\ task \in [Threads -> [tag : -1..NumTags, id : 0..MaxTasks]]
    /\ stopper \in {"none", "waiting"}
    /\ scheduled \in 0..MaxTasks

\* "Schedule tasks one by one" (task_pool.h): two threads never execute tasks
\* of the same queue at the same time.
OneByOne ==
    \A t, u \in Threads : \A q \in Tags :
        Running(t, q) /\ Running(u, q) => t = u

\* The lock of a queue is held by exactly the thread that executes a task of
\* the queue, and the queue that FinishExecuteTask will touch through its raw
\* pointer is still in the map: ShrinkMemory did not erase it meanwhile.
LockInv ==
    /\ \A t \in Threads : \A q \in Tags :
          Running(t, q) => lockThread[q] = t /\ q \in mapTags
    /\ \A q \in Tags :
          lockThread[q] # NoThread => Running(lockThread[q], q)

\* The counters that decide when to spawn and when an idle thread may leave
\* are exact: they count waiting and running tasks, and live threads.
RunningOf(S) == {t \in Threads : pc[t] = "running" /\ task[t].tag \in S}
WaitingPlaces == UNION {{q} \X DOMAIN queuedTasks[q] : q \in Tags}
Live == {t \in Threads : pc[t] # "none"}
Accounting ==
    /\ genericTaskCount = Len(genericTasks) + Cardinality(RunningOf({Generic}))
    /\ queuedTaskCount = Cardinality(WaitingPlaces) + Cardinality(RunningOf(Tags))
    /\ curThreads = Cardinality(Live)

\* The only way a queue can be left with a task and nobody awake to take it is
\* that the last other thread has left: as long as the generic worker has
\* company, a runnable queue keeps some thread awake (Schedule notifies all, and
\* the generic worker notifies the others before it sleeps itself).
Asleep(t) == pc[t] \in {"none", "timed", "wait"}
StallOnlyAfterExit ==
    (\E q \in mapTags : queuedTasks[q] # <<>> /\ lockThread[q] = NoThread)
        /\ (\A t \in Threads : Asleep(t))
    => curThreads <= 1

\* The pool implements the serial executor its clients rely on: the abstract
\* running task of a queue is the task of the thread that locked the queue.
TaskOf(q) == IF lockThread[q] = NoThread THEN 0 ELSE task[lockThread[q]].id
Executor == INSTANCE SerialExecutor WITH
    TaskIds <- 1..MaxTasks, Idle <- 0, pending <- queuedTasks,
    running <- [q \in Tags |-> TaskOf(q)]
ImplementsSerialExecutor == Executor!Spec

WaitsGeneric(k) == \E i \in DOMAIN genericTasks : genericTasks[i] = k
WaitsQueued(k) ==
    \E q \in Tags : \E i \in DOMAIN queuedTasks[q] : queuedTasks[q][i] = k

\* "Schedule a task, the task can be ran in any thread" (task_pool.h): every
\* generic task is taken by a thread, also when the pool is shrinking or
\* stopping.
GenericTaskRuns == \A k \in 1..MaxTasks : WaitsGeneric(k) ~> ~WaitsGeneric(k)

\* Every task accepted by Schedule(queueTag, task) is taken by a thread.
QueuedTaskRuns == \A k \in 1..MaxTasks : WaitsQueued(k) ~> ~WaitsQueued(k)

\* Stop() returns: every thread notices isStopping_ and leaves.
StopTerminates == stopper = "waiting" ~> stopper = "none"
===============================================================================
