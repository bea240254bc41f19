--------------------------- MODULE PreferencesPool ----------------------------
(***************************************************************************)
(* A PreferencesImpl on its own TaskPool.  Preferences takes for granted    *)
(* that some thread runs the scheduled tasks in order; here the threads of  *)
(* the pool do it, with their timeouts and their exits.  All tasks of one   *)
(* PreferencesImpl have the same queue tag.                                 *)
(*                                                                          *)
(* The destructor stops the pool.  A crash, which ends the pool as well, is *)
(* the matter of Preferences and is left out here.                          *)
(***************************************************************************)
EXTENDS Preferences

CONSTANTS Threads, NoThread, NumTags, MaxThreads, MinThreads, CountMax, MaxTasks

\* One tag, MIN_TP_THREADS = 1, and MaxQueue never keeps a flush waiting.
ASSUME PoolAssumption ==
    /\ NumTags = 1
    /\ MinThreads = 1
    /\ MaxQueue >= MaxTasks - 1

VARIABLES
    genericTasks, queuedTasks, lockThread, mapTags, genericTaskCount,
    queuedTaskCount, isStarted, isStopping, genericThread, curThreads, pc, task,
    stopper, scheduled,
    deserted   \* a thread has left while a task waited, and none came since

Pool == INSTANCE TaskPool

poolVars == <<genericTasks, queuedTasks, lockThread, mapTags, genericTaskCount,
              queuedTaskCount, isStarted, isStopping, genericThread, curThreads,
              pc, task, stopper, scheduled>>
pooledVars == <<vars, poolVars, deserted>>

Tag == 1   \* "PreferencesImpl"

TaskWaits == queuedTasks[Tag] # <<>> /\ lockThread[Tag] = NoThread

-------------------------------------------------------------------------------
(* PreferencesImpl::Init: Start() has made a thread, and StartLoadFromDisk  *)
(* has scheduled the first task.  Which thread it is makes no difference.   *)
PooledInit ==
    /\ Init
    /\ genericTasks = <<>>
    /\ queuedTasks = [q \in Pool!Tags |-> <<1>>]
    /\ lockThread = [q \in Pool!Tags |-> NoThread]
    /\ mapTags = {Tag}
    /\ genericTaskCount = 0
    /\ queuedTaskCount = 1
    /\ isStarted = TRUE
    /\ isStopping = FALSE
    /\ genericThread = NoThread
    /\ curThreads = 1
    /\ pc = [t \in Threads |-> IF t = CHOOSE u \in Threads : TRUE THEN "spawned" ELSE "none"]
    /\ task = [t \in Threads |-> Pool!NoTask]
    /\ stopper = "none"
    /\ scheduled = 1
    /\ deserted = FALSE

-------------------------------------------------------------------------------
(* The clients.                                                             *)

\* Bound: the pool takes the tasks of all the flushes that have begun.
RoomForTask == scheduled + Cardinality({c \in Clients : cpc[c] = "schedule"}) < MaxTasks

\* Bound: the map is changed no more after the last commit.
CommitsLeft == commits < MaxCommits

\* A client has the instance until the destructor runs.
ClientCall(c) ==
    /\ ~isStopping
    /\ \/ CommitsLeft /\ \E k \in Keys, v \in Values : PutPreferencesValue(c, k, v)
       \/ CommitsLeft /\ \E k \in Keys : Delete(c, k)
       \/ CommitsLeft /\ Clear(c)
       \/ RoomForTask /\ \E sync \in BOOLEAN : commitToMemory(c, sync)
       \/ SpuriousWakeup(c)
    /\ UNCHANGED <<poolVars, deserted>>

\* WriteToDiskFile is scheduled under the tag.
ScheduleWrite(c) ==
    /\ Schedule(c)
    /\ Pool!ScheduleQueued(Tag)
    /\ deserted' = FALSE

PooledFlushing(c) ==
    \/ ScheduleWrite(c)
    \/ (CheckHandled(c) \/ Block(c) \/ Return(c)) /\ UNCHANGED <<poolVars, deserted>>

\* The destructor, when no thread uses the instance any more.
Close ==
    /\ \A c \in Clients : cpc[c] = "idle"
    /\ Pool!Stop
    /\ UNCHANGED <<vars, deserted>>

CloseReturn == Pool!StopReturn /\ UNCHANGED <<vars, deserted>>

-------------------------------------------------------------------------------
(* The threads of the pool.                                                 *)

\* The task that a thread executes has not returned, or not begun.
BodyLeft == wpc # "idle" \/ Len(queue) > Len(queuedTasks[Tag])

\* task(): a step of LoadFromDisk or WriteToDiskFile.
TaskBody(t) ==
    /\ pc[t] = "running"
    /\ BodyLeft
    /\ Worker
    /\ UNCHANGED <<poolVars, deserted>>

ThreadStep(t) ==
    /\ pc[t] = "running" => ~BodyLeft
    /\ Pool!WorkerStep(t)
    /\ deserted' = (deserted \/ (pc[t] = "exit" /\ TaskWaits))
    /\ UNCHANGED vars

ThreadSpuriousWakeup(t) == Pool!SpuriousWakeup(t) /\ UNCHANGED <<vars, deserted>>

-------------------------------------------------------------------------------
PooledNext ==
    \/ \E c \in Clients : ClientCall(c) \/ PooledFlushing(c)
    \/ Close
    \/ CloseReturn
    \/ \E t \in Threads : TaskBody(t) \/ ThreadStep(t) \/ ThreadSpuriousWakeup(t)

(* No thread is stopped by the scheduler for good: a thread of the pool, in *)
(* the pool's code or in its task's body, and a thread inside Flush or      *)
(* FlushSync.  wait_for ends after its period.  Nothing says that a waiting *)
(* task is taken.                                                           *)
PooledFairSpec ==
    /\ PooledInit /\ [][PooledNext]_pooledVars
    /\ WF_pooledVars(CloseReturn)
    /\ \A t \in Threads : WF_pooledVars(TaskBody(t) \/ ThreadStep(t))
    /\ \A c \in Clients : WF_pooledVars(PooledFlushing(c))

-------------------------------------------------------------------------------
(* Properties.                                                              *)

\* A task waits that a leaving thread left behind, and no thread is awake.
Stalled == TaskWaits /\ deserted /\ \A t \in Threads : Pool!Asleep(t)

\* A flushed modification reaches the disk, also through the flushes that
\* WriteToDiskFile skips because a newer one is coming, and when the instance is
\* destroyed after the flush: unless a thread of the pool left while a task
\* waited (after a timeout, or because the pool is stopping), and for ever after
\* nobody schedules another task and no thread wakes up.
FlushReachesDisk ==
    \A v \in 1..MaxCommits : <>[]Stalled \/ (commits >= v ~> Recovered.ver >= v)
===============================================================================
