---------------------------- MODULE SerialExecutor ----------------------------
(***************************************************************************)
(* What TaskPool::Schedule(queueTag, task) promises to its callers          *)
(* (task_pool.h: "Schedule tasks one by one"): the tasks of one tag run in  *)
(* the order they were scheduled, and never two of them at the same time.   *)
(* PreferencesImpl relies on exactly this when it hands LoadFromDisk and    *)
(* WriteToDiskFile to the tag "PreferencesImpl".                            *)
(***************************************************************************)
EXTENDS Sequences

CONSTANTS Tags,     \* the queue tags
          TaskIds,  \* the identities of tasks
          Idle      \* "no task of this tag is running"

VARIABLES pending,  \* pending[q]: the tasks of q that wait, oldest first
          running   \* running[q]: the task of q that runs, or Idle

vars == <<pending, running>>

Init ==
    /\ pending = [q \in Tags |-> <<>>]
    /\ running = [q \in Tags |-> Idle]

\* A client schedules a task on q.
Submit(q) ==
    \E k \in TaskIds :
        /\ pending' = [pending EXCEPT ![q] = Append(@, k)]
        /\ UNCHANGED running

\* The oldest task of q starts; no other task of q may be running.
Begin(q) ==
    /\ running[q] = Idle
    /\ pending[q] # <<>>
    /\ running' = [running EXCEPT ![q] = Head(pending[q])]
    /\ pending' = [pending EXCEPT ![q] = Tail(@)]

\* The running task of q ends.
End(q) ==
    /\ running[q] # Idle
    /\ running' = [running EXCEPT ![q] = Idle]
    /\ UNCHANGED pending

Next == \E q \in Tags : Submit(q) \/ Begin(q) \/ End(q)

Spec == Init /\ [][Next]_vars
===============================================================================
