# Application data management: TLA+ models, checks and proofs

The repository gives applications four ways to keep data: **preferences** (a
key-value map cached in memory and saved as an XML file), the **relational
database** (RDB, a layer over SQLite), two small **key-value stores** in C, and
**DataShare / DataAbility**, which give other applications access to such data.
JavaScript bindings (NAPI) sit on top of all of them.

## 1. Inventory

| Part | State | Operations | What makes it hard |
|---|---|---|---|
| Preferences task pool (`preferences/src/task_pool.cpp`, `task_queue.cpp`) | generic queue, queues by tag with a lock each, counters, threads, `genericThread_` | Start, Stop, Schedule (two), ShrinkMemory, the worker loop | condition variable, idle timeout, shrinking, raw pointers into a map |
| Preferences (`preferences_impl.cpp`) | map, modified keys, two generations, requests, file and backup | load, get, put, delete, clear, flush, flushSync, observers | two critical sections per flush, write order, crash between file operations, failing file operations, a wait without a common mutex |
| Preferences helper (`preferences_helper.cpp`) | static container of instances | get, delete, remove from cache | handles that outlive their entry |
| Preferences XML (`preferences_xml_utils.cpp`) | none | read, write | conversions that do not round-trip |
| RDB connection pool (`sqlite_connection_pool.cpp`) | readers, writer, idle counts | acquire, release, reopen, change key, restore | waiting threads, reopening while connections are in use |
| RDB sessions and transactions (`store_session.cpp`, `base_transaction.cpp`, `rdb_store_impl.cpp`) | session per thread with a use count, shared transaction stack, step query | begin, commit, roll back, nested, with observer, attach, backup, query by step | the stack is shared by all threads without a lock |
| RDB helper (`rdb_helper.cpp`) | store cache, version in the database | get, delete, clear | open callbacks outside the mutex |
| RDB connection, statement | prepared statement, step flag | prepare, bind, step, reset | reuse by SQL text |
| Result sets, shared block (`step_result_set.cpp`, `abs_shared_result_set.cpp`, `shared_block.cpp` ...) | cursor, window of rows, allocator | go to, get, fill, close | window edges, a full block |
| Predicates, SQL builder | clause strings, flags | builder calls | order of calls |
| DBM store (`dbm_kv_store.c`) | sum file of slots, value and backup files | get, put, delete, vacuum, checkpoint | crash at every file operation, 45 slots |
| Light store (`kv_store.c`, `kvstore_common.c`) | cache, count, files | get, set, delete, set directory | count and files in two steps |
| DataShare consumer | one connection for all helpers | create, every data call, release, observers | callbacks of connection and disconnection |
| DataShare provider | queue to the JavaScript thread | SyncCall | three second timeout against a late callback |
| NAPI bindings | pending calls, observers | asynchronous calls | lifetime of observers |

`PROJECT.json` lists every part with its status, and under `hazards` every
place where something can go wrong that a test hardly reaches.

## 2. Plan

1. *(done)* the task pool with its abstract specification, and preferences: the
   part with threads, crashes and a file protocol in one.
2. *(done)* RDB: connection pool, sessions and transactions over it; result sets
   with the shared block; the predicate builder and the values.
3. *(done)* both key-value stores, with a reset at every file operation.
4. *(done)* DataShare from the JavaScript call to the provider's extension and
   back: SyncCall, the shared connection, observers, predicates, values and
   result sets.
5. *(done)* proofs for the task pool (locks, refinement, counters, stalls),
   preferences (recovery, generations, durability), the connection pool, the store
   over it (use of the pool, sessions, uses of connections, step queries) and the
   observers.
6. Open: the helpers of preferences and RDB; the text of the XML file; prepared
   statements; proofs about the slots of the DBM store.

## 3. Modules

| Module | Models |
|---|---|
| `SerialExecutor` | what `Schedule(queueTag, task)` promises: tasks of a tag run in order, one at a time |
| `TaskPool` | the pool; a critical section of `tasksMutex_` is one action |
| `TaskPoolProofs` | theorems about the pool |
| `Preferences` | one file, its `PreferencesImpl`, client threads, the task that loads or writes, crashes |
| `PreferencesPool` | a `PreferencesImpl` whose tasks the threads of its `TaskPool` run, from Init to the destructor |
| `PreferencesProofs` | theorems about it: types, and that a complete content can be recovered |
| `PreferencesDurability` | theorems about it: generations on disk, and what FlushSync acknowledged |
| `ConnectionPool` | `SqliteConnectionPool`: readers, writer, reopening, change of key, restore |
| `ConnectionPoolProofs` | theorems about it |
| `RdbStore` | `RdbStoreImpl` and `StoreSession` over the pool: thread sessions, statements, transactions, step result sets |
| `RdbKinds` | the vocabulary of the proofs about it: the invariants and the kinds of steps |
| `RdbActionProofs` | lemmas: each action of the store is a step of one of the kinds |
| `RdbUseProofs` | lemmas: a step of each kind preserves the invariants |
| `RdbStoreProofs` | theorems about the store |
| `SharedBlock` | the block of shared memory that holds the rows of a result set: a bump allocator with chained row groups, in bytes |
| `SharedResultSet` | the result set of a query (a window of rows in a block), and the client of a data ability on the same memory |
| `DataShareResultSet` | the result set of a data share client: proxy, stub, bridge and block writer |
| `StepResultSet` | the result set of a query by step, used by several threads |
| `DbmKvStore` | the DBM store: sum file, value and backup files, recovery |
| `LightKvStore` | the light store in both builds: cache, count, files |
| `RdbPredicates` | `AbsPredicates`, `AbsRdbPredicates`, `RdbPredicates`, the SQL builder |
| `DataSharePredicates` | DataShare predicates, their parcel, `RdbUtils::ToPredicates` |
| `PredicateClients` | one query stated in the three classes of predicates, through the bindings and natively |
| `ShareValues` | a row of values on each path to the store |
| `ShareBatch` | a batch of operations: the builder, the parcel it is written into, and the stub that reads it |
| `DataShareProvider` | stub, `SyncCall`, JavaScript extension |
| `DataShareConsumer` | the JavaScript helper, the native helper, the shared connection, the proxy |
| `DataShareObservers` | `on` and `off` of the JavaScript helper, and the notifications |
| `DataShareObserversProofs` | theorems about them |
| `MCTaskPool`, `MCPreferences`, `MCPreferencesPool`, `MCRdbStore`, `MCKvStores`, `MCPredicates`, `MCDataShare`, `MCClients` | small instances for TLC |

### TaskPool

`pc[t]` says where a worker is: not there, spawned, about to take a task, in
`wait_for` or `wait` (each with a variant "was notified"), running a task, or
leaving. `hasTasks_` is a real condition variable: `notify_one` picks any waiter,
`notify_all` all of them, a thread may wake up for no reason, and `wait_for` may
report a timeout even though a notification came in between. `genericTasks`,
`queuedTasks`, `lockThread`, `mapTags`, the counters and the flags are the
members of the class. The body of a task is the time between two actions of its
thread. `idleThreads_` and `isGenericThreadIdle_` are only logged and left out.
`MaxTasks` bounds the tasks of a behaviour, `CountMax` stands for `INT_MAX`.

### Preferences

A critical section of `mutex_` is one action; each file operation of
`LoadFromDisk` and `WriteToDiskFile` is one action, since the process may die
between two of them and `WriteToDiskFile` holds no mutex. `LoadFromDisk` holds
`mutex_` throughout, so other critical sections wait (`MutexFree`). One task runs
at a time and in order: that is `SerialExecutor`, which `TaskPool` is proved to
implement. The constant `Faults` says which kinds of file operations may
fail; `failed` records those that did, and `overtaken` that some request was
scheduled after a newer one had been committed, so that each property can name
the circumstances under which it holds. A file
holds a complete content, a torn one, or is absent. Contents are numbered for
the properties only. `Crash` kills the process and opens the file again; what the
process wrote survives (there is no `fsync` in the code, and the loss of power is
not modelled). `FlushSync` reads `writeToDiskResult_` without a lock, a data
race: until the notification it may see either value.

### PreferencesPool

`Preferences` leaves open whether a thread takes a scheduled task. This module
composes it with an instance of `TaskPool` that has one tag: `ScheduleWrite` is the
client's step and `ScheduleQueued` of the pool in one, a step of `LoadFromDisk` or
`WriteToDiskFile` is taken only while a thread of the pool is running its task
(`TaskBody`), and that thread finishes its task only when the body has returned.
The other steps of a thread are those of `TaskPool`. `Close` is the destructor,
which calls Stop() when no client uses the instance any more; the threads run the
tasks that wait before they leave, if they find them. `deserted` is for the property only: a
thread has left since the last task was scheduled although a task was waiting.

### ConnectionPool and RdbStore

A critical section of `readMutex` or `writeMutex` is one action of the pool, and a
thread in `condition.wait` is one whose action is not enabled. `conn[s]` is the
connection of session `s`; connections are numbered so that a deleted one is never
confused with a new one. `ChangeDbFileForRestore` takes no mutex, so its test, its
closing and its opening are three steps. `damaged` records that a connection could
not be opened, that connections in use were closed, or that two restores met.

`RdbStore` extends the pool. A call of the store is one action up to the first
place where it waits for a connection, then one action per connection it takes or
gives back; the unprotected transaction stack is read and written where the code
does it. Statements are of four kinds (`select`, `update`, `ddl`, `pragma`), which
is what `GetSqlStatementType` and SQLite's own verdict tell apart; any may fail. Of
SQLite only the open transaction and the savepoints of a connection are kept. A use
of a null connection is the place `crashed`. A result set is not used by two threads
at the same moment, since it has no lock. `depth`, `owner` and `noted` are history:
the transactions the application believes open, the thread that has them, and the
circumstances below; `depth` stays 0 when more transactions are ended than were
begun. A call that is refused before it changes anything is left out. The code makes
a session whenever none is idle; here they come from the set `Sessions`, and
`SessionLeft` is the bound that one of them is left.

### Shared block and result sets

A block is a record with the offsets the code computes: the free offset, the
chain of row groups and the directories of cells. `AllocRow`, `Put` and the
others are operators from a block to a block, so that the result sets can use
them; `SharedBlock` also runs a block on its own. `groups` and `dirs` are what
lies at an offset, and the bytes themselves are left out; that no two live parts
share a byte is stated over the offsets.

`SharedResultSet` fills a block from the table (`FillSharedBlock` with its restart
when the block is full before the wanted row), moves the cursor with the tests of
`GoToRow` and `OnGo`, and keeps `rowNum` as the code does. The table may be
rewritten by another connection between two runs of the query; a run may fail to
prepare or at a row. For a data ability the client's proxy works on the same
block; for a data share provider (`DataShareResultSet`) the client has a block of
its own which the bridge fills cell by cell. The getters are operators: the
properties state what they would return at the cursor. A getter first asks for the
number of columns, for which the set begins a step query: it is refused for SQL that
does not begin with SEL (`rs.selects`) and within another step query of the thread
(`isInStepQuery`), which the refusal ends (`LocalColumns`). A proxy keeps the names
once it has them (`cur.named`). The provider's process may
die; a request that is not answered returns what the proxy makes of it. The locals
that the bridge leaves uninitialised when its set does not answer are any of
`Leftovers`.

`StepResultSet` has the statement, the position, the end flag, the count and the
thread that prepared it. The session and connection such a set holds are in
`RdbStore`.

### Key-value stores

`DbmKvStore`: what a call has still to write is the sequence `todo`; one step is
one change of the file system. A reset may come before any step, any write may
fail. Writes are durable in their order and reads do not fail. `promised[k]` is
the set of values the calls so far allow for a key. `LightKvStore`: one step is
one access to the file system or one change of the cache; in the posix build a
call holds the mutex, in the hal build calls of several tasks interleave.

### Predicates and values

Every method of the predicates classes is an operator on a record. A WHERE clause
is a sequence of tokens, a text a sequence of pieces; strings are not spelled out.
`PredicateClients` makes the same calls on the three classes and turns them into
statements, sends them to another process (`hops`) and extends them there. `odd`
records the circumstances under which the paths are known to differ.
`ShareValues` does the same for a row of values. `ShareBatch` writes the operations
of a batch item by item into a parcel of limited `room`, with the presence flags and
counts the code writes, and reads them from a position; each write says whether the
code looks at its result.

### DataShare

A call of the JavaScript helper goes through its start on the JavaScript thread,
the worker's execution, and its completion; each read or write of what the workers
share (`uri_`, `dataShareProxy_`, the connection) is a step. The request then has
the stub's checks, the hand-over of `SyncCall` with its entry, the wait that may
time out, the callback on the JavaScript thread of the provider, and the answer.
The ability manager is external: it connects and disconnects later than asked, may
fail, and reports a provider that was lost. Every layer's replacement value is
kept, so that it can be told what the script sees from what happened. Of
`DataShareObservers` see the module's comment; the observer manager is external.

## 4. Runs

| Run | Instance | Shows |
|---|---|---|
| `MCTaskPool` | 3 threads, 2 queues, 3 tasks, counters full at 2, fairness | the lock of a queue belongs to the thread that runs its task, and its entry stays in the map; counters are exact; a stall needs the last other thread to leave; generic tasks run; Stop returns; the pool implements `SerialExecutor` |
| `MCTaskPoolLost` | fairness, *violated* | a queued task may wait for ever |
| `MCPreferences` | 2 threads, 2 commits, 1 crash, any one kind of file operation may fail | a complete content can be recovered; what FlushSync acknowledged survives; the generation on disk never goes back |
| `MCPreferencesLive` | 1 client, a pool of up to 2 threads, the load and 3 flushes, 2 commits, no faults, fairness of the threads | each flushed modification reaches the disk, unless a thread left the pool while a task waited and nothing wakes the pool again |
| `MCPreferencesHang` | fairness, *violated* | a lost wakeup keeps FlushSync waiting |
| `MCRdbStore` | 2 threads, 4 sessions, 2 step result sets, no or 1 reader, 1 idle session, 4 calls | idle count and vector agree; a connection has one user and stays open; uses of connections have a reason; sessions are not shared; commits take effect; step statements run on a held connection; the store uses the pool as `PoolSpec` allows |
| `MCRdbRollBack` | 1 reader, *violated* | begin, begin, rollBack, commit leaves a transaction open |
| `MCKvStores` | DBM store: 2 keys, 2 values, 2 slots, 2 resets, 1 failing operation; light store, both builds: 2 keys, 1 item, cache of 2, 2 tasks, 4 calls, 1 failing write, 1 restart, 2 paths | the DBM store opens again and returns what was acknowledged; the light store reads back what was set, and its count is the number of files |
| `MCPredicates` | 2 columns, calls up to a cost of 5; rows of 4 puts; batches of 4 steps of a builder, 3 sizes of parcels | clauses are grammatical, with an argument per question mark; the three classes mean the same query, also after parcels; distributed queries match the local ones; a row arrives as it was given, and a batch is read in step with what was written |
| `data_share` | 2 calls, 2 helpers, 2 providers, 1 death, in three scenes | the script is told what happened; failures are told; threads do not use what is gone; calls reach the right provider; the process is connected as long as a helper needs it |
| `data_share_live` | the first two scenes with one or two kinds of calls, fairness | every call settles |
| `MCClients` | a block of 92 bytes (4 rows of a number), row groups of 2, 7 tables of up to 6 rows, two of them also without column names, 1 write, 1 failing run; 2 threads; 2 `on`, 1 `off`, 2 notifications | cells of a block are found again and not overwritten; getters deliver the row of the cursor, in the same process, for a data ability and for a data share client; the row count stays; a step result set agrees with its statement, and counting keeps its cursor; observers are not used after they are freed, and registrations match |

The violated properties are findings; `PROJECT.json` quotes the lines they
contradict.

**The conditions in the properties of preferences.** Each of them is needed;
without it TLC shows:

* `AckedDurable` without "no removal failed": the backup cannot be removed after
  a successful write (`preferences_impl.cpp:173`, only logged), FlushSync
  returns E_OK, and the next load puts the old backup in place of the new file.
* ... without "no restoring of the backup failed": the rename at load fails (line
  117), the map stays empty, and a flush, even one without modifications, finds
  no file, skips the comparison of generations (line 149), writes the empty map
  and deletes the backup.
* `DiskGenerationIsLatest` and `AckedDurable` without "overtaken => no write
  failed": two threads commit in one order and schedule in the other; the write
  of the newer generation fails and its file is removed; the older request then
  finds no file and is written.
* `NoTornRecovery` without "no removal failed": the torn file that a crash left is
  made the backup of the next write, and stays there because it cannot be
  removed; the next load puts it in place of the file.
* `FlushReachesDisk` without "the pool is stalled for ever": two tasks made a second
  thread; the next flush wakes both; the generic worker leaves the task to the other
  one (`task_pool.cpp:187`), whose `wait_for` reports a timeout, and it exits. The task
  waits until another flush, or for ever: the stall of `MCTaskPoolLost` seen from
  preferences. The destructor can lose a flush without any timeout: while the generic
  worker runs one task the next is scheduled, then Stop() is called; the second thread
  finds the queue locked and leaves, and the generic worker, done with its task and not
  yet alone, leaves the rest of the queue to others and goes too. Any stall that no
  leaving thread explains violates the property: if Schedule did not notify, for
  instance.

`Delete` and `Clear` do not wait for the load, unlike the `Put` functions: called
before it, they change the still empty map and the load brings the keys back
(line 592). The model has this behaviour; no property denies it.

**The circumstances in the properties of the store.** Each property names in
`noted` what must not have happened. Without it TLC shows:

* *mixed* (a transaction is begun with one pair of functions and ended with the
  other): `Commit` of a transaction with an observer leaves its connection in the
  session for ever; `EndTransaction` gives the session back once too often, and an
  idle session then has a connection (`UsesHaveReason`, `SessionsSeparate`).
* *overlap* (transaction calls of two threads): the stack is one for all threads,
  so a thread commits, or ends, what another began.
* *rollBack*: the finding of `MCRdbRollBack`.
* *inStepQuery* (a transaction function in a session with an open step query): with
  five calls, a savepoint and the COMMIT run on the reader, and the transaction of
  the writer stays open (`CommitTakesEffect`); EndTransaction ends the session under
  the result set (`StepStatementHeld`).
* *secondStepQuery*: the refusal of the second query ends the first
  (`step_result_set.cpp:334`), whose result set goes on.
* *otherThread*: a result set closed by another thread keeps its reader.

**The circumstances of the key-value stores.**

* `Durable`: a key that `RecoverItem` brought back from its backup is still marked
  invalid (the flag of the item is cleared, `dbm_kv_store.c:446`), so the next
  opening deletes it. A reset between the key and the magic number of a slot leaves
  a slot that is found again and not counted, and the next new key overwrites
  another; a delete counts down before it writes, and a step of it that fails leaves
  the count too low. A sum file of four bytes passes `InitKVStore` and is
  refused by `VacuumStore`.
* `ReadsBack`: calls of two tasks in the hal build overlap without a lock; the cache
  survives `UtilsSetEnv`; a write that fails leaves a truncated file, which may enter
  the cache in front of the old entry, and the hal build returns success.
* `CountTracks`: a restart of the hal build between the file and the count; a
  failing write of a new key; the same overlaps and moves.

**The circumstances of predicates and values.** The comments of the properties
list them; without each TLC shows a difference. The more surprising ones:

* an `AbsPredicates` object received from a parcel has lost `isNeedAnd` and
  `isSorted`, so extending it joins two conditions by nothing;
* a DataShare operation with an `int` that crossed a process boundary cannot be read
  (`std::get` throws), nor can a limit;
* `lessThanOrEqualTo` with an `int` records `greaterThanOrEqualTo`;
* the offset of a limit is ignored by `RdbUtils`;
* `settingMode_` is not initialised, so a raw clause may be refused;
* a text is cut at 1023 bytes by one binding and at 1027 by another;
* null is lost on every path of a row, byte arrays on two of them, and integers
  beyond 32 bits on all;
* `in` with an empty list of `int` throws in `DataSharePredicates` (the log reads its
  first element); an empty list of texts, which is what the binding passes, has no
  effect on either path. A list of numbers cannot be read by `RdbUtils`;
* a value that does not fit into the parcel of a batch is skipped without an error and
  the rest is sent (`BatchArrives`); at 3 * 1024 * 1024 back references all of them are
  left out on both sides.

**The circumstances of DataShare.**

* `Truthful`: `SyncCall` gave up waiting and the method ran later; the provider died
  after the method ran; `openFile` of the extension returned a negative descriptor, which the
  stub replaces by an error.
* `FailureTold`: the extension has no such method (the base class answers 0); the
  work could not be queued or was late (the stub answers its initial 0); a query was
  not permitted; an empty uri, whose error a promise does not carry.
* `NoFault`: a proxy that became null after its test needs a release, a closed
  connection or a lost provider; a freed helper needs its collection under a call; a
  dead frame, a callback with a freed entry and one that waits for its own mutex need a
  `SyncCall` that gave up. One fault needs nothing and has no clause: `Purge` locks the
  mutex of the entry, deletes the entry, and its lock then unlocks the freed mutex
  (`datashare_uv_queue.cpp:91`), on every call that ends in time and every one that
  could not be queued (`freedMutex` in the model).
* `RightProvider` and `ConnectedAsNeeded`: one connection serves all helpers, so the
  release of one closes it for all; a call overtaken by a release connects again; a
  release before the connection is made closes nothing.
* `Settles`: an extension method that never returns keeps the entry it is serving,
  whose mutex the wait of `SyncCall` needs again.

**The circumstances of result sets and observers.**

* `RowAtCursor`: a window that starts after row 0 is read at the absolute position,
  which gives another row, the one the property names, or an error. Reasons for a
  getter to fail after `GoToRow` returned E_OK: the set cannot tell its columns, and
  `CheckState` then finds every column index too high (`abs_shared_result_set.cpp:366`);
  the window starts late; a run that fails is taken for complete; another connection
  writes between two runs; the request to refill is lost with the provider, and
  `-errCode` as a bool is true. An empty text is an error for `GetString` in any case.
* `RowCountKept`: a later run counts only until the block is full and overwrites
  `rowNum` with that; a run that fails counts what it got.
* `RowAtClient`: the bridge takes the types of the window's first row for all rows
  (a null or a text becomes 0); a blob is written as text and ends at its first
  zero byte; and the circumstances of the provider's own window. Without column names
  the client gives its block no columns (`datashare_result_set.cpp:117`), the bridge
  goes by an uninitialised count (`rdb_result_set_bridge.cpp:55`), the first `AllocRow`
  fails and `GoToRow` may still return E_OK; then, and after a lost request, the
  property says that every getter fails.
* `StepAgrees`: the end flag stays set when the query is run again without a reset.
  `StepCountKeepsCursor`: the table has changed since the run began.
* `NoStaleObserver`: `off` overtakes the worker of its `on`; a notification is sent
  and has not arrived when `off` completes; a second one arrives before the first
  was delivered, whose worker clears the mark of both; the provider is not reached
  by the unregistration; the helper is collected.
* `RegistryAgrees`: the same without the notifications; and a work that the loop
  refuses leaves the mark for which `off` waits.

**Bounds.** Three threads are one generic worker and two that compete; two
queues make the map order matter; three tasks with counters full at two reach
the limit. Two clients are enough to reorder commit and schedule; a file that is
there at the start and two commits give an old, a current and a newer generation; after one crash the
process starts from any state of the disk that the protocol can leave. One key
and one value are enough because the map is written as a whole and a content is
told apart by its number. One kind of fault (`MaxFaults`) per behaviour, any
number of times; two kinds multiply the states by ten. The pool may stop or run
out of tasks, therefore its runs and `MCPreferencesLive` do not check deadlock; the
other preferences runs do. There, the load and a flush make the second thread, the
next flush can be left behind, and the last one finds a stalled pool.
Four calls of the store are enough for begin, begin, a call of the other thread and
commit; the invariants of the proofs hold for any number (section 5). A session
that waits for a connection which nobody gives back really waits (a step result set
that is never closed, a closed pool), so the store's runs do not check deadlock.
Two slots of the DBM store make a full store and one that must vacuum; two resets
are one during a call and one during the recovery from it. The light store with one
item is full after the first key. A cost of 5 (`equalTo`, OR, AND, parentheses, USING, ON, a distributed operation
and a hop cost one, other calls two) is enough for a group with two conditions and
an OR in it, or for two conditions, a hop and an extension. In DataShare each scene bounds which helpers, providers and faults
meet (`MCDataShare`): all three together have too many states; each pair of
interfering calls meets in one of them. A block of four rows and tables of up to six
rows give a first window, a later one, and a row that fits in neither behind the
others; row groups of two make a second group necessary. Two `on` calls give one observer that
`off` finds and one that it does not. These components may all stop, so their runs
do not check deadlock.

**Fairness.** Workers are not starved by the scheduler, the body of a task
returns, and `wait_for` ends after its period: weak fairness of each worker's
step. That a queued task is taken is not assumed: in `MCPreferencesLive` fairness is that
of the threads of the pool. Only `MCPreferencesHang` assumes that tasks are run
(`FairSpec` of `Preferences`), where it makes the violation stronger: FlushSync hangs
even then. A thread inside Flush or FlushSync goes on. Nothing obliges anybody to call
an operation, and no spurious wakeup is assumed. In DataShare each thread that has
something to do does it: the steps of a call, of the provider for a request, and of
the ability manager, weakly fair each; the return of an extension method is not
assumed, nor that a provider lives.

## 5. Proofs

All for arbitrary constants.

* `TaskPoolProofs`: `TypeCorrect` (with the bounds of the counters);
  `LockCorrect`, from the type invariant: `LockInv` is inductive together with
  `TypeOK`, each step either touches no lock or takes or releases that of the
  thread's own task; `Serial` follows, since one lock has one owner;
  `Implements`, that each step is a step of `SerialExecutor` or invisible, with
  the extra invariant that a running task's identity is a scheduled one.
  `Counted`: the counters are sizes of sets, so each action is shown to move one
  task or one thread from one set to another; the extra invariant (`Tagged`) is
  that a running thread has a task of some queue or a generic one, else finishing
  it would count down neither. `StallFree`, from `Counted` and `StallInv`: while a
  queue is runnable some thread is awake, or nobody sleeps except the generic
  worker; with the exact count of live threads this leaves at most one.
* `PreferencesProofs`: `TypeCorrect`; `NoTorn`, for any faults. `NoTornRecovery` alone is not inductive. The strengthening
  has three parts: `FlowInv` (each synchronous request is waited for by its
  owner and by nobody else, and answered once), `DiskInv` (what each step of a
  task knows of the file, for example that it is absent before a save) and
  `AckInv` (a complete content is on disk, or nothing was loaded, written,
  reported or acknowledged yet). The last two are claimed as long as no removal
  of a file failed, and `FailedGrows` says that this once lost stays lost.
  `NextDisk` shows that no step destroys the last
  complete content.
* `PreferencesDurability`: `LatestOnDisk` and `FlushDurable`, for any clients,
  commits, crashes and faults. Neither is inductive, because what may be written
  depends on what was numbered, committed and queued before. `GenerationInv` holds
  unconditionally: the n-th generation of a process is the content `Base + n`
  (`NumberInv`), one number stands for one map wherever it is found, in memory, in
  a request or on disk (`AgreeInv`), requests that were not overtaken are in the
  order of their generations (`OrderInv`), and without a failed write the file is
  missing only while it is being replaced (`WrittenInv`). `LatestOnDisk` follows by
  looking at the one step that sets the generation, `WriteFinish`. `DurableInv`
  holds as long as the file system did what `AckedDurable` asks: where the contents
  are at each step of a task (`StageInv`), a backup that outlives its write is older
  than every waiting request (`BackupInv`), whatever was acknowledged, reported, or
  is about to be, can be recovered (`PromiseInv`), and nothing newer than what was
  written can be (`NewestInv`). `RecoveredGrows` is the heart: what can be recovered
  changes only by `WriteFinish`, and never to something older.
* `DataShareObserversProofs`: `NoStale` and `RegistryCorrect`, for any number of
  calls, callbacks, uris and notifications. `PlaceInv`, always: an `on` is in
  `registerInstances_` or in the list of exactly one `off`, only a valid one gets
  there, and only such a one can be notified. Under it each property has an
  invariant that is claimed until one of the named circumstances arises, after which
  it stays lost: `LiveInv` (what can be notified is held, what is held or has a
  notification to deliver is marked and not released), `RegistryInv` (a call is in
  the registry exactly between its own execution and that of its `off`) and
  `FreedInv` (what nobody holds is freed, or a worker that will free it is on its
  way). Without `FreedInv` for calls that are still under way `RegistryAgrees` is
  not inductive, since it only speaks of idle states.
* `ConnectionPoolProofs`: `ReaderCount` and `Exclusive`, from `PoolInv`, for any
  number of readers and any finite set of sessions. Exactness of the count alone is
  not inductive, because of what a reopening leaves behind: `VectorInv` says that
  the readers in the vector are distinct, open and nobody's, `HeldInv` and
  `WriterInv` the same of those in use, `CountInv` that the vector is longer than
  the idle count only by readers that were out at the last reopening and have come
  back (at most `readConnectionCount`), `ClosedInv` that nobody gets a connection
  between the two halves of a restore. Fresh connections differ from all known ones
  by their number. The proofs assume nothing beyond the finiteness of the sessions.
* `RdbStoreProofs`, for any threads, sessions, step result sets, readers, idle
  sessions and calls (finite sets of threads, sessions and result sets). The store
  has 27 actions and nine invariants, so the argument goes through kinds of steps
  (`RdbKinds`): `Kind` says what a step does to the session of its thread, to the
  connection of that session and to the step query (a call begins, acquires, ends,
  keeps ...), `Effect` what it does to the transactions (a call begins, fails or
  ends one, one goes onto the stack, keeps its connection, is left). Every action is
  a step of some kind with some effect (`NextEffect` in `RdbActionProofs`), and each
  kind preserves each invariant (`StepNext`, `QuietNext` and `ReasonNext` in
  `RdbUseProofs`).
  `StoreUsesPool`, from `CallInv` alone (a session has one place, a thread in a call
  has one): each step of the store is a step of the pool or leaves it alone, so
  `ReaderCount` and `Exclusive` carry over (`StorePool`).
  `StatementHeld`, from `StepInv`: the query of an open result set is that of its
  thread's session, which has a use of its connection besides that of a running
  call, and the thread a use of its session besides that of the call. Without these
  the end of an ordinary statement could give the connection back.
  `SeparateSessions` and `ReasonForUse`, from `QuietInv` and `ReasonInv`, claimed
  until the named circumstance arises: the count of a session is exactly the sum of
  its call, its query and its transaction with an observer; a thread has at least
  as many uses of its session as calls, open result sets and, if it owns the
  transaction with an observer, transactions on the stack; that owner's session is
  the one which keeps the connection. The last is what makes it inductive:
  `EndTransaction` gives the session back twice, and only the stack tells that it
  was taken as often.
  `CommitEffect`, from `CommitInv`: at least as many transactions are counted as open
  as there are on the stack, and one if the write connection is in a transaction; the
  stack is numbered from 0; a COMMIT is executed only for the outermost transaction
  and pops what it has seen. That is not inductive on its own: a COMMIT must reach the
  write connection and not a reader, for which `ReadInv` counts the uses of each
  session exactly as long as it reads (a transaction call outside a step query finds
  no reader in its session and is given the writer), and the writer which a reopening
  brings is in no transaction, since those in one have been opened before
  (`OpenedInv`). Here each action is shown to have one of seven outcomes for the stack
  and SQLite (`NextOutcome`), and each outcome to preserve `CommitInv` (`CommitNext`).
  `ConnectedInv` and `PrepareInv` (a count is positive exactly while there is a
  connection; the result set of a running PrepareStep is used by nobody else) hold
  always.

Only model-checked: liveness (out of the prover's reach); the predicates, whose
clauses are folds over the calls made so far, so that what they give for every input
takes induction over data; and the modules on key-value stores, values, DataShare
calls and result sets, whose properties compare what the paths give for the values of
a small instance. These have no theorems.

## 6. Not modelled

* The helpers of preferences and RDB: containers of instances under one mutex; what
  goes wrong there depends on the application's callbacks and handles.
* The text of the XML file, and the prepared-statement cache.
* Of the store: `Backup` and `Attach` (sequences of statements), the extra exchange
  in `ExecuteGetString` for PRAGMA, distributed tables and synchronisation, the store
  configuration. Opening and closing all connections of a pool is one step.
* Of the task pool: `Report()`. Of preferences: observers, getters, the result of
  `Schedule` (the pool is not stopped while its owner lives), loss of power.
* Of the DBM store: the posix build, which refuses every call, and
  `DBM_KVStoreControl`. `DBM_DeleteKVStore` is called only for a store that is not open.
* Of result sets: the names of columns (only whether they can be had); doubles, which
  are handled like integers; the fill by a patched SQLite (`FillSharedBlockOpt`), whose
  order of callbacks is not in this repository. It is given `numColumns`, which nobody
  sets, in place of `columnNum` (`share_block.cpp:102`), so that a block it resets has
  no columns.
* Of predicates and values: column aliases, `GetValueBucketObject` (called by nobody).
* Of DataShare: what a provider does with a batch (the base class returns no results),
  the life cycle of the extension,
  the death recipient of the connection (never added, since `isSystemCaller_` is never
  set), and torn reads of the unprotected pointers, whose assignments are atomic here.
* The bindings of preferences and of the RDB store, which pass their arguments to one
  native call each, and `napi_uv_queue.cpp`.

SQLite, libxml2, the operating system, the binder and the ability framework are
external.
