-------------------------- MODULE PreferencesProofs ---------------------------
(***************************************************************************)
(* Proofs about Preferences, for any clients, keys and values and any       *)
(* number of commits and crashes.                                           *)
(***************************************************************************)
EXTENDS Preferences, TLAPS

-------------------------------------------------------------------------------
(* The queue of tasks.                                                      *)

\* Scheduling puts a request at the end of the queue, and changes no other.
LEMMA AppendFacts ==
    ASSUME NEW q \in Seq(Requests), NEW r \in Requests
    PROVE  /\ Len(q) \in Nat /\ Len(Append(q, r)) = Len(q) + 1
           /\ \A i \in 1..Len(q) : Append(q, r)[i] = q[i]
           /\ Append(q, r)[Len(q) + 1] = r
OBVIOUS

\* Starting a task takes the first request, and the others move up.
LEMMA TailFacts ==
    ASSUME NEW q \in Seq(Requests), q # <<>>
    PROVE  /\ Len(q) \in Nat /\ Len(q) > 0 /\ Len(Tail(q)) = Len(q) - 1
           /\ Head(q) = q[1] /\ q[1] \in Requests
           /\ \A i \in 1..Len(Tail(q)) : i + 1 \in 1..Len(q) /\ Tail(q)[i] = q[i + 1]
<1>1. Len(q) \in Nat /\ Len(q) > 0 /\ Len(Tail(q)) = Len(q) - 1
  OBVIOUS
<1>2. \A i \in 1..Len(Tail(q)) : Tail(q)[i] = q[i + 1]
  OBVIOUS
<1>3. Head(q) = q[1] /\ q[1] \in Requests
  BY <1>1
<1>4. \A i \in 1..Len(Tail(q)) : i + 1 \in 1..Len(q)
  BY <1>1
<1> QED
  BY <1>1, <1>2, <1>3, <1>4

-------------------------------------------------------------------------------
(* The inductive invariant.                                                 *)

\* The states of the running task in which its request is not answered yet.
Active == {"backup", "save", "saving", "finish", "discard", "result"}

\* c waits for an answer that was not given yet.
Waits(c) == cpc[c] \in {"check", "block", "blocked"} /\ ~handled[c]

\* r is the request that its owner waits for, if it is a synchronous one.
Awaited(r) == r.sync => r.owner \in Clients /\ req[r.owner] = r /\ Waits(r.owner)

\* Two requests are not waited for by the same client.
Apart(r, s) == ~(r.sync /\ s.sync /\ r.owner = s.owner)

QueueInv ==
    /\ \A i \in 1..Len(queue) : queue[i].content.ver >= 0 /\ Awaited(queue[i])
    /\ \A i, j \in 1..Len(queue) : i # j => Apart(queue[i], queue[j])

JobInv ==
    wpc \in Active =>
        /\ job.content.ver >= 0
        /\ Awaited(job)
        /\ \A i \in 1..Len(queue) : Apart(queue[i], job)

ClientInv ==
    \A c \in Clients :
        /\ cpc[c] # "idle" => req[c].content.ver >= 0
        /\ cpc[c] = "schedule" => req[c].owner = c
        /\ cpc[c] \in {"idle", "schedule"} => ~handled[c] /\ result[c] = "E_ERROR"
        /\ cpc[c] = "return" => handled[c]

\* What each step of a task knows of the file.
DiskInv ==
    /\ wpc = "loadRename" => file = Absent
    /\ wpc = "loadRead" /\ backup # Absent => file = Absent
    /\ wpc = "save" => file = Absent
    /\ wpc = "saving" => file = Torn
    /\ wpc = "discard" => ~Complete(file)
    /\ wpc = "finish" => Complete(file)

Durable == Complete(Recovered)

\* The request of an instance that has committed nothing holds what was loaded.
OnlyLoaded(r) == r.gen = 0 /\ r.content.ver > 0

\* FlushSync will return E_OK to c, for a numbered content.
Answered(c) == result[c] = "E_OK" /\ req[c].content.ver > 0

\* Nothing was acknowledged, written, loaded, reported or is about to be.
NoPromise ==
    /\ ~(acked.ver > 0)
    /\ ~(diskGen > 0)
    /\ ~(memVer > 0 /\ memGen = 0)
    /\ \A i \in 1..Len(queue) : ~OnlyLoaded(queue[i])
    /\ wpc \in Active => ~OnlyLoaded(job)
    /\ \A c \in Clients : ~OnlyLoaded(req[c])
    /\ ~(wpc = "result" /\ job.sync /\ outcome = "E_OK" /\ job.content.ver > 0)
    /\ \A c \in Clients : ~Answered(c)

\* Whatever is built on a content on disk finds it there.
AckInv == Durable \/ NoPromise

FlowInv == QueueInv /\ JobInv /\ ClientInv

-------------------------------------------------------------------------------
(* Type correctness.                                                        *)

\* The constant contents and the empty request are what they are meant to be.
LEMMA ContentFacts ==
    /\ Empty \in Maps
    /\ Absent \in Contents /\ Torn \in Contents
    /\ Absent # Torn /\ ~Complete(Absent) /\ ~Complete(Torn)
    /\ NoRequest \in Requests /\ NoRequest.content.ver < 0 /\ ~NoRequest.sync
<1>1. Empty \in Maps
  BY DEF Empty, Maps
<1>2. Absent \in Contents /\ Torn \in Contents
  BY <1>1, BoundAssumption DEF Absent, Torn, Contents
<1>3. Absent # Torn /\ ~Complete(Absent) /\ ~Complete(Torn)
  BY DEF Absent, Torn, Complete
<1>4. NoRequest \in Requests
  BY <1>2 DEF NoRequest, Requests
<1>5. NoRequest.content.ver < 0 /\ ~NoRequest.sync
  BY DEF NoRequest, Absent
<1> QED
  BY <1>1, <1>2, <1>3, <1>4, <1>5

\* A new PreferencesImpl has a well-typed state.
LEMMA InitType == Init => TypeOK
<1> SUFFICES ASSUME Init PROVE TypeOK
  OBVIOUS
<1>1. file \in Contents /\ acked \in Contents /\ backup \in Contents
  <2>1. CASE file = Absent
    <3>1. acked = [ver |-> 0, map |-> Empty]
      BY <2>1 DEF Init
    <3> QED
      BY <2>1, <3>1, ContentFacts, BoundAssumption DEF Init, Contents
  <2>2. CASE file # Absent
    <3>1. PICK m \in Maps : file = [ver |-> 1, map |-> m]
      BY <2>2 DEF Init
    <3>2. acked = file
      BY <2>2 DEF Init
    <3> QED
      BY <3>1, <3>2, ContentFacts, BoundAssumption DEF Init, Contents
  <2> QED
    BY <2>1, <2>2
<1>2. memVer \in 0..MaxCommits /\ commits \in 0..MaxCommits /\ crashes \in 0..MaxCrashes
  BY BoundAssumption DEF Init
<1>3. /\ loaded \in BOOLEAN
      /\ handled \in [Clients -> BOOLEAN]
      /\ result \in [Clients -> {"E_OK", "E_ERROR"}]
      /\ req \in [Clients -> Requests]
      /\ cpc \in [Clients -> {"idle", "schedule", "check", "block", "blocked", "return"}]
  BY ContentFacts, Zenon DEF Init
<1>4. queue \in Seq(Requests) /\ memGen \in Nat /\ diskGen \in Nat
  BY DEF Init
<1>5. map \in Maps /\ modified \in SUBSET Keys
  BY ContentFacts DEF Init
<1>7. failed \in SUBSET FaultKinds /\ overtaken \in BOOLEAN
  BY Zenon DEF Init
<1>6. job \in Requests /\ outcome \in {"E_OK", "E_ERROR"} /\ wpc = "load"
  BY ContentFacts DEF Init
<1> QED
  BY <1>1, <1>2, <1>3, <1>4, <1>5, <1>6, <1>7 DEF TypeOK

\* A file operation that fails is recorded.
LEMMA FailsType ==
    ASSUME TypeOK, NEW kind, Fails(kind) \/ Succeeds
    PROVE  failed' \in SUBSET FaultKinds /\ failed \subseteq failed'
BY FaultAssumption DEF Fails, Succeeds, TypeOK

\* Removing a file removes it, or leaves it as it is and is recorded.
LEMMA RemovedFacts ==
    ASSUME TypeOK, NEW content \in Contents, NEW content2, Removed(content, content2)
    PROVE  /\ content2 \in Contents
           /\ failed' \in SUBSET FaultKinds /\ failed \subseteq failed'
           /\ content2 = Absent \/ content2 = content
           /\ "remove" \notin failed' => content2 = Absent
<1>1. CASE content2 = Absent /\ Succeeds
  BY <1>1, ContentFacts, FailsType DEF Succeeds
<1>2. CASE content2 = content /\ Fails("remove")
  BY <1>2, FailsType DEF Fails
<1> QED
  BY <1>1, <1>2 DEF Removed

\* So has one whose LoadFromDisk takes a step ...
LEMMA LoadType == TypeOK /\ LoadFromDisk => TypeOK'
<1> SUFFICES ASSUME TypeOK, LoadFromDisk PROVE TypeOK'
  OBVIOUS
<1> USE DEF memoryVars, diskVars, workVars, clientVars, eventVars
<1>1. CASE LoadBegin
  <2>1. file' \in Contents /\ failed' \in SUBSET FaultKinds
    BY <1>1, RemovedFacts DEF LoadBegin, TypeOK
  <2> QED
    BY <1>1, <2>1 DEF LoadBegin, TypeOK
<1>2. CASE LoadRename
  <2>1. failed' \in SUBSET FaultKinds
    BY <1>2, FailsType DEF LoadRename
  <2> QED
    BY <1>2, <2>1, ContentFacts DEF LoadRename, TypeOK
<1>3. CASE LoadRead
  <2>1. map' \in Maps /\ memVer' \in 0..MaxCommits
    BY <1>3, BoundAssumption DEF LoadRead, TypeOK, Contents, Complete, Maps
  <2> QED
    BY <1>3, <2>1 DEF LoadRead, TypeOK
<1> QED
  BY <1>1, <1>2, <1>3 DEF LoadFromDisk

\* ... or whose WriteToDiskFile does ...
LEMMA WriteType == TypeOK /\ WriteToDiskFile => TypeOK'
<1> SUFFICES ASSUME TypeOK, WriteToDiskFile PROVE TypeOK'
  OBVIOUS
<1> USE DEF memoryVars, diskVars, workVars, clientVars, eventVars
<1>1. CASE WriteBegin
  <2>1. job' \in Requests /\ queue' \in Seq(Requests)
    BY <1>1 DEF WriteBegin, TypeOK
  <2> QED
    BY <1>1, <2>1 DEF WriteBegin, TypeOK
<1>2. CASE WriteBackup
  <2>1. /\ failed' \in SUBSET FaultKinds
        /\ file' \in Contents /\ backup' \in Contents
    BY <1>2, ContentFacts, RemovedFacts, FailsType DEF WriteBackup, TypeOK
  <2> QED
    BY <1>2, <2>1 DEF WriteBackup, TypeOK
<1>3. CASE SaveBegin
  <2>1. failed' \in SUBSET FaultKinds
    BY <1>3, FailsType DEF SaveBegin
  <2> QED
    BY <1>3, <2>1, ContentFacts DEF SaveBegin, TypeOK
<1>4. CASE SaveEnd
  <2>1. failed' \in SUBSET FaultKinds
    BY <1>4, FailsType DEF SaveEnd
  <2> QED
    BY <1>4, <2>1 DEF SaveEnd, TypeOK, Requests
<1>5. CASE WriteFinish
  <2>1. diskGen' \in Nat
    BY <1>5 DEF WriteFinish, TypeOK, Requests
  <2>2. backup' \in Contents /\ failed' \in SUBSET FaultKinds
    BY <1>5, RemovedFacts DEF WriteFinish, TypeOK
  <2> QED
    BY <1>5, <2>1, <2>2 DEF WriteFinish, TypeOK
<1>6. CASE WriteDiscard
  <2>1. file' \in Contents /\ failed' \in SUBSET FaultKinds
    BY <1>6, RemovedFacts DEF WriteDiscard, TypeOK
  <2> QED
    BY <1>6, <2>1 DEF WriteDiscard, TypeOK
<1>7. CASE SetHandled
  <2>1. handled' \in [Clients -> BOOLEAN] /\ result' \in [Clients -> {"E_OK", "E_ERROR"}]
    BY <1>7, Zenon DEF SetHandled, TypeOK
  <2> QED
    BY <1>7, <2>1 DEF SetHandled, TypeOK
<1>8. CASE Notify
  <2>1. cpc' \in [Clients -> {"idle", "schedule", "check", "block", "blocked", "return"}]
    BY <1>8, Zenon DEF Notify, TypeOK
  <2> QED
    BY <1>8, <2>1, ContentFacts DEF Notify, TypeOK
<1> QED
  BY <1>1, <1>2, <1>3, <1>4, <1>5, <1>6, <1>7, <1>8 DEF WriteToDiskFile

\* ... or one that a client thread calls ...
LEMMA ClientType ==
    ASSUME TypeOK, NEW c \in Clients, Client(c)
    PROVE  TypeOK'
<1> USE DEF memoryVars, diskVars, workVars, clientVars, eventVars
<1>1. ASSUME NEW k \in Keys, NEW v \in Values, PutPreferencesValue(c, k, v)
      PROVE  TypeOK'
  <2>1. map' \in Maps
    BY <1>1 DEF PutPreferencesValue, TypeOK, Maps
  <2> QED
    BY <1>1, <2>1 DEF PutPreferencesValue, TypeOK
<1>2. ASSUME NEW k \in Keys, Delete(c, k) PROVE TypeOK'
  <2>1. map' \in Maps
    BY <1>2 DEF Delete, TypeOK, Maps
  <2>2. modified' \in SUBSET Keys
    BY <1>2 DEF Delete, TypeOK
  <2> QED
    BY <1>2, <2>1, <2>2 DEF Delete, TypeOK
<1>3. CASE Clear(c)
  <2>1. modified' \in SUBSET Keys
    BY <1>3 DEF Clear, TypeOK
  <2> QED
    BY <1>3, <2>1, ContentFacts DEF Clear, TypeOK
<1>4. ASSUME NEW sync \in BOOLEAN, commitToMemory(c, sync) PROVE TypeOK'
  <2>1. memGen' \in Nat /\ memVer' \in 0..MaxCommits /\ commits' \in 0..MaxCommits
    BY <1>4, BoundAssumption DEF commitToMemory, TypeOK
  <2>2. [ver |-> memVer', map |-> map] \in Contents
    BY <2>1, BoundAssumption DEF Contents, TypeOK
  <2>3. [gen |-> memGen', sync |-> sync, owner |-> c,
         content |-> [ver |-> memVer', map |-> map]] \in Requests
    BY <2>1, <2>2 DEF Requests
  <2>4. req' \in [Clients -> Requests]
    BY <1>4, <2>3 DEF commitToMemory, TypeOK
  <2> QED
    BY <1>4, <2>1, <2>4 DEF commitToMemory, TypeOK
<1>5. CASE Schedule(c)
  <2>1. queue' \in Seq(Requests) /\ req' \in [Clients -> Requests]
    BY <1>5, ContentFacts DEF Schedule, TypeOK
  <2>2. cpc' \in [Clients -> {"idle", "schedule", "check", "block", "blocked", "return"}]
    BY <1>5 DEF Schedule, TypeOK
  <2>3. overtaken' \in BOOLEAN
    BY <1>5 DEF Schedule
  <2> QED
    BY <1>5, <2>1, <2>2, <2>3 DEF Schedule, TypeOK
<1>6. CASE CheckHandled(c) \/ Block(c) \/ SpuriousWakeup(c)
  <2>1. cpc' \in [Clients -> {"idle", "schedule", "check", "block", "blocked", "return"}]
    BY <1>6 DEF CheckHandled, Block, SpuriousWakeup, TypeOK
  <2> QED
    BY <1>6, <2>1 DEF CheckHandled, Block, SpuriousWakeup, TypeOK
<1>7. CASE Return(c)
  <2>1. acked' \in Contents
    BY <1>7 DEF Return, TypeOK, Requests
  <2>2. /\ handled' \in [Clients -> BOOLEAN]
        /\ result' \in [Clients -> {"E_OK", "E_ERROR"}]
        /\ req' \in [Clients -> Requests]
        /\ cpc' \in [Clients -> {"idle", "schedule", "check", "block", "blocked", "return"}]
    BY <1>7, ContentFacts DEF Return, TypeOK
  <2> QED
    BY <1>7, <2>1, <2>2 DEF Return, TypeOK
<1> QED
  BY <1>1, <1>2, <1>3, <1>4, <1>5, <1>6, <1>7 DEF Client, Flushing

\* ... or the one that a restarted process makes.
LEMMA CrashType == TypeOK /\ Crash => TypeOK'
<1> SUFFICES ASSUME TypeOK, Crash PROVE TypeOK'
  OBVIOUS
<1>1. crashes' \in 0..MaxCrashes /\ memVer' \in 0..MaxCommits
  BY BoundAssumption DEF Crash, TypeOK
<1>2. /\ handled' \in [Clients -> BOOLEAN]
      /\ result' \in [Clients -> {"E_OK", "E_ERROR"}]
      /\ req' \in [Clients -> Requests]
      /\ cpc' \in [Clients -> {"idle", "schedule", "check", "block", "blocked", "return"}]
  BY ContentFacts DEF Crash
<1>3. /\ map' \in Maps /\ modified' \in SUBSET Keys
  BY ContentFacts DEF Crash
<1>4. queue' \in Seq(Requests) /\ job' \in Requests /\ memGen' \in Nat /\ diskGen' \in Nat
  BY ContentFacts DEF Crash
<1>5. loaded' \in BOOLEAN
  BY Zenon DEF Crash
<1> QED
  BY <1>1, <1>2, <1>3, <1>4, <1>5 DEF Crash, TypeOK, diskVars

\* Every step keeps the types.
LEMMA NextType == TypeOK /\ [Next]_vars => TypeOK'
<1>1. TypeOK /\ UNCHANGED vars => TypeOK'
  BY DEF vars, TypeOK, memoryVars, diskVars, workVars, clientVars, eventVars
<1> QED
  BY <1>1, LoadType, WriteType, ClientType, CrashType DEF Next, Worker

\* The variables of the cache, the disk and the clients always have their types.
THEOREM TypeCorrect == Spec => []TypeOK
BY InitType, NextType, PTL DEF Spec

-------------------------------------------------------------------------------
(* Requests and the clients that wait for them.                             *)

\* A step that leaves requests and clients alone and activates no task.
LEMMA FlowFrame ==
    ASSUME FlowInv, UNCHANGED <<queue, job, clientVars>>, wpc' \in Active => wpc \in Active
    PROVE  FlowInv'
BY DEF FlowInv, QueueInv, JobInv, ClientInv, Awaited, Apart, Waits, clientVars

\* A client that waits for nothing may move without disturbing what others wait for.
LEMMA FlowClient ==
    ASSUME FlowInv, UNCHANGED <<queue, job, wpc>>, ClientInv',
           \A r \in Requests : Awaited(r) => Awaited(r)',
           queue \in Seq(Requests), job \in Requests
    PROVE  FlowInv'
<1>1. QueueInv'
  BY DEF FlowInv, QueueInv, Apart
<1>2. JobInv'
  BY DEF FlowInv, JobInv, Apart
<1> QED
  BY <1>1, <1>2 DEF FlowInv

\* Nobody waits for a new PreferencesImpl.
LEMMA InitFlow == Init => FlowInv
<1> SUFFICES ASSUME Init PROVE FlowInv
  OBVIOUS
<1>1. queue = <<>> /\ wpc = "load" /\ wpc \notin Active
  BY DEF Init, Active
<1>2. \A c \in Clients : cpc[c] = "idle" /\ ~handled[c] /\ result[c] = "E_ERROR"
  BY DEF Init
<1> QED
  BY <1>1, <1>2 DEF FlowInv, QueueInv, JobInv, ClientInv

\* Flush and FlushSync queue one request and wait for that one only.
LEMMA ClientFlow ==
    ASSUME TypeOK, FlowInv, NEW c \in Clients, Client(c)
    PROVE  FlowInv'
<1> USE DEF clientVars, workVars
<1>1. CASE \E k \in Keys, v \in Values : PutPreferencesValue(c, k, v)
  BY <1>1, FlowFrame DEF PutPreferencesValue
<1>2. CASE (\E k \in Keys : Delete(c, k)) \/ Clear(c)
  BY <1>2, FlowFrame DEF Delete, Clear
<1>3. ASSUME NEW sync \in BOOLEAN, commitToMemory(c, sync) PROVE FlowInv'
  <2>1. ASSUME NEW r \in Requests, Awaited(r) PROVE Awaited(r)'
    BY <1>3, <2>1 DEF commitToMemory, Awaited, Waits, TypeOK
  <2>2. memVer' >= 0
    <3>1. memVer' \in {memVer, commits + 1}
      BY <1>3 DEF commitToMemory
    <3>2. memVer \in 0..MaxCommits /\ commits \in 0..MaxCommits
      BY DEF TypeOK
    <3> QED
      BY <3>1, <3>2
  <2>3. /\ req'[c].content.ver = memVer' /\ req'[c].owner = c /\ cpc'[c] = "schedule"
        /\ \A d \in Clients : d # c => req'[d] = req[d] /\ cpc'[d] = cpc[d]
    BY <1>3 DEF commitToMemory, TypeOK
  <2>4. ClientInv'
    <3>1. cpc[c] = "idle" /\ UNCHANGED <<handled, result>>
      BY <1>3 DEF commitToMemory
    <3>2. ~handled[c] /\ result[c] = "E_ERROR"
      BY <3>1 DEF ClientInv, FlowInv
    <3> QED
      BY <2>2, <2>3, <3>1, <3>2 DEF ClientInv, FlowInv
  <2> QED
    BY <1>3, <2>1, <2>4, FlowClient DEF commitToMemory, TypeOK
<1>4. CASE Schedule(c)
  <2> DEFINE n == Len(queue)
  <2>1. /\ queue \in Seq(Requests) /\ req[c] \in Requests
        /\ queue' = Append(queue, req[c])
        /\ cpc[c] = "schedule"
        /\ cpc' = [cpc EXCEPT ![c] = IF req[c].sync THEN "check" ELSE "idle"]
        /\ req' = [req EXCEPT ![c] = IF @.sync THEN @ ELSE NoRequest]
        /\ UNCHANGED <<job, wpc, handled, result>>
    BY <1>4 DEF Schedule, TypeOK
  <2>2. /\ Len(queue') = n + 1 /\ n \in Nat
        /\ \A i \in 1..n : queue'[i] = queue[i]
        /\ queue'[n + 1] = req[c]
    BY <2>1
  <2>3. /\ req[c].content.ver >= 0 /\ req[c].owner = c
        /\ ~handled[c] /\ result[c] = "E_ERROR"
    BY <2>1 DEF FlowInv, ClientInv
  <2>4. ASSUME NEW r, Awaited(r) PROVE Awaited(r)' /\ Apart(r, req[c])
    BY <2>1, <2>3, <2>4 DEF Awaited, Waits, Apart, TypeOK
  <2>6. ASSUME NEW r, r = req[c] PROVE Awaited(r)'
    <3>1. CASE r.sync
      <4>1. req' = req /\ cpc'[c] = "check" /\ ~handled'[c]
        BY <2>1, <2>3, <2>6, <3>1 DEF TypeOK
      <4> QED
        BY <2>3, <2>6, <4>1 DEF Awaited, Waits
    <3> QED
      BY <3>1 DEF Awaited
  <2>7. QueueInv'
    <3>1. ASSUME NEW i \in 1..Len(queue') PROVE queue'[i].content.ver >= 0 /\ Awaited(queue[i])'
      <4>1. CASE i \in 1..n
        BY <2>2, <2>4, <4>1 DEF FlowInv, QueueInv
      <4>2. CASE i = n + 1
        BY <2>2, <2>3, <2>6, <4>2
      <4> QED
        BY <2>2, <4>1, <4>2
    <3>2. ASSUME NEW i \in 1..Len(queue'), NEW j \in 1..Len(queue'), i # j
          PROVE  Apart(queue'[i], queue'[j])
      <4>1. CASE i \in 1..n /\ j \in 1..n
        BY <2>2, <3>2, <4>1 DEF FlowInv, QueueInv
      <4>2. CASE i = n + 1 /\ j \in 1..n
        BY <2>2, <2>4, <4>2 DEF FlowInv, QueueInv, Apart
      <4>3. CASE i \in 1..n /\ j = n + 1
        BY <2>2, <2>4, <4>3 DEF FlowInv, QueueInv
      <4> QED
        BY <2>2, <3>2, <4>1, <4>2, <4>3
    <3> QED
      BY <3>1, <3>2 DEF QueueInv, Apart
  <2>8. JobInv'
    <3> SUFFICES ASSUME wpc \in Active
                 PROVE  /\ job.content.ver >= 0 /\ Awaited(job)'
                        /\ \A i \in 1..Len(queue') : Apart(queue'[i], job)
      BY <2>1 DEF JobInv, Apart
    <3>1. job.content.ver >= 0 /\ Awaited(job) /\ \A i \in 1..n : Apart(queue[i], job)
      BY DEF FlowInv, JobInv
    <3>2. ASSUME NEW r, r = job PROVE Awaited(r)' /\ Apart(req[c], job)
      BY <2>4, <3>1, <3>2 DEF Apart
    <3> QED
      BY <2>1, <2>2, <3>1, <3>2 DEF Awaited, Waits
  <2>9. ClientInv'
    BY <2>1, <2>3 DEF FlowInv, ClientInv, TypeOK
  <2> QED
    BY <2>7, <2>8, <2>9 DEF FlowInv
<1>5. CASE CheckHandled(c) \/ Block(c) \/ SpuriousWakeup(c)
  <2>1. /\ UNCHANGED <<queue, job, wpc, req, handled, result>>
        /\ cpc[c] \in {"check", "block", "blocked"}
        /\ \/ cpc' = [cpc EXCEPT ![c] = "return"] /\ handled[c]
           \/ \E p \in {"check", "block", "blocked"} : cpc' = [cpc EXCEPT ![c] = p]
    BY <1>5 DEF CheckHandled, Block, SpuriousWakeup
  <2>2. ASSUME NEW r \in Requests, Awaited(r) PROVE Awaited(r)'
    BY <2>1, <2>2 DEF Awaited, Waits, TypeOK
  <2>3. ClientInv'
    BY <2>1 DEF FlowInv, ClientInv, TypeOK
  <2> QED
    BY <2>1, <2>2, <2>3, FlowClient DEF TypeOK
<1>6. CASE Return(c)
  <2>1. ASSUME NEW r \in Requests, Awaited(r) PROVE Awaited(r)'
    BY <1>6, <2>1 DEF Return, Awaited, Waits, TypeOK
  <2>2. ClientInv'
    BY <1>6 DEF Return, FlowInv, ClientInv, TypeOK
  <2> QED
    BY <1>6, <2>1, <2>2, FlowClient DEF Return, TypeOK
<1> QED
  BY <1>1, <1>2, <1>3, <1>4, <1>5, <1>6 DEF Client, Flushing

\* WriteToDiskFile answers the request it took from the queue, and no other.
LEMMA WorkerFlow == TypeOK /\ FlowInv /\ Worker => FlowInv'
<1> SUFFICES ASSUME TypeOK, FlowInv, Worker PROVE FlowInv'
  OBVIOUS
<1> USE DEF clientVars, workVars
<1>1. CASE LoadFromDisk
  BY <1>1, FlowFrame DEF LoadFromDisk, LoadBegin, LoadRename, LoadRead, Active
<1>2. CASE WriteBackup \/ SaveBegin \/ SaveEnd \/ WriteFinish \/ WriteDiscard
  BY <1>2, FlowFrame DEF WriteBackup, SaveBegin, SaveEnd, WriteFinish, WriteDiscard, Active
<1>3. CASE WriteBegin
  <2>1. /\ queue \in Seq(Requests) /\ queue # <<>>
        /\ job' = queue[1] /\ queue' = Tail(queue)
        /\ UNCHANGED clientVars
    <3>1. queue \in Seq(Requests)
      BY DEF TypeOK
    <3> QED
      BY <1>3, <3>1 DEF WriteBegin
  <2>2. /\ Len(queue') = Len(queue) - 1 /\ Len(queue) \in Nat /\ Len(queue) > 0
        /\ \A i \in 1..Len(queue') : queue'[i] = queue[i + 1]
    BY <2>1, TailFacts
  <2>3. ASSUME NEW i \in 1..Len(queue') PROVE i + 1 \in 1..Len(queue) /\ i + 1 # 1
    BY <2>2
  <2>4. QueueInv'
    <3>1. ASSUME NEW i \in 1..Len(queue') PROVE queue'[i].content.ver >= 0 /\ Awaited(queue[i])'
      <4>1. queue'[i] = queue[i + 1] /\ i + 1 \in 1..Len(queue)
        BY <2>2, <2>3
      <4>2. queue[i + 1].content.ver >= 0 /\ Awaited(queue[i + 1])
        BY <4>1 DEF FlowInv, QueueInv
      <4> QED
        BY <2>1, <4>1, <4>2 DEF Awaited, Waits
    <3>2. ASSUME NEW i \in 1..Len(queue'), NEW j \in 1..Len(queue'), i # j
          PROVE  Apart(queue'[i], queue'[j])
      <4>1. i + 1 # j + 1
        BY <3>2, <2>2
      <4>2. queue'[i] = queue[i + 1] /\ queue'[j] = queue[j + 1]
        BY <2>2
      <4>3. i + 1 \in 1..Len(queue) /\ j + 1 \in 1..Len(queue)
        BY <2>3
      <4>4. \A m, n \in 1..Len(queue) : m # n => Apart(queue[m], queue[n])
        BY DEF FlowInv, QueueInv
      <4> QED
        BY <4>1, <4>2, <4>3, <4>4
    <3> QED
      BY <3>1, <3>2 DEF QueueInv, Apart
  <2>5. JobInv'
    <3>1. 1 \in 1..Len(queue)
      BY <2>2
    <3>2. job'.content.ver >= 0 /\ Awaited(job)'
      BY <2>1, <3>1 DEF FlowInv, QueueInv, Awaited, Waits
    <3>3. \A i \in 1..Len(queue') : Apart(queue'[i], job')
      BY <2>1, <2>2, <2>3, <3>1 DEF FlowInv, QueueInv
    <3> QED
      BY <3>2, <3>3 DEF JobInv, Apart
  <2>6. ClientInv'
    BY <2>1 DEF FlowInv, ClientInv
  <2> QED
    BY <2>4, <2>5, <2>6 DEF FlowInv
<1>4. CASE SetHandled
  <2>1. CASE ~job.sync
    BY <1>4, <2>1, FlowFrame DEF SetHandled, Active
  <2>2. CASE job.sync
    <3>1. /\ wpc \in Active /\ wpc' = "notify"
          /\ UNCHANGED <<queue, cpc, req>>
          /\ handled' = [handled EXCEPT ![job.owner] = TRUE]
          /\ result' = [result EXCEPT ![job.owner] = outcome]
      BY <1>4, <2>2 DEF SetHandled, Active
    <3>2. /\ Waits(job.owner) /\ job.owner \in Clients
          /\ \A i \in 1..Len(queue) : queue[i].sync => queue[i].owner # job.owner
      BY <2>2, <3>1 DEF FlowInv, JobInv, Awaited, Apart
    <3>3. QueueInv'
      BY <3>1, <3>2 DEF FlowInv, QueueInv, Awaited, Waits, Apart, TypeOK
    <3>4. ClientInv'
      BY <3>1, <3>2 DEF FlowInv, ClientInv, Waits, TypeOK
    <3> QED
      BY <3>1, <3>3, <3>4 DEF FlowInv, JobInv, Active
  <2> QED
    BY <2>1, <2>2
<1>5. CASE Notify
  <2>1. /\ wpc' = "idle" /\ UNCHANGED <<queue, req, handled, result>>
        /\ \A c \in Clients : \/ cpc'[c] = cpc[c]
                              \/ cpc[c] = "blocked" /\ cpc'[c] = "check"
    BY <1>5 DEF Notify, TypeOK
  <2>2. QueueInv'
    BY <2>1 DEF FlowInv, QueueInv, Awaited, Waits, Apart
  <2>3. ClientInv'
    BY <2>1 DEF FlowInv, ClientInv
  <2> QED
    BY <2>1, <2>2, <2>3 DEF FlowInv, JobInv, Active
<1> QED
  BY <1>1, <1>2, <1>3, <1>4, <1>5 DEF Worker, WriteToDiskFile

\* After a crash nobody waits for anything.
LEMMA CrashFlow == Crash => FlowInv'
<1> SUFFICES ASSUME Crash PROVE FlowInv'
  OBVIOUS
<1>1. queue' = <<>> /\ wpc' = "load" /\ wpc' \notin Active
  BY DEF Crash, Active
<1>2. \A c \in Clients : cpc'[c] = "idle" /\ ~handled'[c] /\ result'[c] = "E_ERROR"
  BY DEF Crash
<1>3. QueueInv'
  BY <1>1 DEF QueueInv
<1>4. JobInv'
  BY <1>1 DEF JobInv
<1>5. ClientInv'
  BY <1>2 DEF ClientInv
<1> QED
  BY <1>3, <1>4, <1>5 DEF FlowInv

-------------------------------------------------------------------------------
(* The file and its backup.                                                 *)

\* A file that is there at the start is complete and has no backup.
LEMMA InitDisk == Init => DiskInv /\ AckInv
<1> SUFFICES ASSUME Init PROVE DiskInv /\ AckInv
  OBVIOUS
<1>1. CASE file = Absent
  <2>1. acked.ver = 0
    BY <1>1 DEF Init
  <2>2. NoRequest.content.ver = -2
    BY DEF NoRequest, Absent
  <2>3. \A c \in Clients : ~OnlyLoaded(req[c]) /\ ~Answered(c)
    <3>1. \A c \in Clients : req[c] = NoRequest
      BY DEF Init
    <3> QED
      BY <2>2, <3>1 DEF OnlyLoaded, Answered
  <2> QED
    <3>1. queue = <<>> /\ wpc = "load" /\ diskGen = 0 /\ memVer = 0
      BY DEF Init
    <3>2. DiskInv
      BY <3>1 DEF DiskInv
    <3>3. ~(acked.ver > 0) /\ ~(diskGen > 0) /\ ~(memVer > 0) /\ wpc \notin Active
      BY <2>1, <3>1 DEF Active
    <3>4. \A i \in 1..Len(queue) : ~OnlyLoaded(queue[i])
      BY <3>1
    <3> QED
      BY <2>3, <3>1, <3>2, <3>3, <3>4 DEF AckInv, NoPromise
<1>2. CASE file # Absent
  <2>1. Complete(file) /\ backup = Absent
    <3>1. PICK m \in Maps : file = [ver |-> 1, map |-> m]
      BY <1>2 DEF Init
    <3>2. backup = Absent
      BY DEF Init
    <3> QED
      BY <3>1, <3>2 DEF Complete
  <2> QED
    BY <2>1 DEF Init, DiskInv, AckInv, Durable, Recovered
<1> QED
  BY <1>1, <1>2

\* What has failed stays recorded.
LEMMA FailedGrows ==
    ASSUME TypeOK, Next
    PROVE  failed \subseteq failed'
<1> USE DEF eventVars
<1>1. CASE LoadFromDisk
  BY <1>1, FailsType, RemovedFacts DEF LoadFromDisk, LoadBegin, LoadRename, LoadRead, TypeOK
<1>2. CASE WriteBackup
  BY <1>2, FailsType, RemovedFacts, Zenon DEF WriteBackup, TypeOK
<1>3. CASE SaveBegin \/ SaveEnd
  BY <1>3, FailsType DEF SaveBegin, SaveEnd
<1>4. CASE WriteFinish \/ WriteDiscard
  BY <1>4, RemovedFacts DEF WriteFinish, WriteDiscard, TypeOK
<1>5. CASE WriteBegin \/ SetHandled \/ Notify \/ Crash
  BY <1>5, Zenon DEF WriteBegin, SetHandled, Notify, Crash
<1>6. CASE \E c \in Clients : Client(c)
  BY <1>6 DEF Client, Flushing, PutPreferencesValue, Delete, Clear, commitToMemory,
     Schedule, CheckHandled, Block, SpuriousWakeup, Return
<1> QED
  BY <1>1, <1>2, <1>3, <1>4, <1>5, <1>6 DEF Next, Worker, WriteToDiskFile

\* As long as no removal of a file failed, each step of a task leaves the file as
\* the next one expects it, and a content that could be recovered still can be,
\* or a newer one.
LEMMA NextDisk ==
    ASSUME "remove" \notin failed', TypeOK, FlowInv, DiskInv, Next
    PROVE  DiskInv' /\ (Durable => Durable')
<1> USE DEF DiskInv, Durable, Recovered
<1>1. CASE LoadBegin
  BY <1>1, ContentFacts, RemovedFacts, Zenon DEF LoadBegin, TypeOK
<1>2. CASE LoadRename
  BY <1>2, ContentFacts, Zenon DEF LoadRename, diskVars
<1>3. CASE LoadRead
  BY <1>3 DEF LoadRead, diskVars
<1>4. CASE WriteBegin
  BY <1>4, Zenon DEF WriteBegin, diskVars
<1>5. CASE WriteBackup
  BY <1>5, ContentFacts, RemovedFacts DEF WriteBackup, diskVars, TypeOK
<1>6. CASE SaveBegin
  BY <1>6, ContentFacts, Zenon DEF SaveBegin
<1>7. CASE SaveEnd
  <2>1. Complete(job.content)
    BY <1>7 DEF SaveEnd, FlowInv, JobInv, Active, Complete
  <2> QED
    BY <1>7, <2>1, ContentFacts, Zenon DEF SaveEnd
<1>8. CASE WriteFinish
  BY <1>8, RemovedFacts DEF WriteFinish, TypeOK
<1>9. CASE WriteDiscard
  BY <1>9, ContentFacts, RemovedFacts DEF WriteDiscard, TypeOK
<1>10. CASE SetHandled \/ Notify
  BY <1>10 DEF SetHandled, Notify, diskVars
<1>11. CASE Crash
  BY <1>11 DEF Crash, diskVars
<1>12. CASE \E c \in Clients : Client(c)
  <2>1. UNCHANGED <<wpc, file, backup>>
    BY <1>12, Zenon DEF Client, Flushing, PutPreferencesValue, Delete, Clear, commitToMemory,
       Schedule, CheckHandled, Block, SpuriousWakeup, Return, diskVars, workVars
  <2> QED
    BY <2>1
<1> QED
  BY <1>1, <1>2, <1>3, <1>4, <1>5, <1>6, <1>7, <1>8, <1>9, <1>10, <1>11, <1>12, Zenon
     DEF Next, Worker, LoadFromDisk, WriteToDiskFile

-------------------------------------------------------------------------------
(* What was acknowledged can be recovered.                                  *)

\* The empty request holds no numbered content.
LEMMA NoRequestLoaded == ~(NoRequest.content.ver > 0)
BY DEF NoRequest, Absent

\* A client that commits copies a memory that came from the disk, or makes a
\* new generation; one that returns was answered.
LEMMA ClientAck ==
    ASSUME TypeOK, FlowInv, NoPromise, NEW c \in Clients, Client(c)
    PROVE  NoPromise'
<1> USE DEF workVars, diskVars, clientVars, memoryVars
<1>1. CASE \/ \E k \in Keys, v \in Values : PutPreferencesValue(c, k, v)
           \/ \E k \in Keys : Delete(c, k)
           \/ Clear(c) \/ CheckHandled(c) \/ Block(c) \/ SpuriousWakeup(c)
  <2>1. UNCHANGED <<acked, diskGen, memVer, memGen, queue, wpc, job, outcome, req, result>>
    BY <1>1 DEF PutPreferencesValue, Delete, Clear, CheckHandled, Block, SpuriousWakeup
  <2> QED
    BY <2>1 DEF NoPromise, OnlyLoaded, Answered
<1>2. ASSUME NEW sync \in BOOLEAN, commitToMemory(c, sync) PROVE NoPromise'
  <2>1. UNCHANGED <<acked, diskGen, queue, wpc, job, outcome, result>>
    BY <1>2 DEF commitToMemory
  <2>2. ~(memVer' > 0 /\ memGen' = 0)
    <3>1. ~(memVer > 0 /\ memGen = 0) /\ memGen \in Nat
      BY Zenon DEF NoPromise, TypeOK
    <3>2. UNCHANGED <<memVer, memGen>> \/ memGen' = memGen + 1
      BY <1>2 DEF commitToMemory
    <3> QED
      BY <3>1, <3>2
  <2>3. /\ req'[c].gen = memGen' /\ req'[c].content.ver = memVer'
        /\ \A d \in Clients : d # c => req'[d] = req[d]
    BY <1>2 DEF commitToMemory, TypeOK
  <2>4. result[c] # "E_OK"
    BY <1>2, Zenon DEF commitToMemory, FlowInv, ClientInv
  <2>5. \A d \in Clients : ~OnlyLoaded(req'[d]) /\ ~Answered(d)'
    BY <2>1, <2>2, <2>3, <2>4 DEF NoPromise, OnlyLoaded, Answered
  <2> QED
    BY <2>1, <2>2, <2>5, Zenon DEF NoPromise, OnlyLoaded
<1>3. CASE Schedule(c)
  <2>1. /\ UNCHANGED <<acked, diskGen, memVer, memGen, wpc, job, outcome, result>>
        /\ queue' = Append(queue, req[c])
        /\ queue \in Seq(Requests) /\ req[c] \in Requests
        /\ \A d \in Clients : req'[d] = req[d] \/ req'[d] = NoRequest
    BY <1>3 DEF Schedule, TypeOK
  <2>2. \A i \in 1..Len(queue') : queue'[i] = req[c] \/ (i \in 1..Len(queue) /\ queue'[i] = queue[i])
    <3>0. queue \in Seq(Requests) /\ req[c] \in Requests /\ queue' = Append(queue, req[c])
      BY <2>1, Zenon
    <3>1. Len(queue') = Len(queue) + 1 /\ Len(queue) \in Nat
      BY <3>0, AppendFacts
    <3>2. queue'[Len(queue) + 1] = req[c] /\ \A i \in 1..Len(queue) : queue'[i] = queue[i]
      BY <3>0, AppendFacts
    <3> QED
      BY <3>1, <3>2
  <2>3. \A i \in 1..Len(queue') : ~OnlyLoaded(queue'[i])
    BY <2>2 DEF NoPromise
  <2>4. \A d \in Clients : ~OnlyLoaded(req'[d]) /\ ~Answered(d)'
    BY <2>1, NoRequestLoaded DEF NoPromise, OnlyLoaded, Answered
  <2> QED
    BY <2>1, <2>3, <2>4, Zenon DEF NoPromise, OnlyLoaded
<1>4. CASE Return(c)
  <2>1. /\ UNCHANGED <<diskGen, memVer, memGen, queue, wpc, job, outcome>>
        /\ \A d \in Clients : \/ req'[d] = req[d] /\ result'[d] = result[d]
                              \/ req'[d] = NoRequest
        /\ acked' = acked \/ (acked' = req[c].content /\ result[c] = "E_OK")
    BY <1>4 DEF Return, TypeOK
  <2>2. ~(acked'.ver > 0)
    BY <2>1, Zenon DEF NoPromise, Answered
  <2>3. \A d \in Clients : ~OnlyLoaded(req'[d]) /\ ~Answered(d)'
    BY <2>1, NoRequestLoaded DEF NoPromise, OnlyLoaded, Answered
  <2> QED
    BY <2>1, <2>2, <2>3 DEF NoPromise, OnlyLoaded
<1> QED
  BY <1>1, <1>2, <1>3, <1>4 DEF Client, Flushing

\* A task reports success after it has written its content, or when the content
\* of its request is on disk already.
LEMMA WorkerAck ==
    ASSUME "remove" \notin failed', TypeOK, FlowInv, DiskInv, ~Durable, NoPromise, Worker
    PROVE  AckInv'
<1> USE DEF workVars, diskVars, clientVars, memoryVars
<1>1. CASE LoadBegin \/ LoadRename
  BY <1>1, Zenon DEF LoadBegin, LoadRename, AckInv, NoPromise, OnlyLoaded, Answered, Active
<1>2. CASE LoadRead
  <2>1. ~Complete(file)
    BY <1>2, ContentFacts DEF LoadRead, DiskInv, Durable, Recovered
  <2> QED
    BY <1>2, <2>1 DEF LoadRead, AckInv, NoPromise, OnlyLoaded, Answered, Active
<1>3. CASE WriteBegin
  <2>1. /\ queue \in Seq(Requests) /\ queue # <<>>
        /\ job' = queue[1] /\ queue' = Tail(queue)
        /\ UNCHANGED <<acked, diskGen, memVer, memGen, req, result>>
        /\ wpc' = "result" => ~CheckRequestValidForStateGeneration(queue[1])
    <3>1. queue \in Seq(Requests)
      BY DEF TypeOK
    <3> QED
      BY <1>3, <3>1 DEF WriteBegin
  <2>2. /\ Len(queue') = Len(queue) - 1 /\ Len(queue) \in Nat /\ Len(queue) > 0
        /\ \A i \in 1..Len(queue') : queue'[i] = queue[i + 1]
    BY <2>1, TailFacts
  <2>3. 1 \in 1..Len(queue) /\ \A i \in 1..Len(queue') : i + 1 \in 1..Len(queue)
    BY <2>2
  <2>4. ~OnlyLoaded(queue[1]) /\ \A i \in 1..Len(queue') : ~OnlyLoaded(queue'[i])
    BY <2>2, <2>3 DEF NoPromise
  <2>5. queue[1] \in Requests /\ diskGen = 0
    <3>1. diskGen \in Nat
      BY DEF TypeOK
    <3>2. ~(diskGen > 0)
      BY DEF NoPromise
    <3> QED
      BY <2>1, <2>3, <3>1, <3>2
  <2>6. ~(wpc' = "result" /\ job'.sync /\ job'.content.ver > 0)
    <3> SUFFICES ASSUME wpc' = "result", queue[1].sync, queue[1].content.ver > 0
                 PROVE  FALSE
      BY <2>1
    <3>1. PICK n \in Nat : n = queue[1].gen
      BY <2>5 DEF Requests
    <3>2. n # 0
      BY <2>4, <3>1 DEF OnlyLoaded
    <3>3. ~(0 < n)
      BY <2>1, <2>5, <3>1 DEF CheckRequestValidForStateGeneration
    <3> QED
      BY <3>2, <3>3
  <2>7. \A c \in Clients : ~OnlyLoaded(req'[c]) /\ ~Answered(c)'
    BY <2>1 DEF NoPromise, Answered
  <2>8. ~(acked'.ver > 0) /\ ~(diskGen' > 0) /\ ~(memVer' > 0 /\ memGen' = 0)
    BY <2>1 DEF NoPromise
  <2> QED
    BY <2>1, <2>4, <2>6, <2>7, <2>8 DEF AckInv, NoPromise, OnlyLoaded
<1>4. CASE WriteBackup \/ SaveBegin \/ SaveEnd \/ WriteDiscard
  <2>1. /\ UNCHANGED <<acked, diskGen, memVer, memGen, queue, job, req, result>>
        /\ wpc \in Active /\ (wpc' = "result" => outcome' = "E_ERROR")
    BY <1>4, Zenon DEF WriteBackup, SaveBegin, SaveEnd, WriteDiscard, Active
  <2> QED
    BY <2>1 DEF AckInv, NoPromise, OnlyLoaded, Answered
<1>5. CASE WriteFinish
  <2>1. Complete(file) /\ file' = file
    BY <1>5 DEF WriteFinish, DiskInv
  <2>2. backup \in Contents /\ Removed(backup, backup')
    BY <1>5 DEF WriteFinish, TypeOK
  <2>3. backup' = Absent
    BY <2>2, RemovedFacts
  <2> QED
    BY <2>1, <2>3 DEF AckInv, Durable, Recovered, Complete
<1>6. CASE SetHandled
  <2>1. job.sync => req[job.owner] = job /\ job.owner \in Clients
    BY <1>6, Zenon DEF SetHandled, FlowInv, JobInv, Active, Awaited
  <2>2. \A c \in Clients : ~Answered(c)'
    BY <1>6, <2>1 DEF SetHandled, NoPromise, Answered, TypeOK
  <2> QED
    BY <1>6, <2>2, Zenon DEF SetHandled, AckInv, NoPromise, OnlyLoaded, Active
<1>7. CASE Notify
  BY <1>7 DEF Notify, AckInv, NoPromise, OnlyLoaded, Answered, Active
<1> QED
  BY <1>1, <1>2, <1>3, <1>4, <1>5, <1>6, <1>7, Zenon DEF Worker, LoadFromDisk, WriteToDiskFile

\* A restarted process has promised nothing beyond what is on disk.
LEMMA CrashAck ==
    ASSUME NoPromise, Crash
    PROVE  NoPromise'
<1>1. \A c \in Clients : ~OnlyLoaded(req'[c]) /\ ~Answered(c)'
  BY NoRequestLoaded, Zenon DEF Crash, OnlyLoaded, Answered
<1>2. ~(acked'.ver > 0) /\ ~(diskGen' > 0) /\ ~(memVer' > 0 /\ memGen' = 0)
  <2>1. acked' = acked /\ diskGen' = 0 /\ memVer' = 0
    BY DEF Crash
  <2> QED
    BY <2>1 DEF NoPromise
<1>3. queue' = <<>> /\ wpc' = "load"
  BY DEF Crash
<1>4. Len(queue') = 0 /\ wpc' \notin Active
  BY <1>3 DEF Active
<1>5. \A i \in 1..Len(queue') : ~OnlyLoaded(queue'[i])
  BY <1>4
<1> QED
  BY <1>1, <1>2, <1>3, <1>4, <1>5, Zenon DEF NoPromise, OnlyLoaded

\* Every step keeps what is promised recoverable.
LEMMA NextAck ==
    ASSUME "remove" \notin failed', TypeOK, FlowInv, DiskInv, AckInv, Next
    PROVE  AckInv'
<1>1. CASE Durable
  BY <1>1, NextDisk DEF AckInv
<1>2. CASE ~Durable /\ NoPromise
  BY <1>2, WorkerAck, ClientAck, CrashAck DEF Next, AckInv
<1> QED
  BY <1>1, <1>2 DEF AckInv

\* Clients, worker and crashes keep the requests apart.
LEMMA NextFlow ==
    ASSUME TypeOK, FlowInv, Next
    PROVE  FlowInv'
BY ClientFlow, WorkerFlow, CrashFlow DEF Next

\* LoadFromDisk and WriteToDiskFile: once a content was acknowledged, or loaded,
\* a crash at any point leaves a complete content to recover, whatever writes and
\* renames have failed, as long as no removal of a file has.
THEOREM NoTorn == Spec => []NoTornRecovery
<1> DEFINE Inv == TypeOK /\ FlowInv /\ ("remove" \notin failed => DiskInv /\ AckInv)
<1>1. Init => Inv
  BY InitType, InitFlow, InitDisk
<1>2. Inv /\ [Next]_vars => Inv'
  <2> SUFFICES ASSUME Inv, [Next]_vars PROVE Inv'
    OBVIOUS
  <2>1. CASE Next
    <3>1. TypeOK' /\ FlowInv'
      BY <2>1, NextType, NextFlow
    <3>2. ASSUME "remove" \notin failed' PROVE DiskInv' /\ AckInv'
      <4>1. "remove" \notin failed
        BY <2>1, <3>2, FailedGrows
      <4> QED
        BY <2>1, <3>2, <4>1, NextDisk, NextAck
    <3> QED
      BY <3>1, <3>2
  <2>2. CASE UNCHANGED vars
    <3>1. TypeOK'
      BY NextType
    <3>2. /\ UNCHANGED <<queue, job, clientVars, wpc, failed>>
          /\ UNCHANGED <<file, backup, acked, diskGen, memVer, memGen, outcome, req, result>>
      BY <2>2 DEF vars, memoryVars, workVars, diskVars, clientVars, eventVars
    <3>3. FlowInv'
      BY <3>2, FlowFrame
    <3>4. Durable' = Durable /\ (DiskInv => DiskInv')
      BY <3>2 DEF DiskInv, Durable, Recovered
    <3>5. AckInv => AckInv'
      BY <3>2, <3>4, Zenon DEF AckInv, NoPromise, OnlyLoaded, Answered
    <3> QED
      BY <3>1, <3>2, <3>3, <3>4, <3>5
  <2> QED
    BY <2>1, <2>2
<1>3. Inv => NoTornRecovery
  BY DEF AckInv, NoPromise, NoTornRecovery, Durable
<1> QED
  BY <1>1, <1>2, <1>3, PTL DEF Spec

===============================================================================
