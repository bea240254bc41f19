------------------------ MODULE PreferencesDurability --------------------------
(***************************************************************************)
(* Proofs about Preferences, continued: the generation on disk is the       *)
(* latest that was asked for, and what a flush acknowledged survives.       *)
(***************************************************************************)
EXTENDS PreferencesProofs

-------------------------------------------------------------------------------
(* Generations, numbers and contents: the invariant of durability.          *)

Loading == {"load", "loadRename", "loadRead"}
Writing == {"backup", "save", "saving", "finish"}

\* Before the load there is nothing in memory, and nothing to commit.
LoadInv ==
    /\ wpc \in Loading <=> ~loaded
    /\ ~loaded => map = Empty /\ modified = {} /\ memGen = 0 /\ memVer = 0 /\ diskGen = 0

\* The requests there are.
Held == {queue[i] : i \in 1..Len(queue)} \cup {job} \cup {req[c] : c \in Clients}

\* The number of the last content that was committed before this process.
Base == commits - memGen

\* The n-th generation of this process is the content Base + n; generation 0 is
\* what was loaded.
Numbered(r) ==
    /\ r.gen <= memGen
    /\ r.gen > 0 => r.content.ver = Base + r.gen
    /\ r.gen = 0 => r.content.ver <= Base

NumberInv ==
    /\ memGen <= commits /\ diskGen <= memGen
    /\ memVer <= commits
    /\ memGen > 0 => memVer = commits
    /\ \A r \in Held : Numbered(r)

\* The contents there are, in memory, in requests and on disk.
Memory == [ver |-> memVer, map |-> map]
Known == {file, backup, acked} \cup {r.content : r \in Held}
         \cup (IF modified = {} THEN {Memory} ELSE {})

\* A number stands for one map, wherever it is found.
Agree(h) == \A x \in Known : x.ver <= commits /\ (x.ver > 0 => x.map = h[x.ver])
AgreeInv == \E h \in [1..MaxCommits -> Maps] : Agree(h)

\* Requests that were not overtaken are written in the order of their generations.
OrderInv ==
    ~overtaken =>
        /\ \A i \in 1..Len(queue) : diskGen <= queue[i].gen
        /\ \A i, j \in 1..Len(queue) : i < j => queue[i].gen <= queue[j].gen
        /\ wpc \in Active =>
               diskGen <= job.gen /\ \A i \in 1..Len(queue) : job.gen <= queue[i].gen

\* Without a failed write, a file that was written is missing only while it is
\* being replaced.
WrittenInv ==
    /\ wpc = "finish" => file # Absent
    /\ "write" \notin failed =>
           /\ wpc # "discard"
           /\ diskGen > 0 /\ wpc \notin {"save", "saving"} => file # Absent
           /\ wpc \in Writing => diskGen <= job.gen

\* What AckedDurable asks of the file system.
Reliable == failed \subseteq {"backup", "write"} /\ (overtaken => "write" \notin failed)

\* Where the contents are at each step of a task.
StageInv ==
    /\ wpc = "loadRename" => file = Absent /\ backup # Absent
    /\ wpc = "loadRead" => backup = Absent
    /\ wpc \in {"idle", "result", "notify"} /\ backup # Absent =>
           file = Absent /\ "write" \in failed
    /\ wpc = "backup" => file # Absent /\ backup = Absent /\ job.gen > 0
    /\ wpc = "save" => file = Absent
    /\ wpc = "saving" => file = Torn
    /\ wpc = "discard" => ~Complete(file) /\ "write" \in failed
    /\ wpc = "finish" => file = job.content

\* A backup that outlives its write is older than every request that waits.
BackupInv ==
    wpc \notin Loading /\ backup # Absent /\ ~overtaken =>
        memGen > 0 /\ \A i \in 1..Len(queue) : queue[i].gen > 0

\* A content of number v, if it has one, can be recovered, or a newer one.
Promise(v) == v > 0 => Recovered.ver >= v

PromiseInv ==
    /\ Promise(acked.ver)
    /\ \A c \in Clients : result[c] = "E_OK" => Promise(req[c].content.ver)
    /\ wpc = "result" /\ outcome = "E_OK" /\ job.sync => Promise(job.content.ver)
    /\ memGen = 0 => Promise(memVer)
    /\ \A r \in Held : r.gen = 0 => Promise(r.content.ver)
    /\ diskGen > 0 => Recovered.ver >= Base + diskGen

\* Nothing newer can be recovered than what is being, or was, written.
NewestInv ==
    /\ wpc \in Writing => Recovered.ver <= job.content.ver
    /\ wpc # "finish" => Recovered.ver <= Base + diskGen

DurableInv == Reliable => StageInv /\ BackupInv /\ PromiseInv /\ NewestInv

\* The steps of a client that touch neither the requests nor the disk nor the
\* counters.
Quiet(c) ==
    \/ \E k \in Keys, v \in Values : PutPreferencesValue(c, k, v)
    \/ \E k \in Keys : Delete(c, k)
    \/ Clear(c) \/ CheckHandled(c) \/ Block(c) \/ SpuriousWakeup(c)

\* Such a step changes the map only by noting what it changed.
LEMMA QuietView ==
    ASSUME TypeOK, NEW c \in Clients, Quiet(c)
    PROVE  /\ UNCHANGED <<loaded, memGen, memVer, commits, diskGen, queue, wpc, job, outcome,
                          file, backup, req, handled, result, acked, failed, overtaken, crashes>>
           /\ modified' = {} => modified = {} /\ map' = map
           /\ ~loaded /\ map = Empty /\ modified = {} => map' = Empty /\ modified' = {}
<1> USE DEF diskVars, workVars, clientVars, eventVars, memoryVars
<1>1. UNCHANGED <<loaded, memGen, memVer, commits, diskGen, queue, wpc, job, outcome,
                  file, backup, req, handled, result, acked, failed, overtaken, crashes>>
  BY Zenon DEF Quiet, PutPreferencesValue, Delete, Clear, CheckHandled, Block, SpuriousWakeup
<1>2. CASE CheckHandled(c) \/ Block(c) \/ SpuriousWakeup(c)
  BY <1>1, <1>2 DEF CheckHandled, Block, SpuriousWakeup
<1>3. CASE \E k \in Keys, v \in Values : PutPreferencesValue(c, k, v)
  BY <1>1, <1>3 DEF PutPreferencesValue
<1>4. ASSUME NEW k \in Keys, Delete(c, k)
      PROVE  /\ modified' = {} => modified = {} /\ map' = map
             /\ map = Empty /\ modified = {} => map' = Empty /\ modified' = {}
  <2>1. CASE map[k] = NoValue
    <3>1. map' = map /\ modified' = modified
      BY <1>4, <2>1 DEF Delete, TypeOK, Maps
    <3> QED
      BY <3>1
  <2>2. CASE map[k] # NoValue
    <3>1. k \in modified' /\ map # Empty
      BY <1>4, <2>2 DEF Delete, Empty
    <3> QED
      BY <3>1
  <2> QED
    BY <2>1, <2>2
<1>5. ASSUME Clear(c)
      PROVE  /\ modified' = {} => modified = {} /\ map' = map
             /\ map = Empty /\ modified = {} => map' = Empty /\ modified' = {}
  <2>1. map' = Empty /\ modified' = modified \cup {k \in Keys : map[k] # NoValue}
    BY <1>5 DEF Clear
  <2>2. (\A k \in Keys : map[k] = NoValue) <=> map = Empty
    BY DEF Empty, TypeOK, Maps
  <2> QED
    BY <2>1, <2>2
<1> QED
  BY <1>1, <1>2, <1>3, <1>4, <1>5 DEF Quiet

\* A request is in its client, then in the queue, then in the task.
LEMMA HeldTypes == TypeOK => Held \subseteq Requests
BY DEF TypeOK, Held

\* r is a copy of what is in memory.
Fresh(r) == r.gen = memGen /\ r.content = Memory /\ modified = {}

\* Requests only move; the new ones are empty or copies of what is in memory.
LEMMA HeldNext ==
    ASSUME TypeOK, Next
    PROVE  \A r \in Held' : r \in Held \/ r = NoRequest \/ Fresh(r)'
<1> USE DEF diskVars, workVars, clientVars, eventVars, memoryVars
<1> DEFINE Goal == \A r \in Held' : r \in Held \/ r = NoRequest \/ Fresh(r)'
<1>0. queue \in Seq(Requests) /\ req \in [Clients -> Requests]
  BY DEF TypeOK
<1>f. ASSUME UNCHANGED <<queue, job, req>> PROVE Goal
  BY <1>f DEF Held
<1>1. CASE LoadFromDisk
  BY <1>1, <1>f DEF LoadFromDisk, LoadBegin, LoadRename, LoadRead
<1>2. CASE WriteBegin
  <2>1. /\ queue # <<>> /\ job' = Head(queue) /\ queue' = Tail(queue) /\ req' = req
    BY <1>2 DEF WriteBegin
  <2>2. /\ Len(queue) \in Nat /\ Len(queue) > 0 /\ Head(queue) = queue[1]
        /\ \A i \in 1..Len(queue') : i + 1 \in 1..Len(queue) /\ queue'[i] = queue[i + 1]
    BY <1>0, <2>1, TailFacts
  <2>3. job' \in Held
    BY <2>1, <2>2 DEF Held
  <2>4. \A i \in 1..Len(queue') : queue'[i] \in Held
    BY <2>2 DEF Held
  <2> QED
    BY <2>1, <2>3, <2>4, Zenon DEF Held
<1>3. CASE WriteBackup \/ SaveBegin \/ SaveEnd \/ WriteFinish \/ WriteDiscard \/ SetHandled
  BY <1>3, <1>f DEF WriteBackup, SaveBegin, SaveEnd, WriteFinish, WriteDiscard, SetHandled
<1>4. CASE Notify
  BY <1>4, Zenon DEF Notify, Held
<1>5. CASE Crash
  <2>1. queue' = <<>> /\ job' = NoRequest /\ \A c \in Clients : req'[c] = NoRequest
    BY <1>5 DEF Crash
  <2> QED
    BY <2>1 DEF Held
<1>6. ASSUME NEW c \in Clients, Client(c) PROVE Goal
  <2>1. CASE Quiet(c)
    BY <2>1, <1>f, QuietView
  <2>2. ASSUME NEW sync \in BOOLEAN, commitToMemory(c, sync) PROVE Goal
    <3>1. PICK r : /\ r = [gen |-> memGen', sync |-> sync, owner |-> c,
                           content |-> [ver |-> memVer', map |-> map]]
                   /\ req' = [req EXCEPT ![c] = r]
      BY <2>2, Zenon DEF commitToMemory
    <3>2. Fresh(r)' /\ UNCHANGED <<queue, job>>
      BY <2>2, <3>1 DEF commitToMemory, Fresh, Memory
    <3>3. \A d \in Clients : req'[d] = req[d] \/ req'[d] = r
      BY <1>0, <3>1
    <3> QED
      BY <3>2, <3>3 DEF Held
  <2>3. CASE Schedule(c)
    <3>1. /\ queue' = Append(queue, req[c]) /\ job' = job /\ req[c] \in Requests
          /\ \A d \in Clients : req'[d] = req[d] \/ req'[d] = NoRequest
      BY <1>0, <2>3 DEF Schedule
    <3>2. \A i \in 1..Len(queue') : (i \in 1..Len(queue) /\ queue'[i] = queue[i]) \/ queue'[i] = req[c]
      BY <1>0, <3>1, AppendFacts
    <3>3. \A i \in 1..Len(queue') : queue'[i] \in Held
      BY <3>2 DEF Held
    <3> QED
      BY <3>1, <3>3 DEF Held
  <2>4. CASE Return(c)
    <3>1. UNCHANGED <<queue, job>> /\ \A d \in Clients : req'[d] = req[d] \/ req'[d] = NoRequest
      BY <1>0, <2>4 DEF Return
    <3> QED
      BY <3>1 DEF Held
  <2> QED
    BY <1>6, <2>1, <2>2, <2>3, <2>4 DEF Client, Flushing, Quiet
<1> QED
  BY <1>1, <1>2, <1>3, <1>4, <1>5, <1>6 DEF Next, Worker, WriteToDiskFile

\* The load happens once, into an empty map.
LEMMA LoadNext ==
    ASSUME TypeOK, LoadInv, Next
    PROVE  LoadInv'
<1> USE DEF diskVars, workVars, clientVars, eventVars, memoryVars
<1>1. CASE LoadBegin \/ LoadRename
  BY <1>1 DEF LoadBegin, LoadRename, LoadInv, Loading
<1>2. CASE LoadRead
  BY <1>2 DEF LoadRead, LoadInv, Loading
<1>3. CASE WriteToDiskFile
  <2>1. wpc \notin Loading /\ wpc' \notin Loading /\ loaded' = loaded
    BY <1>3, Zenon DEF WriteToDiskFile, WriteBegin, WriteBackup, SaveBegin, SaveEnd, WriteFinish,
       WriteDiscard, SetHandled, Notify, Loading
  <2> QED
    BY <2>1 DEF LoadInv
<1>4. CASE Crash
  BY <1>4 DEF Crash, LoadInv, Loading
<1>5. ASSUME NEW c \in Clients, Client(c) PROVE LoadInv'
  <2>1. CASE Quiet(c)
    BY <2>1, QuietView DEF LoadInv
  <2>2. ASSUME NEW sync \in BOOLEAN, commitToMemory(c, sync) PROVE LoadInv'
    BY <2>2 DEF commitToMemory, LoadInv
  <2>3. CASE Schedule(c) \/ Return(c)
    BY <2>3 DEF Schedule, Return, LoadInv
  <2> QED
    BY <1>5, <2>1, <2>2, <2>3 DEF Client, Flushing, Quiet
<1> QED
  BY <1>1, <1>2, <1>3, <1>4, <1>5 DEF Next, Worker, LoadFromDisk

\* What a step may do to the memory: nothing that a commit would not notice, the
\* load, a commit of modifications, or the loss of everything.
LEMMA MemoryNext ==
    ASSUME TypeOK, LoadInv, Next
    PROVE  \/ /\ UNCHANGED <<memGen, memVer, commits>>
              /\ modified' = {} => modified = {} /\ map' = map
           \/ /\ wpc = "loadRead" /\ UNCHANGED <<memGen, commits, file, backup>>
              /\ modified = {} /\ memGen = 0
              /\ Memory' = Memory \/ (Memory' = file /\ Complete(file))
           \/ /\ commits < MaxCommits /\ commits' = commits + 1
              /\ memVer' = commits + 1 /\ memGen' = memGen + 1 /\ map' = map
           \/ Crash
<1> USE DEF diskVars, workVars, clientVars, eventVars, memoryVars
<1>1. CASE LoadRead
  <2>1. modified = {} /\ memGen = 0 /\ map = Empty
    BY <1>1 DEF LoadRead, LoadInv, Loading
  <2>2. UNCHANGED <<memGen, commits, file, backup>> /\ wpc = "loadRead"
    BY <1>1 DEF LoadRead
  <2>3. Memory' = Memory \/ (Memory' = file /\ Complete(file))
    <3>1. CASE Complete(file)
      <4>1. map' = [k \in Keys |-> file.map[k]] /\ memVer' = file.ver
        BY <1>1, <2>1, <3>1 DEF LoadRead, Empty
      <4>2. file = [ver |-> file.ver, map |-> file.map] /\ file.map = [k \in Keys |-> file.map[k]]
        BY DEF TypeOK, Contents, Maps
      <4> QED
        BY <3>1, <4>1, <4>2 DEF Memory
    <3>2. CASE ~Complete(file)
      BY <1>1, <3>2 DEF LoadRead, Memory
    <3> QED
      BY <3>1, <3>2
  <2> QED
    BY <2>1, <2>2, <2>3
<1>2. CASE LoadBegin \/ LoadRename \/ WriteToDiskFile
  BY <1>2, Zenon DEF LoadBegin, LoadRename, WriteToDiskFile, WriteBegin, WriteBackup, SaveBegin,
     SaveEnd, WriteFinish, WriteDiscard, SetHandled, Notify
<1>3. ASSUME NEW c \in Clients, Quiet(c) \/ Schedule(c) \/ Return(c)
      PROVE  /\ UNCHANGED <<memGen, memVer, commits>>
             /\ modified' = {} => modified = {} /\ map' = map
  BY <1>3, QuietView DEF Schedule, Return
<1>4. ASSUME NEW c \in Clients, NEW sync \in BOOLEAN, commitToMemory(c, sync)
      PROVE  \/ /\ UNCHANGED <<memGen, memVer, commits>>
                /\ modified' = {} => modified = {} /\ map' = map
             \/ /\ commits < MaxCommits /\ commits' = commits + 1
                /\ memVer' = commits + 1 /\ memGen' = memGen + 1 /\ map' = map
  BY <1>4 DEF commitToMemory
<1> QED
  BY <1>1, <1>2, <1>3, <1>4 DEF Next, Worker, LoadFromDisk, Client, Flushing, Quiet

\* Only the end of a write and a crash change the generation on disk.
LEMMA DiskGenNext ==
    ASSUME Next
    PROVE  \/ diskGen' = diskGen
           \/ Crash /\ diskGen' = 0
           \/ WriteFinish /\ diskGen' = job.gen
<1>1. CASE LoadFromDisk
  BY <1>1 DEF LoadFromDisk, LoadBegin, LoadRename, LoadRead
<1>2. CASE WriteToDiskFile
  BY <1>2 DEF WriteToDiskFile, WriteBegin, WriteBackup, SaveBegin, SaveEnd, WriteFinish,
     WriteDiscard, SetHandled, Notify
<1>3. CASE Crash
  BY <1>3 DEF Crash
<1>4. CASE \E c \in Clients : Client(c)
  BY <1>4 DEF Client, Flushing, PutPreferencesValue, Delete, Clear, commitToMemory,
     Schedule, CheckHandled, Block, SpuriousWakeup, Return
<1> QED
  BY <1>1, <1>2, <1>3, <1>4 DEF Next, Worker

\* What is on disk or acknowledged was in a request or on disk before.
LEMMA DiskContents ==
    ASSUME TypeOK, Next
    PROVE  \A x \in {file', backup', acked'} : x \in Known \/ x = Absent \/ x = Torn
<1> USE DEF diskVars, workVars, clientVars, eventVars, memoryVars
<1>1. {file, backup, acked, job.content} \subseteq Known /\ \A c \in Clients : req[c].content \in Known
  BY DEF Known, Held
<1>2. CASE LoadFromDisk
  BY <1>1, <1>2 DEF LoadFromDisk, LoadBegin, LoadRename, LoadRead, Removed
<1>3. CASE WriteToDiskFile
  BY <1>1, <1>3, Zenon DEF WriteToDiskFile, WriteBegin, WriteBackup, SaveBegin, SaveEnd, WriteFinish,
     WriteDiscard, SetHandled, Notify, Removed
<1>4. CASE Crash
  BY <1>1, <1>4 DEF Crash
<1>5. ASSUME NEW c \in Clients, Client(c)
      PROVE  UNCHANGED <<file, backup>> /\ (acked' = acked \/ acked' = req[c].content)
  <2>1. CASE Quiet(c)
    BY <2>1, QuietView
  <2>2. CASE \E sync \in BOOLEAN : commitToMemory(c, sync)
    BY <2>2 DEF commitToMemory
  <2>3. CASE Schedule(c)
    BY <2>3 DEF Schedule
  <2>4. CASE Return(c)
    BY <2>4 DEF Return
  <2> QED
    BY <1>5, <2>1, <2>2, <2>3, <2>4 DEF Client, Flushing, Quiet
<1> QED
  BY <1>1, <1>2, <1>3, <1>4, <1>5 DEF Next, Worker

\* No step makes a content, except a commit of modifications, under a new number.
LEMMA KnownNext ==
    ASSUME TypeOK, LoadInv, Next
    PROVE  /\ \A x \in Known' : \/ x \in Known \/ x.ver <= 0
                                \/ x = Memory' /\ memVer' = commits + 1 /\ commits' = commits + 1
           /\ commits' = commits \/ (commits' = commits + 1 /\ commits < MaxCommits)
<1> DEFINE Good(x) == \/ x \in Known \/ x.ver <= 0
                      \/ x = Memory' /\ memVer' = commits + 1 /\ commits' = commits + 1
<1>1. modified' = {} => Good(Memory')
  <2> SUFFICES ASSUME modified' = {} PROVE Good(Memory')
    OBVIOUS
  <2>1. CASE UNCHANGED <<memGen, memVer, commits>> /\ modified = {} /\ map' = map
    BY <2>1 DEF Known, Memory
  <2>2. CASE modified = {} /\ (Memory' = Memory \/ Memory' = file)
    BY <2>2 DEF Known
  <2>3. CASE commits' = commits + 1 /\ memVer' = commits + 1
    BY <2>3
  <2>4. CASE Crash
    BY <2>4 DEF Crash, Memory
  <2> QED
    BY <2>1, <2>2, <2>3, <2>4, MemoryNext
<1>2. Absent.ver <= 0 /\ Torn.ver <= 0 /\ NoRequest.content = Absent
  BY DEF Absent, Torn, NoRequest
<1>3. \A x \in {file', backup', acked'} : Good(x)
  BY <1>2, DiskContents
<1>4. \A r \in Held' : Good(r.content)
  <2> SUFFICES ASSUME NEW r \in Held' PROVE Good(r.content)
    OBVIOUS
  <2>1. CASE r \in Held
    BY <2>1 DEF Known
  <2>2. CASE r = NoRequest
    BY <1>2, <2>2
  <2>3. CASE Fresh(r)'
    BY <1>1, <2>3 DEF Fresh
  <2> QED
    BY <2>1, <2>2, <2>3, HeldNext
<1>5. \A x \in Known' : Good(x)
  BY <1>1, <1>3, <1>4 DEF Known
<1>6. commits' = commits \/ (commits' = commits + 1 /\ commits < MaxCommits)
  BY MemoryNext, Zenon DEF Crash
<1> QED
  BY <1>5, <1>6

\* Contents are numbered with integers.
LEMMA KnownInt == TypeOK => \A x \in Known : x.ver \in Int
<1> SUFFICES ASSUME TypeOK PROVE \A x \in Known : x.ver \in Int
  OBVIOUS
<1>1. \A x \in Contents : x.ver \in Int
  BY BoundAssumption DEF Contents
<1>2. {file, backup, acked} \subseteq Contents /\ \A r \in Held : r.content \in Contents
  BY HeldTypes DEF TypeOK, Requests
<1>3. Memory.ver \in Int
  BY DEF Memory, TypeOK
<1> QED
  BY <1>1, <1>2, <1>3 DEF Known

\* So a number goes on standing for one map.
LEMMA AgreeNext ==
    ASSUME TypeOK, TypeOK', LoadInv, AgreeInv, Next
    PROVE  AgreeInv'
<1>1. PICK h \in [1..MaxCommits -> Maps] : Agree(h)
  BY DEF AgreeInv
<1>2. commits \in Nat /\ MaxCommits \in Nat /\ map' \in Maps
  BY BoundAssumption DEF TypeOK
<1>4. \A x \in Known' : x.ver \in Int
  <2>1. (TypeOK => \A x \in Known : x.ver \in Int)'
    BY KnownInt, PTL
  <2> QED
    BY <2>1
<1>3. \A x \in Known : x.ver <= commits /\ (x.ver > 0 => x.map = h[x.ver])
  BY <1>1 DEF Agree
<1>5. CASE commits' = commits
  <2>1. ASSUME NEW x \in Known' PROVE x.ver <= commits /\ (x.ver > 0 => x.map = h[x.ver])
    <3>1. x \in Known \/ x.ver <= 0
      BY <1>2, <1>5, <2>1, KnownNext
    <3>2. CASE x \in Known
      BY <1>3, <3>2
    <3>3. CASE x \notin Known /\ x.ver <= 0
      <4>1. x.ver \in Int
        BY <1>4
      <4> QED
        BY <1>2, <3>3, <4>1
    <3> QED
      BY <3>1, <3>2, <3>3
  <2> QED
    BY <1>5, <2>1, Zenon DEF AgreeInv, Agree
<1>6. CASE commits' = commits + 1 /\ commits < MaxCommits
  <2> DEFINE g == [h EXCEPT ![commits + 1] = map']
  <2>1. g \in [1..MaxCommits -> Maps] /\ g[commits + 1] = map'
    BY <1>2, <1>6
  <2>2. ASSUME NEW x \in Known' PROVE x.ver <= commits + 1 /\ (x.ver > 0 => x.map = g[x.ver])
    <3>0. x.ver \in Int
      BY <1>4
    <3>1. CASE x \in Known
      <4>1. x.ver <= commits /\ (x.ver > 0 => x.map = h[x.ver])
        BY <1>3, <3>1
      <4>2. x.ver > 0 => g[x.ver] = h[x.ver]
        BY <1>2, <1>6, <3>0, <4>1
      <4> QED
        BY <1>2, <3>0, <4>1, <4>2
    <3>2. CASE x.ver <= 0
      BY <1>2, <3>0, <3>2
    <3>3. CASE x = Memory' /\ memVer' = commits + 1
      <4>1. x.ver = commits + 1 /\ x.map = map'
        BY <3>3 DEF Memory
      <4> QED
        BY <1>2, <2>1, <4>1
    <3> QED
      BY <2>2, <3>1, <3>2, <3>3, KnownNext
  <2> QED
    BY <1>6, <2>1, <2>2, Zenon DEF AgreeInv, Agree
<1> QED
  BY <1>5, <1>6, KnownNext

\* A commit numbers its generation, and every request keeps the number it got.
LEMMA NumberNext ==
    ASSUME TypeOK, TypeOK', LoadInv, AgreeInv, NumberInv, Next
    PROVE  NumberInv'
<1>0. /\ memGen \in Nat /\ commits \in Nat /\ memVer \in Int /\ diskGen \in Nat /\ file.ver \in Int
      /\ memGen' \in Nat
  BY BoundAssumption DEF TypeOK, Contents
<1>1. NoRequest.gen = 0 /\ NoRequest.content.ver = -2
  BY DEF NoRequest, Absent
<1>2. \A r \in Held : r.gen \in Nat /\ r.content.ver \in Int
  BY HeldTypes, BoundAssumption DEF Requests, Contents
<1>3. file.ver <= commits
  BY DEF AgreeInv, Agree, Known
<1>4. CASE Crash
  <2>1. memGen' = 0 /\ memVer' = 0 /\ diskGen' = 0 /\ commits' = commits
    BY <1>4 DEF Crash
  <2>2. queue' = <<>> /\ job' = NoRequest /\ \A c \in Clients : req'[c] = NoRequest
    BY <1>4 DEF Crash
  <2>3. \A r \in Held' : r = NoRequest
    BY <2>2 DEF Held
  <2>4. \A r \in Held' : Numbered(r)'
    BY <1>0, <1>1, <2>1, <2>3 DEF Numbered, Base
  <2> QED
    BY <1>0, <2>1, <2>4 DEF NumberInv
<1>5. CASE ~Crash
  <2>1. /\ memGen' <= commits' /\ memGen <= memGen'
        /\ memVer' <= commits' /\ (memGen' > 0 => memVer' = commits')
        /\ Base' = Base /\ Base >= 0
    <3>1. CASE UNCHANGED <<memGen, memVer, commits>>
      BY <1>0, <3>1 DEF NumberInv, Base
    <3>2. CASE UNCHANGED <<memGen, commits>> /\ memGen = 0 /\ (memVer' = memVer \/ memVer' = file.ver)
      BY <1>0, <1>3, <3>2 DEF NumberInv, Base
    <3>3. CASE commits' = commits + 1 /\ memVer' = commits + 1 /\ memGen' = memGen + 1
      BY <1>0, <3>3 DEF NumberInv, Base
    <3>4. Memory' = Memory \/ Memory' = file => memVer' = memVer \/ memVer' = file.ver
      BY DEF Memory
    <3> QED
      BY <1>5, <3>1, <3>2, <3>3, <3>4, MemoryNext
  <2>2. diskGen' <= memGen'
    <3>1. job \in Held
      BY DEF Held
    <3>2. job.gen <= memGen /\ job.gen \in Nat
      BY <1>2, <3>1 DEF NumberInv, Numbered
    <3>3. diskGen' = diskGen \/ diskGen' = job.gen
      BY <1>5, DiskGenNext
    <3> QED
      BY <1>0, <2>1, <3>2, <3>3 DEF NumberInv
  <2>3. ASSUME NEW r \in Held' PROVE Numbered(r)'
    <3>1. CASE r \in Held
      <4>1. Numbered(r) /\ r.gen \in Nat
        BY <1>2, <3>1 DEF NumberInv
      <4> QED
        BY <1>0, <2>1, <4>1 DEF Numbered
    <3>2. CASE r = NoRequest
      BY <1>0, <1>1, <2>1, <3>2 DEF Numbered, Base
    <3>3. CASE Fresh(r)'
      <4>1. r.gen = memGen' /\ r.content.ver = memVer'
        BY <3>3 DEF Fresh, Memory
      <4>2. commits' \in Nat /\ memVer' \in Int
        BY DEF TypeOK
      <4>3. PICK m \in Nat, n \in Nat, v \in Int : m = commits' /\ n = memGen' /\ v = memVer'
        BY <1>0, <4>2
      <4>7. (memGen' > 0 => memVer' = commits') /\ memVer' <= commits'
        BY <2>1
      <4>8. (n > 0 => v = m) /\ v <= m
        BY <4>3, <4>7
      <4>9. \A a \in Nat, b \in Nat : a = (a - b) + b /\ (b = 0 => a = a - b)
        OBVIOUS
      <4>4. n > 0 => v = (m - n) + n
        BY <4>3, <4>8, <4>9, Zenon
      <4>5. n = 0 => v <= m - n
        BY <4>3, <4>8, <4>9, Zenon
      <4>6. memGen' <= memGen'
        BY <1>0
      <4> QED
        BY <4>1, <4>3, <4>4, <4>5, <4>6 DEF Numbered, Base
    <3> QED
      BY <2>3, <3>1, <3>2, <3>3, HeldNext
  <2> QED
    BY <2>1, <2>2, <2>3 DEF NumberInv
<1> QED
  BY <1>4, <1>5

\* Requests that are scheduled in the order of their commits stay in it.
LEMMA OrderNext ==
    ASSUME TypeOK, NumberInv, OrderInv, Next, ~overtaken'
    PROVE  OrderInv'
<1> USE DEF diskVars, workVars, clientVars, eventVars, memoryVars
<1>0. /\ queue \in Seq(Requests) /\ req \in [Clients -> Requests] /\ diskGen \in Nat
      /\ job.gen \in Nat /\ memGen \in Nat
  BY DEF TypeOK, Requests
<1>t. \A i \in 1..Len(queue) : queue[i].gen \in Nat /\ queue[i].gen <= memGen
  <2>1. \A i \in 1..Len(queue) : queue[i] \in Held
    BY DEF Held
  <2> QED
    BY <2>1, HeldTypes DEF NumberInv, Numbered, Requests
<1>j. job.gen <= memGen
  BY DEF Held, NumberInv, Numbered
<1>f. ASSUME UNCHANGED <<queue, job, diskGen, overtaken>>, wpc' \in Active => wpc \in Active
      PROVE  OrderInv'
  BY <1>f DEF OrderInv
<1>1. CASE LoadFromDisk
  BY <1>1, <1>f DEF LoadFromDisk, LoadBegin, LoadRename, LoadRead, Active
<1>2. CASE WriteBegin
  <2>1. /\ queue # <<>> /\ job' = Head(queue) /\ queue' = Tail(queue)
        /\ UNCHANGED <<diskGen, overtaken>>
    BY <1>2 DEF WriteBegin
  <2>2. /\ Len(queue) \in Nat /\ Len(queue) > 0 /\ job' = queue[1] /\ 1 \in 1..Len(queue)
        /\ \A i \in 1..Len(queue') : /\ i + 1 \in 1..Len(queue) /\ queue'[i] = queue[i + 1]
                                     /\ 1 < i + 1
    BY <1>0, <2>1, TailFacts
  <2>3. \A i \in 1..Len(queue') : diskGen <= queue'[i].gen /\ queue[1].gen <= queue'[i].gen
    BY <2>1, <2>2 DEF OrderInv
  <2>4. \A i, j \in 1..Len(queue') : i < j => queue'[i].gen <= queue'[j].gen
    <3>1. \A i, j \in 1..Len(queue') : i < j => i + 1 < j + 1
      OBVIOUS
    <3> QED
      BY <2>1, <2>2, <3>1 DEF OrderInv
  <2> QED
    BY <2>1, <2>2, <2>3, <2>4, Zenon DEF OrderInv
<1>3. CASE WriteBackup \/ SaveBegin \/ SaveEnd \/ WriteDiscard \/ SetHandled
  BY <1>3, <1>f DEF WriteBackup, SaveBegin, SaveEnd, WriteDiscard, SetHandled, Active
<1>4. CASE WriteFinish
  <2>1. UNCHANGED <<queue, job, overtaken>> /\ diskGen' = job.gen /\ wpc \in Active
    BY <1>4 DEF WriteFinish, Active
  <2>2. \A i \in 1..Len(queue) : job.gen <= queue[i].gen
    BY <2>1, Zenon DEF OrderInv
  <2>3. \A i, j \in 1..Len(queue) : i < j => queue[i].gen <= queue[j].gen
    BY <2>1, Zenon DEF OrderInv
  <2>4. job.gen <= job.gen
    BY <1>0
  <2> QED
    BY <2>1, <2>2, <2>3, <2>4, Zenon DEF OrderInv
<1>5. CASE Notify
  BY <1>5, Zenon DEF Notify, OrderInv, Active
<1>6. CASE Crash
  <2>1. queue' = <<>> /\ wpc' = "load"
    BY <1>6 DEF Crash
  <2>2. 1..Len(queue') = {} /\ wpc' \notin Active
    BY <2>1 DEF Active
  <2> QED
    BY <2>2, Zenon DEF OrderInv
<1>7. ASSUME NEW c \in Clients, Client(c) PROVE OrderInv'
  <2>1. CASE Quiet(c)
    BY <2>1, <1>f, QuietView
  <2>2. CASE (\E sync \in BOOLEAN : commitToMemory(c, sync)) \/ Return(c)
    BY <2>2, <1>f, Zenon DEF commitToMemory, Return
  <2>3. CASE Schedule(c)
    <3>1. /\ queue' = Append(queue, req[c]) /\ UNCHANGED <<job, diskGen, wpc>> /\ ~overtaken
          /\ ~(req[c].gen < memGen) /\ req[c] \in Requests
      BY <1>0, <2>3, Zenon DEF Schedule
    <3>2. req[c].gen = memGen
      <4>1. req[c] \in Held
        BY DEF Held
      <4>2. req[c].gen <= memGen
        BY <4>1 DEF NumberInv, Numbered
      <4>3. PICK n \in Nat : n = req[c].gen
        BY <3>1 DEF Requests
      <4>4. ~(n < memGen) /\ n <= memGen
        BY <3>1, <4>2, <4>3
      <4>5. n = memGen
        BY <1>0, <4>4
      <4> QED
        BY <4>3, <4>5
    <3>3. /\ Len(queue) \in Nat /\ Len(queue') = Len(queue) + 1
          /\ \A i \in 1..Len(queue) : queue'[i] = queue[i]
          /\ queue'[Len(queue) + 1] = req[c]
      BY <1>0, <3>1, AppendFacts
    <3>4. diskGen <= memGen
      BY DEF NumberInv
    <3>5. \A i \in 1..Len(queue') : i \in 1..Len(queue) \/ i = Len(queue) + 1
      BY <3>3
    <3>6. \A i \in 1..Len(queue') : diskGen <= queue'[i].gen
      BY <3>1, <3>2, <3>3, <3>4, <3>5 DEF OrderInv
    <3>7. ASSUME NEW i \in 1..Len(queue'), NEW j \in 1..Len(queue'), i < j
          PROVE  queue'[i].gen <= queue'[j].gen
      <4>1. i \in 1..Len(queue) /\ queue'[i] = queue[i]
        BY <3>3, <3>7
      <4>2. CASE j \in 1..Len(queue)
        BY <3>1, <3>3, <3>7, <4>1, <4>2 DEF OrderInv
      <4>3. CASE j = Len(queue) + 1
        BY <1>t, <3>2, <3>3, <4>1, <4>3
      <4> QED
        BY <3>5, <4>2, <4>3
    <3>8. wpc \in Active => diskGen <= job.gen /\ \A i \in 1..Len(queue') : job.gen <= queue'[i].gen
      BY <1>j, <3>1, <3>2, <3>3, <3>5 DEF OrderInv
    <3> QED
      BY <3>1, <3>6, <3>7, <3>8 DEF OrderInv
  <2> QED
    BY <1>7, <2>1, <2>2, <2>3 DEF Client, Flushing, Quiet
<1> QED
  BY <1>1, <1>2, <1>3, <1>4, <1>5, <1>6, <1>7 DEF Next, Worker, WriteToDiskFile

\* Overtaking is never forgotten.
LEMMA OvertakenStays == Next /\ overtaken => overtaken'
<1> SUFFICES ASSUME Next, overtaken PROVE overtaken'
  OBVIOUS
<1> USE DEF eventVars
<1>1. CASE LoadFromDisk
  BY <1>1, Zenon DEF LoadFromDisk, LoadBegin, LoadRename, LoadRead
<1>2. CASE WriteToDiskFile
  BY <1>2, Zenon DEF WriteToDiskFile, WriteBegin, WriteBackup, SaveBegin, SaveEnd, WriteFinish,
     WriteDiscard, SetHandled, Notify
<1>3. CASE Crash
  BY <1>3 DEF Crash
<1>4. CASE \E c \in Clients : Client(c)
  BY <1>4, Zenon DEF Client, Flushing, PutPreferencesValue, Delete, Clear, commitToMemory,
     Schedule, CheckHandled, Block, SpuriousWakeup, Return
<1> QED
  BY <1>1, <1>2, <1>3, <1>4 DEF Next, Worker

\* A written file goes only to be replaced, and by no older generation.
LEMMA WrittenNext ==
    ASSUME TypeOK, FlowInv, LoadInv, WrittenInv, Next
    PROVE  WrittenInv'
<1> USE DEF diskVars, workVars, clientVars, eventVars, memoryVars
<1>0. diskGen \in Nat /\ job.gen \in Nat /\ failed \subseteq failed'
  BY FailedGrows DEF TypeOK, Requests
<1>1. CASE LoadFromDisk
  <2>1. diskGen = 0 /\ diskGen' = 0 /\ wpc' \in {"loadRename", "loadRead", "idle"}
    BY <1>1 DEF LoadFromDisk, LoadBegin, LoadRename, LoadRead, LoadInv, Loading
  <2> QED
    BY <2>1 DEF WrittenInv, Writing
<1>2. CASE WriteBegin
  <2>1. /\ UNCHANGED <<file, failed, diskGen>> /\ wpc = "idle" /\ job' = Head(queue)
        /\ wpc' \in {"save", "backup", "result"}
        /\ wpc' = "save" => file = Absent
        /\ wpc' = "backup" => diskGen < Head(queue).gen
    BY <1>2 DEF WriteBegin, CheckRequestValidForStateGeneration
  <2>2. Head(queue).gen \in Nat
    <3>1. queue \in Seq(Requests) /\ queue # <<>>
      BY <1>2 DEF WriteBegin, TypeOK
    <3>2. Head(queue) \in Requests
      BY <3>1, TailFacts
    <3> QED
      BY <3>2 DEF Requests
  <2>3. ASSUME "write" \notin failed PROVE wpc' \in Writing => diskGen <= Head(queue).gen
    <3>1. CASE wpc' = "save"
      <4>1. ~(diskGen > 0)
        BY <2>1, <2>3, <3>1 DEF WrittenInv
      <4> QED
        BY <1>0, <2>2, <4>1
    <3>2. CASE wpc' = "backup"
      BY <1>0, <2>1, <2>2, <3>2
    <3> QED
      BY <2>1, <3>1, <3>2 DEF Writing
  <2> QED
    BY <2>1, <2>3 DEF WrittenInv
<1>3. CASE WriteBackup
  <2>1. /\ UNCHANGED <<job, diskGen>> /\ wpc = "backup" /\ wpc' \in {"save", "result"}
        /\ wpc' = "result" => file' = file
    BY <1>3 DEF WriteBackup
  <2> QED
    BY <1>0, <2>1 DEF WrittenInv, Writing
<1>4. CASE SaveBegin
  <2>1. /\ UNCHANGED <<job, diskGen>> /\ wpc = "save" /\ wpc' \in {"saving", "discard"}
        /\ wpc' = "discard" => "write" \in failed'
    BY <1>4 DEF SaveBegin, Fails
  <2> QED
    BY <1>0, <2>1 DEF WrittenInv, Writing
<1>5. CASE SaveEnd
  <2>1. /\ UNCHANGED <<job, diskGen>> /\ wpc = "saving" /\ wpc' \in {"finish", "discard"}
        /\ wpc' = "discard" => "write" \in failed'
        /\ wpc' = "finish" => file' = job.content
    BY <1>5 DEF SaveEnd, Fails
  <2>2. job.content.ver >= 0
    BY <2>1 DEF FlowInv, JobInv, Active
  <2>3. wpc' = "finish" => file' # Absent
    BY <2>1, <2>2, ContentFacts DEF Complete
  <2> QED
    BY <1>0, <2>1, <2>3 DEF WrittenInv, Writing
<1>6. CASE WriteFinish
  <2>1. UNCHANGED file /\ wpc = "finish" /\ wpc' = "result"
    BY <1>6 DEF WriteFinish
  <2> QED
    BY <2>1 DEF WrittenInv, Writing
<1>7. CASE WriteDiscard
  <2>1. wpc = "discard" /\ wpc' = "result"
    BY <1>7 DEF WriteDiscard
  <2> QED
    BY <1>0, <2>1 DEF WrittenInv
<1>8. CASE SetHandled \/ Notify
  <2>1. UNCHANGED <<file, diskGen, failed>> /\ wpc' \in {"notify", "idle"} /\ wpc \in {"result", "notify"}
    BY <1>8 DEF SetHandled, Notify
  <2> QED
    BY <2>1 DEF WrittenInv, Writing
<1>9. CASE Crash
  BY <1>9 DEF Crash, WrittenInv, Writing
<1>10. ASSUME NEW c \in Clients, Client(c) PROVE WrittenInv'
  <2>1. UNCHANGED <<wpc, file, job, diskGen, failed>>
    <3>1. CASE Quiet(c)
      BY <3>1, QuietView
    <3>2. CASE (\E sync \in BOOLEAN : commitToMemory(c, sync)) \/ Schedule(c) \/ Return(c)
      BY <3>2, Zenon DEF commitToMemory, Schedule, Return
    <3> QED
      BY <1>10, <3>1, <3>2 DEF Client, Flushing, Quiet
  <2> QED
    BY <2>1 DEF WrittenInv
<1> QED
  BY <1>1, <1>2, <1>3, <1>4, <1>5, <1>6, <1>7, <1>8, <1>9, <1>10
     DEF Next, Worker, WriteToDiskFile

-------------------------------------------------------------------------------
(* The generation on disk.                                                  *)

GenerationInv ==
    TypeOK /\ FlowInv /\ LoadInv /\ NumberInv /\ AgreeInv /\ OrderInv /\ WrittenInv

\* A new PreferencesImpl has no generation, and the contents it finds agree.
LEMMA InitGeneration == Init => GenerationInv
<1> SUFFICES ASSUME Init PROVE GenerationInv
  OBVIOUS
<1>1. LoadInv /\ OrderInv /\ WrittenInv
  BY SMTT(30) DEF Init, LoadInv, Loading, OrderInv, WrittenInv, Active, Writing
<1>2. queue = <<>> /\ job = NoRequest /\ \A c \in Clients : req[c] = NoRequest
  BY DEF Init
<1>3. \A r \in Held : r = NoRequest
  BY <1>2 DEF Held
<1>4. NoRequest.gen = 0 /\ NoRequest.content.ver = -2
  BY DEF NoRequest, Absent
<1>5. memGen = 0 /\ memVer = 0 /\ diskGen = 0 /\ (commits = 0 \/ commits = 1)
  BY Zenon DEF Init
<1>6. NumberInv
  BY <1>3, <1>4, <1>5 DEF NumberInv, Numbered, Base
<1>7. Empty \in Maps /\ file \in Contents
  BY ContentFacts, InitType, Zenon DEF TypeOK
<1>8. PICK h \in [1..MaxCommits -> Maps] : file = Absent \/ h[1] = file.map
  <2>1. file.map \in Maps
    BY <1>7 DEF Contents
  <2>2. [n \in 1..MaxCommits |-> file.map] \in [1..MaxCommits -> Maps]
    BY <2>1
  <2>3. 1 \in 1..MaxCommits
    BY BoundAssumption
  <2> QED
    BY <2>2, <2>3, Zenon
<1>9. Agree(h)
  <2>1. Absent.ver = -2 /\ Memory.ver = 0
    BY <1>5 DEF Absent, Memory
  <2>2. CASE file = Absent
    <3>1. acked.ver = 0 /\ backup = Absent
      BY <2>2 DEF Init
    <3>2. \A x \in Known : x.ver \in {-2, 0}
      BY <1>3, <1>4, <2>1, <2>2, <3>1 DEF Known
    <3> QED
      BY <1>5, <3>2 DEF Agree
  <2>3. CASE file # Absent
    <3>1. acked = file /\ backup = Absent /\ file.ver = 1 /\ commits = 1
      <4>1. acked = file /\ backup = Absent /\ commits = 1
        BY <2>3, Zenon DEF Init
      <4>2. PICK m \in Maps : file = [ver |-> 1, map |-> m]
        BY <2>3, Zenon DEF Init
      <4> QED
        BY <4>1, <4>2
    <3>2. \A x \in Known : x = file \/ x.ver \in {-2, 0}
      BY <1>3, <1>4, <2>1, <3>1 DEF Known
    <3> QED
      BY <1>8, <2>3, <3>1, <3>2 DEF Agree
  <2> QED
    BY <2>2, <2>3
<1> QED
  BY <1>1, <1>6, <1>9, InitType, InitFlow DEF GenerationInv, AgreeInv

\* Every step keeps the numbering.
LEMMA NextGeneration == GenerationInv /\ [Next]_vars => GenerationInv'
<1> SUFFICES ASSUME GenerationInv, [Next]_vars PROVE GenerationInv'
  OBVIOUS
<1> USE DEF GenerationInv
<1>1. CASE Next
  <2>1. TypeOK' /\ FlowInv' /\ LoadInv' /\ WrittenInv'
    BY <1>1, NextType, NextFlow, LoadNext, WrittenNext
  <2>2. AgreeInv' /\ NumberInv'
    BY <1>1, <2>1, AgreeNext, NumberNext
  <2>3. OrderInv'
    BY <1>1, OrderNext, Zenon DEF OrderInv
  <2> QED
    BY <2>1, <2>2, <2>3
<1>2. CASE UNCHANGED vars
  <2>1. /\ UNCHANGED <<map, modified, loaded, memGen, memVer, commits, diskGen, queue, wpc, job>>
        /\ UNCHANGED <<outcome, file, backup, cpc, req, handled, result, acked, failed, overtaken>>
    BY <1>2 DEF vars, memoryVars, workVars, diskVars, clientVars, eventVars
  <2>2. TypeOK' /\ FlowInv'
    BY <2>1, NextType, FlowFrame DEF clientVars
  <2>3. LoadInv' /\ OrderInv' /\ WrittenInv'
    BY <2>1 DEF LoadInv, OrderInv, WrittenInv
  <2>4. Held' = Held /\ Memory' = Memory
    BY <2>1, Zenon DEF Held, Memory
  <2>5. Known' = Known
    BY <2>1, <2>4 DEF Known
  <2>6. NumberInv' /\ AgreeInv'
    BY <2>1, <2>4, <2>5, Zenon DEF NumberInv, Numbered, Base, AgreeInv, Agree
  <2> QED
    BY <2>2, <2>3, <2>6
<1> QED
  BY <1>1, <1>2

\* Generations are numbered, ordered and agree with the contents, always.
LEMMA GenerationInvariant == Spec => []GenerationInv
BY InitGeneration, NextGeneration, PTL DEF Spec

\* WriteToDiskFile: while the process lives the generation on disk never goes
\* back, unless a write failed and a flush was scheduled after a newer one.
THEOREM LatestOnDisk == Spec => DiskGenerationIsLatest
<1>1. ASSUME GenerationInv, [Next]_vars, crashes' = crashes, overtaken => "write" \notin failed
      PROVE  diskGen' >= diskGen
  <2>0. diskGen \in Nat /\ crashes \in Nat /\ job.gen \in Nat
    BY <1>1, BoundAssumption DEF GenerationInv, TypeOK, Requests
  <2>1. CASE diskGen' = diskGen
    BY <2>0, <2>1
  <2>2. CASE Crash
    BY <1>1, <2>0, <2>2 DEF Crash
  <2>3. CASE WriteFinish /\ diskGen' = job.gen
    <3>1. wpc = "finish" /\ wpc \in Active /\ wpc \in Writing
      BY <2>3 DEF WriteFinish, Active, Writing
    <3>2. diskGen <= job.gen
      BY <1>1, <3>1 DEF GenerationInv, OrderInv, WrittenInv
    <3> QED
      BY <2>0, <2>3, <3>2
  <2>4. CASE UNCHANGED vars
    BY <2>1, <2>4 DEF vars
  <2> QED
    BY <1>1, <2>1, <2>2, <2>3, <2>4, DiskGenNext
<1>2. GenerationInv /\ [Next]_vars =>
        [crashes' = crashes /\ (overtaken => "write" \notin failed) => diskGen' >= diskGen]_vars
  BY <1>1
<1> QED
  BY <1>2, GenerationInvariant, PTL DEF Spec, DiskGenerationIsLatest

-------------------------------------------------------------------------------
(* Durability.                                                              *)

\* A file system that was reliable up to now was so before.
LEMMA ReliableBefore ==
    ASSUME TypeOK, Next, Reliable'
    PROVE  Reliable /\ "remove" \notin failed' /\ "restore" \notin failed'
BY FailedGrows, OvertakenStays, Zenon DEF Reliable

\* Steps of a client do not touch the disk or the running task.
LEMMA ClientDisk ==
    ASSUME TypeOK, NEW c \in Clients, Client(c)
    PROVE  UNCHANGED <<wpc, job, outcome, file, backup, failed, diskGen>>
<1> USE DEF diskVars, workVars, eventVars
<1>1. CASE Quiet(c)
  BY <1>1, QuietView
<1>2. CASE (\E sync \in BOOLEAN : commitToMemory(c, sync)) \/ Schedule(c) \/ Return(c)
  BY <1>2, Zenon DEF commitToMemory, Schedule, Return
<1> QED
  BY <1>1, <1>2 DEF Client, Flushing, Quiet

\* Each step of a task leaves the file and the backup as the next one expects.
LEMMA StageNext ==
    ASSUME TypeOK, StageInv, Next, Reliable'
    PROVE  StageInv'
<1> USE DEF diskVars
<1>0. /\ "remove" \notin failed' /\ "restore" \notin failed' /\ failed \subseteq failed'
      /\ file \in Contents /\ backup \in Contents
  BY ReliableBefore, FailedGrows DEF TypeOK
<1>1. CASE LoadBegin
  <2>1. CASE backup = Absent
    BY <1>1, <2>1 DEF LoadBegin, StageInv
  <2>2. CASE backup # Absent
    <3>1. wpc' = "loadRename" /\ backup' = backup /\ Removed(file, file')
      BY <1>1, <2>2 DEF LoadBegin
    <3>2. file' = Absent
      BY <1>0, <3>1, RemovedFacts
    <3> QED
      BY <2>2, <3>1, <3>2, Zenon DEF StageInv
  <2> QED
    BY <2>1, <2>2
<1>2. CASE LoadRename
  BY <1>0, <1>2 DEF LoadRename, StageInv, Fails
<1>3. CASE LoadRead
  BY <1>3 DEF LoadRead, StageInv
<1>4. CASE WriteBegin
  <2>1. /\ wpc = "idle" /\ UNCHANGED <<file, backup, failed>> /\ job' = Head(queue)
        /\ wpc' \in {"save", "backup", "result"}
        /\ wpc' = "save" <=> file = Absent
        /\ wpc' = "backup" => diskGen < Head(queue).gen
    BY <1>4 DEF WriteBegin, CheckRequestValidForStateGeneration, eventVars
  <2>2. wpc' = "backup" => job'.gen > 0
    <3>1. queue \in Seq(Requests) /\ queue # <<>> /\ diskGen \in Nat
      BY <1>4 DEF WriteBegin, TypeOK
    <3>2. Head(queue) \in Requests
      BY <3>1, TailFacts
    <3>3. Head(queue).gen \in Nat
      BY <3>2 DEF Requests
    <3> QED
      BY <2>1, <3>1, <3>3
  <2> QED
    BY <2>1, <2>2, Zenon DEF StageInv
<1>5. CASE WriteBackup
  <2>1. /\ wpc = "backup" /\ backup = Absent
    BY <1>5 DEF WriteBackup, StageInv
  <2>2. \/ wpc' = "save" /\ file' = Absent
        \/ wpc' = "result" /\ backup' = Absent
    BY <1>5, <2>1 DEF WriteBackup
  <2> QED
    BY <2>2 DEF StageInv
<1>6. CASE SaveBegin
  BY <1>6, ContentFacts, Zenon DEF SaveBegin, StageInv, Fails
<1>7. CASE SaveEnd
  BY <1>7, ContentFacts, Zenon DEF SaveEnd, StageInv, Fails
<1>8. CASE WriteFinish
  <2>1. wpc' = "result" /\ Removed(backup, backup')
    BY <1>8 DEF WriteFinish
  <2>2. backup' = Absent
    BY <1>0, <2>1, RemovedFacts
  <2> QED
    BY <2>1, <2>2, Zenon DEF StageInv
<1>9. CASE WriteDiscard
  <2>1. wpc = "discard" /\ wpc' = "result" /\ Removed(file, file') /\ backup' = backup
    BY <1>9 DEF WriteDiscard
  <2>2. file' = Absent
    BY <1>0, <2>1, RemovedFacts
  <2> QED
    BY <1>0, <2>1, <2>2, Zenon DEF StageInv
<1>10. CASE SetHandled \/ Notify
  <2>1. /\ UNCHANGED <<file, backup, failed>> /\ wpc \in {"result", "notify"}
        /\ wpc' \in {"notify", "idle"}
    BY <1>10 DEF SetHandled, Notify, eventVars
  <2> QED
    BY <2>1 DEF StageInv
<1>11. CASE Crash
  BY <1>11, Zenon DEF Crash, StageInv
<1>12. CASE \E c \in Clients : Client(c)
  BY <1>12, ClientDisk DEF StageInv
<1> QED
  BY <1>1, <1>2, <1>3, <1>4, <1>5, <1>6, <1>7, <1>8, <1>9, <1>10, <1>11, <1>12
     DEF Next, Worker, LoadFromDisk, WriteToDiskFile

\* A backup is made before anything that is newer than it is written.
LEMMA BackupNext ==
    ASSUME TypeOK, NumberInv, OrderInv, StageInv, BackupInv, LoadInv, Next, Reliable'
    PROVE  BackupInv'
<1> USE DEF diskVars, workVars, eventVars, memoryVars
<1>0. /\ queue \in Seq(Requests) /\ req \in [Clients -> Requests] /\ memGen \in Nat /\ job \in Requests
  BY DEF TypeOK
<1>f. ASSUME UNCHANGED <<queue, memGen, overtaken>>, wpc' \notin Loading => wpc \notin Loading,
             backup' = backup \/ backup' = Absent
      PROVE  BackupInv'
  BY <1>f DEF BackupInv
<1>1. CASE LoadBegin \/ LoadRename
  BY <1>1, Zenon DEF LoadBegin, LoadRename, BackupInv, Loading
<1>2. CASE LoadRead
  BY <1>2 DEF LoadRead, BackupInv, StageInv
<1>3. CASE WriteBegin
  <2>1. /\ queue # <<>> /\ queue' = Tail(queue) /\ wpc = "idle" /\ wpc \notin Loading
        /\ UNCHANGED <<memGen, overtaken, backup>>
    BY <1>3 DEF WriteBegin, Loading
  <2>2. \A i \in 1..Len(queue') : i + 1 \in 1..Len(queue) /\ queue'[i] = queue[i + 1]
    BY <1>0, <2>1, TailFacts
  <2> QED
    BY <2>1, <2>2 DEF BackupInv
<1>4. CASE WriteBackup
  <2>1. /\ wpc = "backup" /\ wpc \in Active /\ UNCHANGED <<memGen, overtaken, queue>>
        /\ job.gen > 0 /\ job.gen \in Nat
    BY <1>0, <1>4 DEF WriteBackup, Active, StageInv, Requests
  <2>2. job.gen <= memGen
    BY DEF NumberInv, Numbered, Held
  <2>3. \A i \in 1..Len(queue) : queue[i].gen \in Nat
    <3>1. \A i \in 1..Len(queue) : queue[i] \in Requests
      BY <1>0
    <3>2. \A r \in Requests : r.gen \in Nat
      BY DEF Requests
    <3> QED
      BY <3>1, <3>2
  <2>4. memGen > 0
    BY <1>0, <2>1, <2>2
  <2>5. ~overtaken => \A i \in 1..Len(queue) : queue[i].gen > 0
    BY <2>1, <2>3 DEF OrderInv
  <2> QED
    BY <2>1, <2>4, <2>5 DEF BackupInv
<1>5. CASE SaveBegin \/ SaveEnd \/ WriteDiscard \/ SetHandled \/ Notify
  BY <1>5, <1>f, Zenon DEF SaveBegin, SaveEnd, WriteDiscard, SetHandled, Notify, Loading
<1>6. CASE WriteFinish
  <2>1. backup' = backup \/ backup' = Absent
    BY <1>6 DEF WriteFinish, Removed
  <2> QED
    BY <1>6, <2>1, <1>f DEF WriteFinish, Loading
<1>7. CASE Crash
  BY <1>7, Zenon DEF Crash, BackupInv, Loading
<1>8. ASSUME NEW c \in Clients, Client(c) PROVE BackupInv'
  <2>0. UNCHANGED <<wpc, backup>>
    BY <1>8, ClientDisk
  <2>1. CASE Quiet(c)
    BY <2>1, <1>f, QuietView
  <2>2. CASE Return(c)
    BY <2>2, <1>f DEF Return
  <2>3. ASSUME NEW sync \in BOOLEAN, commitToMemory(c, sync) PROVE BackupInv'
    <3>1. UNCHANGED <<queue, overtaken>> /\ (memGen' = memGen \/ memGen' = memGen + 1)
      BY <2>3 DEF commitToMemory
    <3> QED
      BY <1>0, <2>0, <3>1 DEF BackupInv
  <2>4. CASE Schedule(c)
    <3>1. /\ queue' = Append(queue, req[c]) /\ memGen' = memGen /\ req[c] \in Requests
          /\ ~overtaken' => ~overtaken /\ ~(req[c].gen < memGen)
      BY <1>0, <2>4, Zenon DEF Schedule
    <3>2. \A i \in 1..Len(queue') : (i \in 1..Len(queue) /\ queue'[i] = queue[i]) \/ queue'[i] = req[c]
      BY <1>0, <3>1, AppendFacts
    <3>3. req[c].gen \in Nat
      BY <3>1 DEF Requests
    <3>4. ~overtaken' /\ memGen > 0 => req[c].gen > 0
      BY <1>0, <3>1, <3>3
    <3> QED
      BY <2>0, <3>1, <3>2, <3>4 DEF BackupInv
  <2> QED
    BY <1>8, <2>1, <2>2, <2>3, <2>4 DEF Client, Flushing, Quiet
<1> QED
  BY <1>1, <1>2, <1>3, <1>4, <1>5, <1>6, <1>7, <1>8 DEF Next, Worker, LoadFromDisk, WriteToDiskFile

\* Within a process the number of its first generation does not change.
LEMMA BaseKept ==
    ASSUME TypeOK, TypeOK', LoadInv, NumberInv, Next
    PROVE  Base \in Nat /\ (Crash \/ Base' = Base)
<1>0. memGen \in Nat /\ commits \in Nat /\ memGen <= commits
  BY DEF TypeOK, NumberInv
<1>1. Base \in Nat
  BY <1>0 DEF Base
<1>2. CASE memGen' = memGen /\ commits' = commits
  BY <1>1, <1>2 DEF Base
<1>3. CASE memGen' = memGen + 1 /\ commits' = commits + 1
  BY <1>0, <1>1, <1>3 DEF Base
<1> QED
  BY <1>1, <1>2, <1>3, MemoryNext

\* What can be recovered changes in two ways only: it becomes the content of the
\* running task, or one incomplete file becomes another.
LEMMA RecoveredNext ==
    ASSUME TypeOK, StageInv, Next, Reliable'
    PROVE  \/ Recovered' = Recovered
           \/ /\ wpc \in {"save", "discard"} /\ wpc' \in {"saving", "result"} /\ UNCHANGED diskGen
              /\ ~Crash /\ ~Complete(Recovered) /\ Recovered' \in {Absent, Torn}
           \/ /\ wpc = "saving" /\ wpc' = "finish" /\ UNCHANGED <<job, diskGen>> /\ ~Crash
              /\ ~Complete(Recovered) /\ Recovered' = job.content
           \/ WriteFinish /\ Recovered' = job.content
<1> USE DEF diskVars, Recovered
<1>0. /\ "remove" \notin failed' /\ "restore" \notin failed'
      /\ file \in Contents /\ backup \in Contents
  BY ReliableBefore DEF TypeOK
<1>1. CASE LoadBegin
  BY <1>1 DEF LoadBegin
<1>2. CASE LoadRename
  BY <1>0, <1>2, Zenon DEF LoadRename, StageInv, Fails
<1>3. CASE LoadRead \/ WriteBegin \/ SetHandled \/ Notify \/ Crash
  BY <1>3, Zenon DEF LoadRead, WriteBegin, SetHandled, Notify, Crash
<1>4. CASE WriteBackup
  BY <1>4, Zenon DEF WriteBackup, StageInv
<1>5. CASE SaveBegin
  <2>1. /\ wpc = "save" /\ file = Absent /\ backup' = backup
        /\ file' = file \/ (file' = Torn /\ wpc' = "saving")
        /\ UNCHANGED diskGen /\ ~Crash
    BY <1>5 DEF SaveBegin, StageInv, Crash
  <2> QED
    BY <2>1, ContentFacts
<1>6. CASE SaveEnd
  <2>1. /\ wpc = "saving" /\ file = Torn /\ backup' = backup
        /\ file' = file \/ (file' = job.content /\ wpc' = "finish")
        /\ UNCHANGED <<job, diskGen>> /\ ~Crash
    BY <1>6 DEF SaveEnd, StageInv, Crash
  <2> QED
    BY <2>1, ContentFacts, Zenon
<1>7. CASE WriteFinish
  <2>1. file' = job.content /\ Removed(backup, backup')
    BY <1>7 DEF WriteFinish, StageInv
  <2>2. backup' = Absent
    BY <1>0, <2>1, RemovedFacts
  <2> QED
    BY <1>7, <2>1, <2>2
<1>8. CASE WriteDiscard
  <2>1. /\ wpc = "discard" /\ wpc' = "result" /\ ~Complete(file) /\ backup' = backup
        /\ Removed(file, file') /\ UNCHANGED diskGen /\ ~Crash
    BY <1>8 DEF WriteDiscard, StageInv, Crash
  <2>2. file' = Absent
    BY <1>0, <2>1, RemovedFacts
  <2> QED
    BY <2>1, <2>2
<1>9. CASE \E c \in Clients : Client(c)
  BY <1>9, ClientDisk, Zenon
<1> QED
  BY <1>1, <1>2, <1>3, <1>4, <1>5, <1>6, <1>7, <1>8, <1>9, Zenon
     DEF Next, Worker, LoadFromDisk, WriteToDiskFile

\* The numbers the next lemmas compute with.
LEMMA DiskNumbers ==
    ASSUME TypeOK
    PROVE  /\ Recovered.ver \in Int /\ job.content.ver \in Int /\ job.gen \in Nat
           /\ diskGen \in Nat /\ Absent.ver = -2 /\ Torn.ver = -1
<1>1. \A x \in Contents : x.ver \in Int
  BY BoundAssumption DEF Contents
<1>2. Recovered \in Contents /\ job.content \in Contents /\ job.gen \in Nat /\ diskGen \in Nat
  BY DEF TypeOK, Recovered, Requests
<1> QED
  BY <1>1, <1>2, Zenon DEF Absent, Torn

\* So it never gets older.
LEMMA RecoveredGrows ==
    ASSUME TypeOK, TypeOK', StageInv, NewestInv, Next, Reliable'
    PROVE  \A v \in Int : Promise(v) => Promise(v)'
<1> SUFFICES ASSUME NEW v \in Int, Promise(v), v > 0 PROVE Recovered'.ver >= v
  BY DEF Promise
<1>0. Recovered.ver \in Int /\ job.content.ver \in Int
  BY DiskNumbers
<1>1. Recovered.ver >= v /\ Complete(Recovered)
  BY <1>0 DEF Promise, Complete
<1>2. CASE Recovered' = Recovered
  BY <1>1, <1>2
<1>3. CASE WriteFinish /\ Recovered' = job.content
  <2>1. Recovered.ver <= job.content.ver
    BY <1>3 DEF WriteFinish, NewestInv, Writing
  <2> QED
    BY <1>0, <1>1, <1>3, <2>1
<1> QED
  BY <1>1, <1>2, <1>3, RecoveredNext

\* A task writes only what is not older than what can be recovered.
LEMMA NewestNext ==
    ASSUME GenerationInv, GenerationInv', StageInv, BackupInv, NewestInv, Next, Reliable'
    PROVE  NewestInv'
<1> USE DEF GenerationInv
<1>0. /\ Recovered.ver \in Int /\ job.content.ver \in Int /\ job.gen \in Nat /\ diskGen \in Nat
      /\ Absent.ver = -2 /\ Torn.ver = -1
  BY DiskNumbers, Zenon
<1>b. Base \in Nat /\ (Crash \/ Base' = Base)
  BY BaseKept
<1>j. /\ job.gen > 0 => job.content.ver = Base + job.gen
      /\ job.gen = 0 => job.content.ver <= Base
  BY DEF NumberInv, Numbered, Held
<1>a. wpc \in Active => job.content.ver >= 0
  BY DEF FlowInv, JobInv
<1>1. CASE Crash
  <2>1. Recovered' = Recovered /\ diskGen' = 0 /\ wpc' = "load" /\ Base' = commits
    BY <1>1 DEF Crash, Recovered, diskVars, Base, TypeOK
  <2>2. Recovered.ver <= commits /\ commits \in Nat
    <3>0. commits \in Nat
      BY DEF TypeOK
    <3>1. Recovered \in Known
      BY Zenon DEF Known, Recovered
    <3>2. \A x \in Known : x.ver <= commits
      BY Zenon DEF AgreeInv, Agree
    <3> QED
      BY <3>0, <3>1, <3>2, Zenon
  <2> QED
    BY <1>0, <2>1, <2>2 DEF NewestInv, Writing
<1>2. CASE WriteBegin
  <2>1. /\ queue \in Seq(Requests) /\ queue # <<>> /\ job' = Head(queue) /\ wpc = "idle"
        /\ UNCHANGED <<diskGen, file, backup>> /\ wpc' \in {"save", "backup", "result"}
        /\ wpc' = "save" => file = Absent
        /\ wpc' = "backup" => diskGen < Head(queue).gen
    BY <1>2, Zenon DEF WriteBegin, CheckRequestValidForStateGeneration, diskVars, TypeOK
  <2>2. /\ Head(queue) = queue[1] /\ 1 \in 1..Len(queue) /\ queue[1] \in Requests
    BY <2>1, TailFacts
  <2>3. /\ queue[1].gen \in Nat /\ queue[1].content.ver \in Int /\ queue[1].content.ver >= 0
        /\ queue[1].gen > 0 => queue[1].content.ver = Base + queue[1].gen
    <3>1. queue[1].gen \in Nat /\ queue[1].content.ver \in Int
      BY <2>2, BoundAssumption DEF Requests, Contents
    <3>2. queue[1] \in Held
      BY <2>2 DEF Held
    <3> QED
      BY <2>2, <3>1, <3>2, Zenon DEF NumberInv, Numbered, FlowInv, QueueInv
  <2>4. Recovered' = Recovered /\ ~Crash /\ Recovered.ver <= Base + diskGen
    BY <2>1, Zenon DEF Recovered, NewestInv, Crash
  <2>5. wpc' = "backup" => Recovered.ver <= queue[1].content.ver
    BY <1>0, <1>b, <2>1, <2>2, <2>3, <2>4, SMTT(30)
  <2>6. wpc' = "save" => Recovered.ver <= queue[1].content.ver
    <3>1. CASE file = Absent /\ backup = Absent
      <4>1. Recovered.ver = -2
        BY <1>0, <3>1 DEF Recovered
      <4> QED
        BY <2>3, <4>1
    <3>2. CASE file = Absent /\ backup # Absent
      <4>1. "write" \in failed
        BY <2>1, <3>2 DEF StageInv
      <4>2. ~overtaken
        BY <4>1, ReliableBefore DEF Reliable
      <4>3. queue[1].gen > 0 /\ diskGen <= queue[1].gen
        BY <2>1, <2>2, <3>2, <4>2 DEF BackupInv, OrderInv, Loading
      <4> QED
        BY <1>0, <1>b, <2>3, <2>4, <4>3
    <3> QED
      BY <2>1, <3>1, <3>2
  <2> QED
    BY <1>b, <2>1, <2>2, <2>4, <2>5, <2>6, Zenon DEF NewestInv, Writing
<1>3. CASE ~Crash /\ ~WriteBegin /\ Recovered' = Recovered /\ ~WriteFinish
  <2>1. diskGen' = diskGen /\ Base' = Base
    BY <1>3, <1>b, DiskGenNext
  <2>2. /\ wpc' \in Writing => wpc \in Writing /\ job' = job
        /\ wpc = "finish" => wpc' = "finish"
    <3>1. CASE LoadFromDisk
      BY <3>1 DEF LoadFromDisk, LoadBegin, LoadRename, LoadRead, Writing
    <3>2. CASE WriteBackup \/ SaveBegin \/ SaveEnd \/ WriteDiscard \/ SetHandled \/ Notify
      BY <3>2, Zenon DEF WriteBackup, SaveBegin, SaveEnd, WriteDiscard, SetHandled, Notify, Writing
    <3>3. CASE \E c \in Clients : Client(c)
      BY <3>3, ClientDisk
    <3> QED
      BY <1>3, <3>1, <3>2, <3>3 DEF Next, Worker, WriteToDiskFile
  <2> QED
    BY <1>3, <2>1, <2>2 DEF NewestInv
<1>4. CASE /\ wpc \in {"save", "discard"} /\ wpc' \in {"saving", "result"} /\ UNCHANGED diskGen
           /\ ~Crash /\ Recovered' \in {Absent, Torn} /\ ~WriteBegin /\ ~WriteFinish
  <2>1. Recovered'.ver < 0 /\ Recovered'.ver \in Int /\ Base' = Base
    BY <1>0, <1>b, <1>4, SMTT(30)
  <2>2. wpc' \in Writing => job'.content.ver >= 0 /\ job'.content.ver \in Int
    <3>1. wpc' \in Writing => job'.content.ver >= 0
      BY Zenon DEF FlowInv, JobInv, Writing, Active
    <3>2. job' \in Requests
      BY DEF TypeOK
    <3> QED
      BY <3>1, <3>2, BoundAssumption DEF Requests, Contents
  <2> QED
    BY <1>0, <1>b, <1>4, <2>1, <2>2, SMTT(30) DEF NewestInv
<1>5. CASE wpc' = "finish" /\ job' = job /\ Recovered' = job.content
  BY <1>0, <1>5 DEF NewestInv
<1>6. CASE WriteFinish
  <2>1. Recovered' = job.content /\ diskGen' = job.gen /\ wpc' = "result" /\ wpc = "finish"
    <3>1. diskGen' = job.gen /\ wpc' = "result" /\ wpc = "finish"
      BY <1>6 DEF WriteFinish
    <3>2. file' = job.content /\ backup' = Absent
      <4>1. file' = job.content /\ Removed(backup, backup') /\ backup \in Contents
        BY <1>6, <3>1, Zenon DEF WriteFinish, StageInv, TypeOK
      <4>2. "remove" \notin failed'
        BY ReliableBefore
      <4> QED
        BY <4>1, <4>2, RemovedFacts
    <3> QED
      BY <3>1, <3>2 DEF Recovered
  <2>2. Base' = Base
    BY <1>b, <2>1 DEF Crash
  <2> QED
    BY <1>0, <1>b, <1>j, <2>1, <2>2 DEF NewestInv, Writing
<1>7. WriteBegin => wpc = "idle"
  BY DEF WriteBegin
<1> QED
  BY <1>1, <1>2, <1>3, <1>4, <1>5, <1>6, <1>7, RecoveredNext

\* At its end a write is what can be recovered.
LEMMA FinishRecovered ==
    ASSUME TypeOK, StageInv, Next, Reliable', WriteFinish
    PROVE  Recovered' = job.content
<1>1. file' = job.content /\ Removed(backup, backup') /\ backup \in Contents
  BY DEF WriteFinish, StageInv, TypeOK
<1>2. "remove" \notin failed'
  BY ReliableBefore
<1>3. backup' = Absent
  BY <1>1, <1>2, RemovedFacts
<1> QED
  BY <1>1, <1>3, Zenon DEF Recovered

\* FlushSync reports success, and memory is built, only on what can be recovered.
LEMMA PromiseNext ==
    ASSUME GenerationInv, GenerationInv', StageInv, PromiseInv, NewestInv, Next, Reliable'
    PROVE  PromiseInv'
<1> USE DEF GenerationInv
<1>0. /\ Recovered.ver \in Int /\ job.content.ver \in Int /\ job.gen \in Nat /\ diskGen \in Nat
  BY DiskNumbers
<1>k. \A v \in Int : Promise(v) => Promise(v)'
  BY RecoveredGrows
<1>r. \A r \in Held : r \in Requests /\ r.gen \in Nat /\ r.content.ver \in Int
  BY HeldTypes, BoundAssumption DEF Requests, Contents
<1>c. \A c \in Clients : req[c] \in Held /\ req[c].content.ver \in Int
  BY <1>r DEF Held
<1>n. /\ NoRequest.content.ver \in Int /\ Promise(NoRequest.content.ver)'
      /\ NoRequest.content.ver = -2 /\ \A v \in Int : v <= 0 => Promise(v)'
  BY DEF NoRequest, Absent, Promise
<1>b. Base \in Nat /\ (Crash \/ Base' = Base)
  BY BaseKept
<1>1. Promise(acked.ver)'
  <2>1. acked' = acked \/ \E c \in Clients : acked' = req[c].content /\ result[c] = "E_OK"
    <3>1. CASE LoadFromDisk
      BY <3>1 DEF LoadFromDisk, LoadBegin, LoadRename, LoadRead
    <3>2. CASE WriteToDiskFile
      BY <3>2, Zenon DEF WriteToDiskFile, WriteBegin, WriteBackup, SaveBegin, SaveEnd, WriteFinish,
         WriteDiscard, SetHandled, Notify
    <3>3. CASE Crash
      BY <3>3, Zenon DEF Crash
    <3>4. CASE \E c \in Clients : Client(c)
      BY <3>4, Zenon DEF Client, Flushing, PutPreferencesValue, Delete, Clear, commitToMemory,
         Schedule, CheckHandled, Block, SpuriousWakeup, Return
    <3> QED
      BY <3>1, <3>2, <3>3, <3>4, Zenon DEF Next, Worker
  <2>2. acked.ver \in Int
    BY BoundAssumption DEF TypeOK, Contents
  <2>3. \A x : x.ver \in Int /\ Promise(x.ver) => Promise(x.ver)'
    BY <1>k
  <2>4. Promise(acked.ver) /\ \A c \in Clients : result[c] = "E_OK" => Promise(req[c].content.ver)
    BY DEF PromiseInv
  <2>5. PICK x : x = acked' /\ x.ver \in Int /\ Promise(x.ver)
    BY <1>c, <2>1, <2>2, <2>4
  <2> QED
    BY <2>3, <2>5 DEF Promise
<1>2. \A c \in Clients : result'[c] = "E_OK" => Promise(req[c].content.ver)'
  <2> SUFFICES ASSUME NEW d \in Clients, result'[d] = "E_OK" PROVE Promise(req[d].content.ver)'
    OBVIOUS
  <2>t. result \in [Clients -> {"E_OK", "E_ERROR"}] /\ req \in [Clients -> Requests]
    BY Zenon DEF TypeOK
  <2>1. PICK r : /\ r = req'[d] /\ r.content.ver \in Int
                 /\ r = NoRequest \/ Promise(r.content.ver)
    <3>f. ASSUME req'[d] = req[d], result'[d] = result[d]
          PROVE  req'[d].content.ver \in Int /\ Promise(req[d].content.ver)
      BY <1>c, <3>f DEF PromiseInv
    <3>1. CASE SetHandled
      <4>1. req' = req /\ (~job.sync => result' = result)
        BY <3>1 DEF SetHandled
      <4>2. CASE job.sync /\ job.owner = d
        <5>1. req[d] = job /\ wpc = "result" /\ outcome = "E_OK"
          BY <2>t, <3>1, <4>2, Zenon DEF SetHandled, FlowInv, JobInv, Awaited, Active
        <5> QED
          BY <1>0, <4>1, <4>2, <5>1, Zenon DEF PromiseInv
      <4>3. CASE job.sync /\ job.owner # d
        <5>1. result'[d] = result[d]
          BY <2>t, <3>1, <4>3 DEF SetHandled
        <5> QED
          BY <3>f, <4>1, <5>1, Zenon
      <4> QED
        BY <3>f, <4>1, <4>2, <4>3, Zenon
    <3>2. CASE Crash
      BY <3>2, Zenon DEF Crash
    <3>3. ASSUME LoadFromDisk PROVE req'[d] = req[d] /\ result'[d] = result[d]
      BY <3>3, Zenon DEF LoadFromDisk, LoadBegin, LoadRename, LoadRead, clientVars
    <3>4. ASSUME \/ WriteBegin \/ WriteBackup \/ SaveBegin \/ SaveEnd \/ WriteFinish
                 \/ WriteDiscard \/ Notify
          PROVE  req'[d] = req[d] /\ result'[d] = result[d]
      BY <3>4, Zenon DEF WriteBegin, WriteBackup, SaveBegin, SaveEnd, WriteFinish,
         WriteDiscard, Notify, clientVars
    <3>5. ASSUME NEW c \in Clients, Client(c)
          PROVE  (req'[d] = req[d] /\ result'[d] = result[d]) \/ req'[d] = NoRequest
      <4>1. CASE Quiet(c)
        BY <4>1, QuietView, Zenon
      <4>2. ASSUME NEW sync \in BOOLEAN, commitToMemory(c, sync) PROVE d # c
        BY <4>2, Zenon DEF commitToMemory, FlowInv, ClientInv
      <4>3. CASE \E sync \in BOOLEAN : commitToMemory(c, sync)
        BY <2>t, <4>2, <4>3, Zenon DEF commitToMemory
      <4>4. CASE Schedule(c)
        BY <2>t, <4>4 DEF Schedule
      <4>5. CASE Return(c)
        BY <2>t, <4>5, Zenon DEF Return
      <4> QED
        BY <3>5, <4>1, <4>3, <4>4, <4>5, Zenon DEF Client, Flushing, Quiet
    <3>6. \/ SetHandled \/ Crash
          \/ (req'[d] = req[d] /\ result'[d] = result[d]) \/ req'[d] = NoRequest
      BY <3>3, <3>4, <3>5, Zenon DEF Next, Worker, WriteToDiskFile
    <3> QED
      BY <1>n, <3>f, <3>1, <3>2, <3>6, Zenon
  <2>2. Promise(r.content.ver)'
    BY <1>k, <1>n, <2>1, Zenon
  <2> QED
    BY <2>1, <2>2 DEF Promise
<1>3. (wpc = "result" /\ outcome = "E_OK" /\ job.sync => Promise(job.content.ver))'
  <2> SUFFICES ASSUME wpc' = "result", outcome' = "E_OK", job'.sync
               PROVE  Promise(job.content.ver)'
    OBVIOUS
  <2>1. CASE wpc = "result" /\ UNCHANGED <<outcome, job>>
    BY <1>0, <1>k, <2>1, Zenon DEF PromiseInv, Promise
  <2>2. CASE WriteFinish
    <3>1. Recovered' = job.content /\ job' = job
      BY <2>2, FinishRecovered, Zenon DEF WriteFinish
    <3> QED
      BY <1>0, <3>1 DEF Promise
  <2>3. CASE WriteBegin
    <3>1. /\ queue \in Seq(Requests) /\ queue # <<>> /\ job' = Head(queue)
          /\ UNCHANGED <<file, backup>>
          /\ ~(diskGen < Head(queue).gen /\ Head(queue).sync)
      BY <2>3, Zenon DEF WriteBegin, CheckRequestValidForStateGeneration, diskVars, TypeOK
    <3>2. /\ job' = queue[1] /\ queue[1] \in Held
      <4>1. Head(queue) = queue[1] /\ 1 \in 1..Len(queue)
        BY <3>1, TailFacts
      <4> QED
        BY <3>1, <4>1, Zenon DEF Held
    <3>3. /\ queue[1].gen \in Nat /\ queue[1].content.ver \in Int
          /\ queue[1].gen > 0 => queue[1].content.ver = Base + queue[1].gen
          /\ queue[1].gen = 0 => Promise(queue[1].content.ver)
      BY <1>r, <3>2, Zenon DEF NumberInv, Numbered, PromiseInv
    <3>4. Recovered' = Recovered
      BY <3>1 DEF Recovered
    <3>5. ~(diskGen < queue[1].gen)
      BY <3>1, <3>2
    <3>6. CASE queue[1].gen = 0
      BY <3>2, <3>3, <3>4, <3>6, Zenon DEF Promise
    <3>7. CASE queue[1].gen > 0
      <4>1. diskGen > 0 /\ diskGen >= queue[1].gen
        BY <1>0, <3>3, <3>5, <3>7
      <4>2. Recovered.ver >= Base + diskGen
        BY <4>1, Zenon DEF PromiseInv
      <4>3. Recovered.ver >= queue[1].content.ver
        BY <1>0, <1>b, <3>3, <3>7, <4>1, <4>2, SMTT(30)
      <4> QED
        BY <3>2, <3>4, <4>3 DEF Promise
    <3> QED
      BY <3>3, <3>6, <3>7, SMTT(30)
  <2>4. CASE LoadFromDisk \/ WriteBackup \/ SaveBegin \/ SaveEnd \/ WriteDiscard \/ SetHandled \/ Notify
    BY <2>4, Zenon DEF LoadFromDisk, LoadBegin, LoadRename, LoadRead, WriteBackup, SaveBegin, SaveEnd,
       WriteDiscard, SetHandled, Notify
  <2>5. CASE Crash
    BY <2>5 DEF Crash
  <2>6. CASE \E c \in Clients : Client(c)
    BY <2>1, <2>6, ClientDisk
  <2> QED
    BY <2>2, <2>3, <2>4, <2>5, <2>6 DEF Next, Worker, WriteToDiskFile
<1>4. memGen' = 0 => Promise(memVer)'
  <2> SUFFICES ASSUME memGen' = 0 PROVE Promise(memVer)'
    OBVIOUS
  <2>0. memVer \in Int /\ memGen \in Nat /\ file.ver \in Int
    BY BoundAssumption DEF TypeOK, Contents
  <2>1. CASE memGen' = memGen /\ memVer' = memVer
    BY <1>k, <2>0, <2>1, Zenon DEF PromiseInv, Promise
  <2>2. CASE wpc = "loadRead" /\ UNCHANGED <<file, backup>> /\ memVer' = file.ver
    <3>1. Recovered' = file
      BY <2>2 DEF StageInv, Recovered
    <3> QED
      BY <2>0, <2>2, <3>1 DEF Promise
  <2>3. CASE memGen' = memGen + 1
    BY <2>0, <2>3
  <2>4. CASE Crash
    BY <2>4 DEF Crash, Promise
  <2>5. Memory' = Memory => memVer' = memVer
    BY Zenon DEF Memory
  <2>6. Memory' = file => memVer' = file.ver
    BY DEF Memory
  <2> QED
    BY <2>1, <2>2, <2>3, <2>4, <2>5, <2>6, MemoryNext
<1>5. \A r \in Held' : r.gen = 0 => Promise(r.content.ver)'
  <2> SUFFICES ASSUME NEW r \in Held', r.gen = 0 PROVE Promise(r.content.ver)'
    OBVIOUS
  <2>1. CASE r \in Held
    BY <1>k, <1>r, <2>1 DEF PromiseInv
  <2>2. CASE r = NoRequest
    BY <1>n, <2>2
  <2>3. CASE Fresh(r)'
    <3>1. memGen' = 0 /\ r.content.ver = memVer'
      BY <2>3 DEF Fresh, Memory
    <3> QED
      BY <1>4, <3>1, Zenon DEF Promise
  <2> QED
    BY <2>1, <2>2, <2>3, HeldNext
<1>6. diskGen' > 0 => Recovered'.ver >= Base' + diskGen'
  <2>1. CASE Crash /\ diskGen' = 0
    BY <2>1
  <2>2. CASE WriteFinish /\ diskGen' = job.gen
    <3>1. Recovered' = job.content /\ Base' = Base
      BY <1>b, <2>2, FinishRecovered, Zenon DEF WriteFinish, Crash
    <3>2. job.gen > 0 => job.content.ver = Base + job.gen
      BY Zenon DEF NumberInv, Numbered, Held
    <3> QED
      BY <1>0, <1>b, <2>2, <3>1, <3>2
  <2>3. CASE diskGen' = diskGen /\ ~Crash
    <3>1. SUFFICES ASSUME diskGen > 0 PROVE Recovered'.ver >= Base + diskGen
      BY <1>b, <2>3, Zenon
    <3>2. Promise(Base + diskGen) /\ Base + diskGen \in Int /\ Base + diskGen > 0
      BY <1>0, <1>b, <3>1, SMTT(30) DEF PromiseInv, Promise
    <3> QED
      BY <1>k, <3>2 DEF Promise
  <2>4. CASE diskGen' = diskGen /\ Crash
    BY <2>4 DEF Crash
  <2> QED
    BY <2>1, <2>2, <2>3, <2>4, DiskGenNext
<1> QED
  BY <1>1, <1>2, <1>3, <1>4, <1>5, <1>6, Zenon DEF PromiseInv

\* A new PreferencesImpl promises the file it finds, and that is on disk.
LEMMA InitDurable == Init => DurableInv
<1> SUFFICES ASSUME Init PROVE StageInv /\ BackupInv /\ PromiseInv /\ NewestInv
  BY DEF DurableInv
<1>1. StageInv /\ BackupInv
  BY Zenon DEF Init, StageInv, BackupInv, Loading
<1>2. Recovered = file
  BY Zenon DEF Init, Recovered
<1>3. Absent.ver = -2
  BY Zenon DEF Absent
<1>4. memGen = 0 /\ diskGen = 0 /\ memVer = 0 /\ wpc = "load" /\ commits \in {0, 1}
  BY DEF Init
<1>5. file.ver <= commits /\ (acked.ver > 0 => file.ver >= acked.ver)
  <2>1. CASE file = Absent
    <3>1. acked.ver = 0
      BY <2>1 DEF Init
    <3> QED
      BY <1>3, <1>4, <2>1, <3>1
  <2>2. CASE file # Absent
    <3>1. acked = file /\ commits = 1 /\ file.ver = 1
      BY <2>2, SMTT(30) DEF Init
    <3> QED
      BY <3>1
  <2> QED
    BY <2>1, <2>2
<1>6. queue = <<>> /\ job = NoRequest /\ \A c \in Clients : req[c] = NoRequest /\ result[c] = "E_ERROR"
  BY Zenon DEF Init
<1>7. \A r \in Held : r.content.ver = -2
  <2>1. NoRequest.content.ver = -2
    BY <1>3, Zenon DEF NoRequest
  <2>2. \A r \in Held : r = NoRequest
    BY <1>6 DEF Held
  <2> QED
    BY <2>1, <2>2, Zenon
<1>8. PromiseInv
  BY <1>2, <1>4, <1>5, <1>6, <1>7 DEF PromiseInv, Promise
<1>9. NewestInv
  BY <1>2, <1>4, <1>5 DEF NewestInv, Writing, Base
<1> QED
  BY <1>1, <1>8, <1>9

\* Every step of a reliable file system keeps the promises.
LEMMA NextDurable ==
    ASSUME GenerationInv, GenerationInv', DurableInv, [Next]_vars
    PROVE  DurableInv'
<1>1. CASE Next
  <2> SUFFICES ASSUME Reliable' PROVE StageInv' /\ BackupInv' /\ PromiseInv' /\ NewestInv'
    BY DEF DurableInv
  <2>1. StageInv /\ BackupInv /\ PromiseInv /\ NewestInv
    BY <1>1, ReliableBefore DEF DurableInv, GenerationInv
  <2> QED
    BY <1>1, <2>1, StageNext, BackupNext, PromiseNext, NewestNext DEF GenerationInv
<1>2. CASE UNCHANGED vars
  <2>1. /\ UNCHANGED <<map, modified, loaded, memGen, memVer, commits, diskGen, queue, wpc, job>>
        /\ UNCHANGED <<outcome, file, backup, cpc, req, handled, result, acked, failed, overtaken>>
    BY <1>2 DEF vars, memoryVars, workVars, diskVars, clientVars, eventVars
  <2>2. Held' = Held /\ Recovered' = Recovered /\ Base' = Base /\ Reliable' = Reliable
    BY <2>1, Zenon DEF Held, Recovered, Base, Reliable
  <2>3. (StageInv => StageInv') /\ (BackupInv => BackupInv')
    BY <2>1, Zenon DEF StageInv, BackupInv
  <2>4. (PromiseInv => PromiseInv') /\ (NewestInv => NewestInv')
    BY <2>1, <2>2, Zenon DEF PromiseInv, Promise, NewestInv
  <2> QED
    BY <2>2, <2>3, <2>4 DEF DurableInv
<1> QED
  BY <1>1, <1>2

\* FlushSync is durable, for any number of clients, commits, failures and
\* crashes: what it acknowledged, or something newer, is what a crash brings back.
THEOREM FlushDurable == Spec => []AckedDurable
<1>1. GenerationInv /\ DurableInv => AckedDurable
  <2> SUFFICES ASSUME GenerationInv, DurableInv, acked.ver > 0, Reliable
               PROVE  Recovered.ver > acked.ver \/ Recovered = acked
    BY DEF AckedDurable, Reliable
  <2>1. Recovered \in Known /\ acked \in Known /\ Recovered \in Contents /\ acked \in Contents
    BY Zenon DEF Known, Recovered, GenerationInv, TypeOK
  <2>2. Recovered.ver >= acked.ver /\ Recovered.ver \in Int /\ acked.ver \in Int
    BY <2>1, BoundAssumption DEF DurableInv, PromiseInv, Promise, Contents
  <2>3. CASE Recovered.ver = acked.ver
    <3>1. PICK h \in [1..MaxCommits -> Maps] : Agree(h)
      BY DEF GenerationInv, AgreeInv
    <3>2. Recovered.map = acked.map
      BY <2>1, <2>3, <3>1 DEF Agree
    <3> QED
      BY <2>1, <2>3, <3>2 DEF Contents
  <2> QED
    BY <2>2, <2>3
<1>2. Init => GenerationInv /\ DurableInv
  BY InitGeneration, InitDurable
<1>3. GenerationInv /\ DurableInv /\ [Next]_vars => GenerationInv' /\ DurableInv'
  BY NextGeneration, NextDurable
<1> QED
  BY <1>1, <1>2, <1>3, PTL DEF Spec
===============================================================================
