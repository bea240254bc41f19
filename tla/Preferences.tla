----------------------------- MODULE Preferences ------------------------------
(***************************************************************************)
(* One preferences file and the PreferencesImpl that caches it              *)
(* (preferences/src/preferences_impl.cpp).                                  *)
(*                                                                          *)
(* Client threads change the map in memory and flush it; one task at a time *)
(* loads the file or writes it, in the order the tasks were scheduled: that *)
(* is what TaskPool provides (module SerialExecutor).  A critical section   *)
(* of mutex_ is one action.  The disk operations of a task are one action   *)
(* each, because the process may die between any two of them and because    *)
(* WriteToDiskFile holds no mutex.                                          *)
(*                                                                          *)
(* Contents are numbered for the properties: a commit that carries          *)
(* modifications gets the next number, across restarts.  The code does not  *)
(* see these numbers; it has the two generations, which restart at 0.       *)
(*                                                                          *)
(* The observers that Flush and FlushSync call at their end change nothing  *)
(* here and are left out, and so are the getters.                           *)
(***************************************************************************)
EXTENDS Integers, Sequences, FiniteSets

CONSTANTS Clients,     \* the threads of the application
          NoClient,    \* the owner of no request
          Keys, Values,
          NoValue,     \* the key is not in the map
          Faults,      \* the file operations that may fail, of FaultKinds
          MaxFaults,   \* bound: kinds of them that fail in one behaviour
          MaxCommits,  \* bound: commits with modifications
          MaxCrashes,  \* bound: crashes of the process
          MaxQueue     \* bound: tasks that wait

ASSUME BoundAssumption ==
    /\ MaxCommits \in Nat \ {0}
    /\ MaxCrashes \in Nat
    /\ MaxFaults \in Nat
    /\ MaxQueue \in Nat \ {0}
ASSUME ValueAssumption == NoValue \notin Values
ASSUME ClientAssumption == NoClient \notin Clients

\* Writing the file, renaming it to the backup, renaming the backup to the file
\* when it is loaded, removing either of them.
FaultKinds == {"write", "backup", "restore", "remove"}
ASSUME FaultAssumption == Faults \subseteq FaultKinds

Maps == [Keys -> Values \cup {NoValue}]
Empty == [k \in Keys |-> NoValue]

\* What is in a file: a complete content, the rest of an interrupted write, or
\* there is no file.
Torn == [ver |-> -1, map |-> Empty]
Absent == [ver |-> -2, map |-> Empty]
Contents == [ver : -2..MaxCommits, map : Maps]
Complete(f) == f.ver >= 0

VARIABLES
    map,       \* map_
    modified,  \* modifiedKeys_
    loaded,    \* loaded_
    memGen,    \* currentMemoryStateGeneration_
    diskGen,   \* diskStateGeneration_
    queue,     \* requests of the scheduled tasks that wait
    wpc,       \* where the running task is, or "idle"
    job,       \* the request of the running task
    outcome,   \* what the running task will report
    file,      \* filePath_
    backup,    \* backupPath_
    cpc,       \* where each client is
    req,       \* the request of a client in Flush or FlushSync
    handled,   \* its handled_
    result,    \* its writeToDiskResult_
    memVer,    \* number of the last content committed in memory or loaded
    commits,   \* number of the last content committed ever
    acked,     \* the newest content for which FlushSync returned E_OK
    failed,    \* the kinds of file operations that have failed so far
    overtaken, \* a request was scheduled although a newer one was committed
    crashes

memoryVars == <<map, modified, loaded, memGen, memVer, commits>>
diskVars == <<file, backup>>
workVars == <<wpc, job, outcome>>
clientVars == <<cpc, req, handled, result>>
eventVars == <<failed, overtaken, crashes>>
vars == <<memoryVars, diskGen, queue, workVars, diskVars, clientVars, acked, eventVars>>

\* A MemoryToDiskRequest; owner is the client that may wait for it.
Requests == [gen : Nat, content : Contents, sync : BOOLEAN,
             owner : Clients \cup {NoClient}]
NoRequest == [gen |-> 0, content |-> Absent, sync |-> FALSE, owner |-> NoClient]

-------------------------------------------------------------------------------
(* A new PreferencesImpl after Init(): nothing in memory, and LoadFromDisk  *)
(* is the first task, scheduled before anybody else has the instance.       *)

Init ==
    /\ map = Empty
    /\ modified = {}
    /\ loaded = FALSE
    /\ memGen = 0
    /\ diskGen = 0
    /\ queue = <<>>
    /\ wpc = "load"
    /\ job = NoRequest
    /\ outcome = "E_ERROR"
    /\ cpc = [c \in Clients |-> "idle"]
    /\ req = [c \in Clients |-> NoRequest]
    /\ handled = [c \in Clients |-> FALSE]
    /\ result = [c \in Clients |-> "E_ERROR"]
    /\ memVer = 0
    /\ failed = {}
    /\ overtaken = FALSE
    /\ crashes = 0
    /\ backup = Absent
    /\ \/ file = Absent /\ commits = 0
       \/ commits = 1 /\ \E m \in Maps : file = [ver |-> 1, map |-> m]
    /\ acked = IF file = Absent THEN [ver |-> 0, map |-> Empty] ELSE file

\* The process dies and the application opens the file again.
Crash ==
    /\ crashes < MaxCrashes
    /\ crashes' = crashes + 1
    /\ map' = Empty
    /\ modified' = {}
    /\ loaded' = FALSE
    /\ memGen' = 0
    /\ diskGen' = 0
    /\ queue' = <<>>
    /\ wpc' = "load"
    /\ job' = NoRequest
    /\ outcome' = "E_ERROR"
    /\ cpc' = [c \in Clients |-> "idle"]
    /\ req' = [c \in Clients |-> NoRequest]
    /\ handled' = [c \in Clients |-> FALSE]
    /\ result' = [c \in Clients |-> "E_ERROR"]
    /\ memVer' = 0
    /\ UNCHANGED <<diskVars, commits, acked, failed, overtaken>>

\* A file operation fails, or does not.
Fails(kind) ==
    /\ kind \in Faults
    /\ failed' = failed \cup {kind}
    /\ Cardinality(failed') <= MaxFaults
Succeeds == UNCHANGED failed

\* std::remove(path): the possible contents of the path afterwards.
Removed(content, content2) ==
    \/ content2 = Absent /\ Succeeds
    \/ content # Absent /\ content2 = content /\ Fails("remove")

-------------------------------------------------------------------------------
(* LoadFromDisk.  It holds mutex_ from beginning to end.                    *)

MutexFree == wpc \notin {"loadRename", "loadRead"}

\* The backup, when there is one, takes the place of the file.
LoadBegin ==
    /\ wpc = "load"
    /\ IF backup = Absent
       THEN wpc' = "loadRead" /\ UNCHANGED <<file, failed>>
       ELSE wpc' = "loadRename" /\ Removed(file, file')
    /\ UNCHANGED <<memoryVars, diskGen, queue, job, outcome, backup, clientVars,
                   acked, overtaken, crashes>>

LoadRename ==
    /\ wpc = "loadRename"
    /\ wpc' = "loadRead"
    /\ \/ file' = backup /\ backup' = Absent /\ Succeeds
       \/ UNCHANGED diskVars /\ Fails("restore")
    /\ UNCHANGED <<memoryVars, diskGen, queue, job, outcome, clientVars, acked, overtaken, crashes>>

\* ReadSettingXml inserts what it finds; an incomplete file yields nothing.
LoadRead ==
    /\ wpc = "loadRead"
    /\ wpc' = "idle"
    /\ loaded' = TRUE
    /\ IF Complete(file)
       THEN /\ map' = [k \in Keys |-> IF map[k] = NoValue THEN file.map[k] ELSE map[k]]
            /\ memVer' = file.ver
       ELSE UNCHANGED <<map, memVer>>
    /\ UNCHANGED <<modified, memGen, commits, diskGen, queue, job,
                   outcome, diskVars, clientVars, acked, eventVars>>

-------------------------------------------------------------------------------
(* Changing the map.                                                        *)

\* PutInt, PutString ...: wait for the load, then PutPreferencesValue.
PutPreferencesValue(c, k, v) ==
    /\ cpc[c] = "idle"
    /\ loaded
    /\ map[k] # v
    /\ map' = [map EXCEPT ![k] = v]
    /\ modified' = modified \cup {k}
    /\ UNCHANGED <<loaded, memGen, memVer, commits, diskGen, queue, workVars,
                   diskVars, clientVars, acked, eventVars>>

\* Mutant: the deleted key is not noted in modifiedKeys_.
DeleteUnnoted(c, k) ==
    /\ cpc[c] = "idle"
    /\ MutexFree
    /\ map' = [map EXCEPT ![k] = NoValue]
    /\ UNCHANGED <<modified, loaded, memGen, memVer, commits, diskGen, queue,
                   workVars, diskVars, clientVars, acked, eventVars>>

\* Delete does not wait for the load.
Delete(c, k) ==
    /\ cpc[c] = "idle"
    /\ MutexFree
    /\ map' = [map EXCEPT ![k] = NoValue]
    /\ modified' = IF map[k] # NoValue THEN modified \cup {k} ELSE modified
    /\ UNCHANGED <<loaded, memGen, memVer, commits, diskGen, queue, workVars,
                   diskVars, clientVars, acked, eventVars>>

\* Nor does Clear.
Clear(c) ==
    /\ cpc[c] = "idle"
    /\ MutexFree
    /\ map' = Empty
    /\ modified' = modified \cup {k \in Keys : map[k] # NoValue}
    /\ UNCHANGED <<loaded, memGen, memVer, commits, diskGen, queue, workVars,
                   diskVars, clientVars, acked, eventVars>>

-------------------------------------------------------------------------------
(* Flush and FlushSync.                                                     *)

\* commitToMemory(): copy the map; modifications make a new generation.
commitToMemory(c, sync) ==
    /\ cpc[c] = "idle"
    /\ MutexFree
    /\ IF modified = {}
       THEN UNCHANGED <<memGen, memVer, commits>>
       ELSE /\ commits < MaxCommits
            /\ commits' = commits + 1
            /\ memVer' = commits + 1
            /\ memGen' = memGen + 1
    /\ modified' = {}
    /\ req' = [req EXCEPT ![c] = [gen |-> memGen', sync |-> sync, owner |-> c,
                                  content |-> [ver |-> memVer', map |-> map]]]
    /\ cpc' = [cpc EXCEPT ![c] = "schedule"]
    /\ UNCHANGED <<map, loaded, diskGen, queue, workVars, diskVars,
                   handled, result, acked, eventVars>>

\* taskPool_.Schedule: after the commit, but not atomic with it.  Flush then
\* returns; FlushSync goes on to wait.
Schedule(c) ==
    /\ cpc[c] = "schedule"
    /\ Len(queue) < MaxQueue
    /\ queue' = Append(queue, req[c])
    /\ cpc' = [cpc EXCEPT ![c] = IF req[c].sync THEN "check" ELSE "idle"]
    /\ req' = [req EXCEPT ![c] = IF @.sync THEN @ ELSE NoRequest]
    /\ overtaken' = (overtaken \/ req[c].gen < memGen)
    /\ UNCHANGED <<memoryVars, diskGen, workVars, diskVars, handled, result,
                   acked, failed, crashes>>

\* reqCond_.wait: the predicate, evaluated under reqMutex_ ...
CheckHandled(c) ==
    /\ cpc[c] = "check"
    /\ cpc' = [cpc EXCEPT ![c] = IF handled[c] THEN "return" ELSE "block"]
    /\ UNCHANGED <<memoryVars, diskGen, queue, workVars, diskVars, req, handled,
                   result, acked, eventVars>>

\* ... and then the thread goes to sleep: SetDiskWriteResult does not take
\* reqMutex_ and may come in between.
Block(c) ==
    /\ cpc[c] = "block"
    /\ cpc' = [cpc EXCEPT ![c] = "blocked"]
    /\ UNCHANGED <<memoryVars, diskGen, queue, workVars, diskVars, req, handled,
                   result, acked, eventVars>>

\* A condition variable may wake a thread that nobody notified.
SpuriousWakeup(c) ==
    /\ cpc[c] = "blocked"
    /\ cpc' = [cpc EXCEPT ![c] = "check"]
    /\ UNCHANGED <<memoryVars, diskGen, queue, workVars, diskVars, req, handled,
                   result, acked, eventVars>>

\* FlushSync returns writeToDiskResult_.  That write is not ordered with the one
\* of handled_, so until notify_one the thread may still see the initial E_ERROR.
Return(c) ==
    /\ cpc[c] = "return"
    /\ cpc' = [cpc EXCEPT ![c] = "idle"]
    /\ req' = [req EXCEPT ![c] = NoRequest]
    /\ handled' = [handled EXCEPT ![c] = FALSE]
    /\ result' = [result EXCEPT ![c] = "E_ERROR"]
    /\ \/ acked' = IF result[c] = "E_OK" /\ req[c].content.ver >= acked.ver
                   THEN req[c].content ELSE acked
       \/ wpc = "notify" /\ job.owner = c /\ UNCHANGED acked
    /\ UNCHANGED <<memoryVars, diskGen, queue, workVars, diskVars, eventVars>>

-------------------------------------------------------------------------------
(* WriteToDiskFile, one disk operation at a time.                           *)

\* Mutant: a generation is skipped.
CheckOffByOne(r) == diskGen + 1 < r.gen /\ (r.sync \/ memGen = r.gen)

\* Mutant: the generation on disk is not looked at.
CheckMemoryOnly(r) == r.sync \/ memGen = r.gen

CheckRequestValidForStateGeneration(r) ==
    diskGen < r.gen /\ (r.sync \/ memGen = r.gen)

\* A task starts; a file that is there is only replaced by a newer generation.
WriteBegin ==
    /\ wpc = "idle"
    /\ queue # <<>>
    /\ job' = Head(queue)
    /\ queue' = Tail(queue)
    /\ IF file = Absent
       THEN wpc' = "save" /\ UNCHANGED outcome
       ELSE IF CheckRequestValidForStateGeneration(Head(queue))
       THEN wpc' = "backup" /\ UNCHANGED outcome
       ELSE wpc' = "result" /\ outcome' = "E_OK"
    /\ UNCHANGED <<memoryVars, diskGen, diskVars, clientVars, acked, eventVars>>

\* Mutant: the old file is removed, no backup is made of it.
WriteWithoutBackup ==
    /\ wpc = "backup"
    /\ wpc' = "save"
    /\ file' = Absent
    /\ UNCHANGED <<memoryVars, diskGen, queue, job, outcome, backup, clientVars,
                   acked, eventVars>>

\* The old file becomes the backup, unless there is a backup already.
WriteBackup ==
    /\ wpc = "backup"
    /\ \/ /\ backup # Absent
          /\ wpc' = "save"
          /\ Removed(file, file')
          /\ UNCHANGED <<backup, outcome>>
       \/ /\ backup = Absent
          /\ wpc' = "save"
          /\ backup' = file
          /\ file' = Absent
          /\ Succeeds
          /\ UNCHANGED outcome
       \/ /\ backup = Absent
          /\ Fails("backup")
          /\ wpc' = "result"
          /\ outcome' = "E_ERROR"
          /\ UNCHANGED diskVars
    /\ UNCHANGED <<memoryVars, diskGen, queue, job, clientVars, acked, overtaken, crashes>>

\* WriteSettingXml truncates the file, or fails before it does so.
SaveBegin ==
    /\ wpc = "save"
    /\ \/ wpc' = "saving" /\ file' = Torn /\ Succeeds
       \/ wpc' = "discard" /\ UNCHANGED file /\ Fails("write")
    /\ UNCHANGED <<memoryVars, diskGen, queue, job, outcome, backup, clientVars,
                   acked, overtaken, crashes>>

\* It writes all of the content, or only a part.
SaveEnd ==
    /\ wpc = "saving"
    /\ \/ wpc' = "finish" /\ file' = job.content /\ Succeeds
       \/ wpc' = "discard" /\ UNCHANGED file /\ Fails("write")
    /\ UNCHANGED <<memoryVars, diskGen, queue, job, outcome, backup, clientVars,
                   acked, overtaken, crashes>>

\* After a successful write the backup is deleted.
WriteFinish ==
    /\ wpc = "finish"
    /\ Removed(backup, backup')
    /\ diskGen' = job.gen
    /\ outcome' = "E_OK"
    /\ wpc' = "result"
    /\ UNCHANGED <<memoryVars, queue, job, file, clientVars, acked, overtaken, crashes>>

\* After a failed write what there is of the new file is deleted.
WriteDiscard ==
    /\ wpc = "discard"
    /\ Removed(file, file')
    /\ outcome' = "E_ERROR"
    /\ wpc' = "result"
    /\ UNCHANGED <<memoryVars, diskGen, queue, job, backup, clientVars, acked, overtaken, crashes>>

\* SetDiskWriteResult: handled_ = true, without reqMutex_ ...
SetHandled ==
    /\ wpc = "result"
    /\ wpc' = "notify"
    /\ IF job.sync
       THEN /\ handled' = [handled EXCEPT ![job.owner] = TRUE]
            /\ result' = [result EXCEPT ![job.owner] = outcome]
       ELSE UNCHANGED <<handled, result>>
    /\ UNCHANGED <<memoryVars, diskGen, queue, job, outcome, diskVars, cpc, req,
                   acked, eventVars>>

\* ... and reqCond_.notify_one().
Notify ==
    /\ wpc = "notify"
    /\ wpc' = "idle"
    /\ cpc' = IF job.sync /\ cpc[job.owner] = "blocked"
              THEN [cpc EXCEPT ![job.owner] = "check"] ELSE cpc
    /\ job' = NoRequest
    /\ outcome' = "E_ERROR"
    /\ UNCHANGED <<memoryVars, diskGen, queue, diskVars, req,
                   handled, result, acked, eventVars>>

-------------------------------------------------------------------------------
LoadFromDisk == LoadBegin \/ LoadRename \/ LoadRead

WriteToDiskFile ==
    \/ WriteBegin \/ WriteBackup \/ SaveBegin \/ SaveEnd
    \/ WriteFinish \/ WriteDiscard \/ SetHandled \/ Notify

Worker == LoadFromDisk \/ WriteToDiskFile

Flushing(c) == Schedule(c) \/ CheckHandled(c) \/ Block(c) \/ Return(c)

Client(c) ==
    \/ \E k \in Keys, v \in Values : PutPreferencesValue(c, k, v)
    \/ \E k \in Keys : Delete(c, k)
    \/ Clear(c)
    \/ \E sync \in BOOLEAN : commitToMemory(c, sync)
    \/ Flushing(c)
    \/ SpuriousWakeup(c)

Next == Worker \/ Crash \/ \E c \in Clients : Client(c)

Spec == Init /\ [][Next]_vars

(* The best that FlushSync may hope for: its task is run (the pool may fail *)
(* to do so, see PreferencesPool), and a thread inside Flush or FlushSync   *)
(* is not stopped by the scheduler.  Nobody is obliged to call anything.    *)
FairSpec == Spec /\ WF_vars(Worker) /\ \A c \in Clients : WF_vars(Flushing(c))

-------------------------------------------------------------------------------
(* Properties.                                                              *)

TypeOK ==
    /\ map \in Maps
    /\ modified \in SUBSET Keys
    /\ loaded \in BOOLEAN
    /\ memGen \in Nat
    /\ diskGen \in Nat
    /\ queue \in Seq(Requests)
    /\ wpc \in {"load", "loadRename", "loadRead", "idle", "backup", "save",
                "saving", "finish", "discard", "result", "notify"}
    /\ job \in Requests
    /\ outcome \in {"E_OK", "E_ERROR"}
    /\ file \in Contents
    /\ backup \in Contents
    /\ cpc \in [Clients -> {"idle", "schedule", "check", "block", "blocked", "return"}]
    /\ req \in [Clients -> Requests]
    /\ handled \in [Clients -> BOOLEAN]
    /\ result \in [Clients -> {"E_OK", "E_ERROR"}]
    /\ memVer \in 0..MaxCommits
    /\ commits \in 0..MaxCommits
    /\ acked \in Contents
    /\ failed \in SUBSET FaultKinds
    /\ overtaken \in BOOLEAN
    /\ crashes \in 0..MaxCrashes

\* What LoadFromDisk would find if the process died now.
Recovered == IF backup = Absent THEN file ELSE backup

\* Once some content was acknowledged, a crash at any moment of a later write
\* leaves a complete content to load: the old file is kept as the backup until
\* the new one is whole.  Failing writes and renames do no harm; a file that
\* cannot be removed may.
NoTornRecovery ==
    acked.ver > 0 /\ "remove" \notin failed => Complete(Recovered)

\* FlushSync is durable: a crash never brings back anything older than what was
\* acknowledged, and what it brings back under the acknowledged number is
\* exactly the map that was flushed.  That takes a file system in which no
\* removal and no restoring of the backup failed, and either no write failed or
\* no flush was scheduled after a newer one.
AckedDurable ==
    /\ acked.ver > 0
    /\ failed \subseteq {"backup", "write"}
    /\ overtaken => "write" \notin failed
    => Recovered.ver > acked.ver \/ Recovered = acked

\* "Latest memory state that was committed to disk" (preferences_impl.h): while
\* the process lives the generation on disk never goes back, although
\* WriteToDiskFile does not compare generations when the file is missing and
\* requests may be scheduled in another order than they were committed; only
\* both together with a failed write can bring an older generation to disk.
DiskGenerationIsLatest ==
    [][crashes' = crashes /\ (overtaken => "write" \notin failed)
         => diskGen' >= diskGen]_vars

\* FlushSync returns.
FlushSyncReturns == \A c \in Clients : cpc[c] = "check" ~> cpc[c] = "idle"
===============================================================================
