---------------------------- MODULE LightKvStore ----------------------------
(***************************************************************************)
(* The light key-value store (kv_store/src): one file per key, a count of  *)
(* the keys, and a small cache in memory with the latest entry in front.   *)
(* The posix build holds g_kvGlobalMutex during a call and keeps the count *)
(* in memory; the hal build has no lock and keeps the count in a file.     *)
(* One step is one access to the file system, or the change of the cache.  *)
(*                                                                         *)
(* Of a value only its length class is kept: a reader's buffer may be too  *)
(* small for a long one.                                                   *)
(***************************************************************************)
EXTENDS Integers, Sequences, FiniteSets

CONSTANTS
    Tasks, LightKeys, DataPaths, NoKeyHere,
    MAX_KV_SUM, MAX_CACHE_SIZE,
    MaxLightFaults, MaxRestarts,    \* bounds: failing file operations, restarts
    MaxLightCalls                   \* bound: calls that change something

VARIABLES
    build,          \* "posix" or "hal": which of the two files is compiled
    files,          \* per data path, what the file of each key holds
    countFile,      \* hal: the number in KV_FILE_SUM
    kvSum, getKvSum, dataPath,      \* posix: g_kvSum, g_getKvSum, g_dataPath
    cache,          \* the list from g_itemHeader to g_itemTail
    task,           \* per task, where its call is and its local variables
    lightFaults, restarts, lightCalls,
    said,           \* history: what the last finished call on a key established
    events          \* history: calls overlapped, the path moved, a restart cut a call off

lightVars == <<build, files, countFile, kvSum, getKvSum, dataPath, cache, task,
               lightFaults, restarts, lightCalls, said, events>>

diskVars == <<files, countFile>>
boundVars == <<lightFaults, restarts, lightCalls>>

NoData == "none"
Unknown == "unknown"
Payloads == {"short", "long"}
Buffers == {"small", "large"}

(* "" is what a file holds between its truncation and the write.            *)
Fits(value, len) == len = "large" \/ value # "long"

Free == [at |-> "free", key |-> NoKeyHere, value |-> "", num |-> 0, newItem |-> FALSE]

Here == files[dataPath]

KeysWithFile == {k \in LightKeys : Here[k] # NoData}

Quiet == \A t \in Tasks : task[t] = Free

LightInit ==
    /\ build \in {"posix", "hal"}
    /\ files = [p \in DataPaths |-> [k \in LightKeys |-> NoData]]
    /\ countFile = 0
    /\ kvSum = 0 /\ getKvSum = FALSE
    /\ dataPath \in IF build = "posix" THEN DataPaths ELSE {CHOOSE p \in DataPaths : TRUE}
    /\ cache = <<>>
    /\ task = [t \in Tasks |-> Free]
    /\ lightFaults = 0 /\ restarts = 0 /\ lightCalls = 0
    /\ said = [k \in LightKeys |-> NoData]
    /\ events = {}

-----------------------------------------------------------------------------
(* kvstore_common.c *)
CachedAt(k) == {i \in DOMAIN cache : cache[i].key = k}

FirstOf(S) == CHOOSE i \in S : \A j \in S : i <= j

(* Defect: the header of the list is skipped.                               *)
DeleteKVCacheBehindHeader(list, k) ==
    LET at == {i \in 2..Len(list) : list[i].key = k}
    IN  IF at = {} THEN list
        ELSE SubSeq(list, 1, FirstOf(at) - 1) \o SubSeq(list, FirstOf(at) + 1, Len(list))

(* DeleteKVCache removes the first entry of the key.                        *)
DeleteKVCache(list, k) ==
    LET at == {i \in DOMAIN list : list[i].key = k}
    IN  IF at = {} THEN list
        ELSE SubSeq(list, 1, FirstOf(at) - 1) \o SubSeq(list, FirstOf(at) + 1, Len(list))

(* AddKVCache puts an entry in front and drops entries from the tail.       *)
AddKVCache(k, value, isNew) ==
    LET list == IF isNew THEN DeleteKVCache(cache, k) ELSE cache
        more == <<[key |-> k, value |-> value]>> \o list
    IN  SubSeq(more, 1, IF Len(more) > MAX_CACHE_SIZE THEN MAX_CACHE_SIZE ELSE Len(more))

GetValueByCache(k, len) ==
    IF CachedAt(k) = {} THEN NoData
    ELSE LET value == cache[FirstOf(CachedAt(k))].value
         IN  IF Fits(value, len) THEN value ELSE NoData

ClearKVCache ==
    /\ build = "posix" => Quiet
    /\ cache' = <<>>
    /\ UNCHANGED <<build, diskVars, kvSum, getKvSum, dataPath, task, boundVars, said,
                   events>>

-----------------------------------------------------------------------------
CountsCall == lightCalls < MaxLightCalls /\ lightCalls' = lightCalls + 1

(* A call begins: in the posix build only when no other task is in one.     *)
Enters(t, state) ==
    /\ task[t] = Free
    /\ build = "posix" => Quiet
    /\ task' = [task EXCEPT ![t] = state]
    /\ events' = events \cup {e \in {"overlap"} : \E u \in Tasks \ {t} : task[u] # Free}
    /\ CountsCall
    /\ UNCHANGED <<build, lightFaults, restarts>>

Goes(t, at) == task' = [task EXCEPT ![t].at = at]

Leaves(t) == task' = [task EXCEPT ![t] = Free]

Keeps == UNCHANGED <<build, dataPath, boundVars, events>>

GetValueByFile(k, len) == IF Here[k] # NoData /\ Fits(Here[k], len) THEN Here[k] ELSE NoData

(* UtilsGetValue: the cache, else the file, whose value joins the cache.    *)
UtilsGetValue(t, k, len) ==
    /\ GetValueByCache(k, len) = NoData
    /\ GetValueByFile(k, len) # NoData
    /\ Enters(t, [Free EXCEPT !.at = "cacheRead", !.key = k, !.value = Here[k]])
    /\ UNCHANGED <<diskVars, kvSum, getKvSum, dataPath, cache, said>>

CacheRead(t) ==
    /\ task[t].at = "cacheRead"
    /\ cache' = AddKVCache(task[t].key, task[t].value, FALSE)
    /\ Leaves(t)
    /\ Keeps /\ UNCHANGED <<diskVars, kvSum, getKvSum, said>>

CurrentItem == IF build = "hal" THEN countFile
               ELSE IF getKvSum THEN kvSum ELSE Cardinality(KeysWithFile)

(* UtilsSetValue up to the opening of the file.  A key over the limit is    *)
(* refused, but the posix build has counted the files by then.              *)
UtilsSetValue(t, k, value) ==
    LET newItem == Here[k] = NoData IN
    /\ IF CurrentItem >= MAX_KV_SUM /\ newItem
       THEN /\ UNCHANGED <<build, boundVars, events, task, said>>
            /\ build = "posix" => Quiet
       ELSE /\ Enters(t, [at |-> "open", key |-> k, value |-> value, num |-> CurrentItem,
                          newItem |-> newItem])
            /\ said' = [said EXCEPT ![k] = Unknown]
    /\ kvSum' = IF build = "posix" THEN CurrentItem ELSE kvSum
    /\ getKvSum' = (build = "posix")
    /\ UNCHANGED <<diskVars, dataPath, cache>>

Open(t) ==
    /\ task[t].at = "open"
    /\ files' = [files EXCEPT ![dataPath][task[t].key] = ""]
    /\ Goes(t, "write")
    /\ Keeps /\ UNCHANGED <<countFile, kvSum, getKvSum, cache, said>>

Write(t) ==
    /\ task[t].at = "write"
    /\ files' = [files EXCEPT ![dataPath][task[t].key] = task[t].value]
    /\ Goes(t, "cacheWritten")
    /\ Keeps /\ UNCHANGED <<countFile, kvSum, getKvSum, cache, said>>

(* Behind a failing write the hal build still stores the count, and returns *)
(* what that returns.                                                       *)
WriteFails(t) ==
    /\ task[t].at = "write"
    /\ lightFaults < MaxLightFaults
    /\ lightFaults' = lightFaults + 1
    /\ IF build = "hal" THEN Goes(t, "storeCount") ELSE Leaves(t)
    /\ UNCHANGED <<build, diskVars, kvSum, getKvSum, dataPath, cache, restarts, lightCalls, said,
                   events>>

Says(t) == said' = [said EXCEPT ![task[t].key] = task[t].value]

CacheWritten(t) ==
    LET num == IF task[t].newItem THEN task[t].num + 1 ELSE task[t].num IN
    /\ task[t].at = "cacheWritten"
    /\ cache' = AddKVCache(task[t].key, task[t].value, TRUE)
    /\ IF build = "hal"
       THEN /\ task' = [task EXCEPT ![t].at = "storeCount", ![t].num = num]
            /\ UNCHANGED <<kvSum, said>>
       ELSE /\ kvSum' = num /\ Leaves(t) /\ Says(t)
    /\ Keeps /\ UNCHANGED <<diskVars, getKvSum>>

(* hal: SetCurrentItem, whose result is the result of the call.             *)
SetCurrentItem(t) ==
    /\ task[t].at = "storeCount"
    /\ countFile' = task[t].num
    /\ Leaves(t) /\ Says(t)
    /\ Keeps /\ UNCHANGED <<files, kvSum, getKvSum, cache>>

SetCurrentItemFails(t) ==
    /\ task[t].at = "storeCount"
    /\ lightFaults < MaxLightFaults
    /\ lightFaults' = lightFaults + 1
    /\ Leaves(t)
    /\ UNCHANGED <<build, diskVars, kvSum, getKvSum, dataPath, cache, restarts, lightCalls, said,
                   events>>

UtilsDeleteValue(t, k) ==
    /\ Enters(t, [Free EXCEPT !.at = "unlink", !.key = k, !.value = NoData])
    /\ cache' = DeleteKVCache(cache, k)
    /\ said' = [said EXCEPT ![k] = IF Here[k] = NoData THEN said[k] ELSE Unknown]
    /\ UNCHANGED <<diskVars, kvSum, getKvSum, dataPath>>

(* Defect: a file that is not there counts as deleted.                      *)
UnlinkAny(t) ==
    /\ task[t].at = "unlink"
    /\ files' = [files EXCEPT ![dataPath][task[t].key] = NoData]
    /\ IF build = "hal" THEN Goes(t, "loadCount") /\ UNCHANGED <<kvSum, said>>
       ELSE kvSum' = kvSum - 1 /\ Leaves(t) /\ Says(t)
    /\ Keeps /\ UNCHANGED <<countFile, getKvSum, cache>>

(* A file that is not there is not counted; the call fails.                 *)
Unlink(t) ==
    /\ task[t].at = "unlink"
    /\ files' = [files EXCEPT ![dataPath][task[t].key] = NoData]
    /\ IF Here[task[t].key] = NoData
       THEN Leaves(t) /\ UNCHANGED <<kvSum, said>>
       ELSE IF build = "hal"
       THEN Goes(t, "loadCount") /\ UNCHANGED <<kvSum, said>>
       ELSE kvSum' = kvSum - 1 /\ Leaves(t) /\ Says(t)
    /\ Keeps /\ UNCHANGED <<countFile, getKvSum, cache>>

(* hal: GetCurrentItem of the deletion.                                     *)
LoadCount(t) ==
    /\ task[t].at = "loadCount"
    /\ task' = [task EXCEPT ![t].at = "storeCount", ![t].num = countFile - 1]
    /\ Keeps /\ UNCHANGED <<diskVars, kvSum, getKvSum, cache, said>>

UnlinkFails(t) ==
    /\ task[t].at = "unlink" /\ Here[task[t].key] # NoData
    /\ lightFaults < MaxLightFaults
    /\ lightFaults' = lightFaults + 1
    /\ Leaves(t)
    /\ UNCHANGED <<build, diskVars, kvSum, getKvSum, dataPath, cache, restarts, lightCalls, said,
                   events>>

(* posix: neither the count nor the cache follows the path.                 *)
UtilsSetEnv(p) ==
    /\ build = "posix" /\ p # dataPath
    /\ Quiet
    /\ dataPath' = p
    /\ events' = events \cup {"moved"}
    /\ said' = [k \in LightKeys |-> IF files[p][k] \in Payloads \cup {NoData} THEN files[p][k] ELSE Unknown]
    /\ CountsCall
    /\ UNCHANGED <<build, diskVars, kvSum, getKvSum, cache, task, lightFaults, restarts>>

Restart ==
    /\ restarts < MaxRestarts
    /\ restarts' = restarts + 1
    /\ cache' = <<>> /\ kvSum' = 0 /\ getKvSum' = FALSE
    /\ task' = [t \in Tasks |-> Free]
    /\ events' = events \cup {e \in {"cut"} : ~Quiet}
    /\ UNCHANGED <<build, diskVars, dataPath, lightFaults, lightCalls, said>>

TaskStep(t) ==
    \/ \E k \in LightKeys, len \in Buffers : UtilsGetValue(t, k, len)
    \/ \E k \in LightKeys, value \in Payloads : UtilsSetValue(t, k, value)
    \/ \E k \in LightKeys : UtilsDeleteValue(t, k)
    \/ CacheRead(t)
    \/ Open(t) \/ Write(t) \/ WriteFails(t) \/ CacheWritten(t)
    \/ SetCurrentItem(t) \/ SetCurrentItemFails(t)
    \/ Unlink(t) \/ LoadCount(t) \/ UnlinkFails(t)

LightNext ==
    \/ \E t \in Tasks : TaskStep(t)
    \/ ClearKVCache
    \/ \E p \in DataPaths : UtilsSetEnv(p)
    \/ Restart

LightSpec == LightInit /\ [][LightNext]_lightVars

-----------------------------------------------------------------------------
(* What UtilsGetValue would return with a large buffer.                     *)
Returned(k) ==
    IF GetValueByCache(k, "large") # NoData THEN GetValueByCache(k, "large")
    ELSE GetValueByFile(k, "large")

(* A finished call is what the next UtilsGetValue sees, from the cache or   *)
(* from the file, also after a restart.  Not so once calls overlapped (only *)
(* the hal build lets them), the data path moved under the cache, or a      *)
(* write failed: the truncated file can then enter the cache in front of    *)
(* the old entry, which a later UtilsDeleteValue uncovers; and the hal      *)
(* build returns success.                                                   *)
ReadsBack ==
    Quiet /\ events \cap {"overlap", "moved"} = {} /\ lightFaults = 0 =>
        \A k \in LightKeys : said[k] # Unknown => Returned(k) = said[k]

(* The number that is compared with MAX_KV_SUM is the number of files.  A   *)
(* restart within a call of the hal build, between the file and the count,  *)
(* leaves it wrong for good, and so does a failing write of a new key.      *)
CountTracks ==
    Quiet /\ events \cap {"overlap", "moved"} = {} /\ lightFaults = 0
          /\ (build = "hal" => "cut" \notin events)
        => CurrentItem = Cardinality(KeysWithFile)

=============================================================================
