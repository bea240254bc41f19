----------------------------- MODULE DbmKvStore -----------------------------
(***************************************************************************)
(* The DBM key-value store (dbm_kv_store/src/kv_store_impl_hal).  A value  *)
(* is a file that starts with the index of its slot in the sum file; the   *)
(* sum file has a header and one slot per key.  An update keeps the old    *)
(* value in a backup file, and opening the store (CheckPoint, VacuumStore) *)
(* repairs what an interrupted call left.                                  *)
(*                                                                         *)
(* One step is one change of the file system.  What a call has still to do *)
(* is the sequence todo; a device reset may come before any of its steps,  *)
(* and any write may fail.  The caller's lock makes a call exclusive.      *)
(***************************************************************************)
EXTENDS Integers, Sequences, FiniteSets, TLC

CONSTANTS
    Keys, Values, NoKey, NoValue, Mangled,
    DBM_MAX_KV_SUM,
    MaxFaults,      \* bound: failing file operations
    MaxResets,      \* bound: device resets
    MaxTrouble      \* bound: both together

VARIABLES
    disk,           \* the file system
    db,             \* the members of the handle
    call,           \* the running call
    todo,           \* the rest of the running call
    faults, resets,
    promised,       \* history: what each key may read as, after the calls so far
    recovered,      \* history: keys whose slot RecoverItem marked invalid
    damage          \* history: what went wrong with the count of the items

dbmVars == <<disk, db, call, todo, faults, resets, promised, recovered, damage>>

Absent == [there |-> FALSE, index |-> 0, value |-> NoValue]

Truncated == [there |-> TRUE, index |-> 0, value |-> NoValue]

Blank == [key |-> NoKey, valid |-> FALSE, bak |-> FALSE, magic |-> FALSE]

Erased == [key |-> NoKey, valid |-> FALSE, bak |-> FALSE]

Idle == [fn |-> "idle", key |-> NoKey, value |-> NoValue, ret |-> "ok"]

Slot(i) == IF i < Len(disk.slots) THEN disk.slots[i + 1] ELSE Blank

IsNewItem(which, k) == ~disk[which][k].there

-----------------------------------------------------------------------------
(* Steps of a call: file operations, and the handlers of their failures.    *)
PutFile(which, k, content) == <<"file", which, k, content>>

PutSlot(i, part) == <<"slot", i, part>>

PutHeader(part) == <<"header", part>>

(* Entered when a step before it fails; otherwise skipped.                  *)
Catch(handler) == <<"catch", handler>>

Ignore == Catch(<<>>)

DeleteValueFromFile(which, k) ==
    IF IsNewItem(which, k) THEN <<>> ELSE <<PutFile(which, k, Absent)>>

SetValueToFile(k, i, v) ==
    <<PutFile("file", k, Truncated),
      PutFile("file", k, [there |-> TRUE, index |-> i, value |-> v])>>

CopyValueToFile(from, to, k) ==
    <<PutFile(to, k, Truncated), PutFile(to, k, disk[from][k])>>

DelItem(k, i) ==
    DeleteValueFromFile("file", k) \o DeleteValueFromFile("bak", k) \o <<PutSlot(i, Erased)>>

(* The flag that is cleared is the one at offset 1, isValid.                *)
Unflag(i) == <<"slot", i, [valid |-> FALSE], "RecoverItem">>

RecoverItem(k, i) ==
    DeleteValueFromFile("file", k) \o CopyValueToFile("bak", "file", k)
        \o <<Unflag(i)>>

(* LoadDataItem: a slot without the magic number reads as an empty one.     *)
LoadDataItem(i) == IF Slot(i).magic THEN Slot(i) ELSE Blank

CheckPointItem(item, i) ==
    IF item.key = NoKey THEN <<>>
    ELSE IF db.isInvalid \/ ~item.valid \/ (item.bak /\ IsNewItem("bak", item.key))
    THEN DelItem(item.key, i)
    ELSE IF item.bak THEN RecoverItem(item.key, i)
    ELSE DeleteValueFromFile("bak", item.key)

WriteNewItemToSumFile(k, i) ==
    <<PutSlot(i, [valid |-> FALSE, bak |-> FALSE]), PutSlot(i, [key |-> k]),
      PutSlot(i, [magic |-> TRUE])>>

SetSumIndexToFile(n) ==
    <<PutHeader([sumValid |-> FALSE]), PutHeader([num |-> n]), PutHeader([sumValid |-> TRUE])>>

-----------------------------------------------------------------------------
(* What DBM_Get returns.  A value is cut off behind its index only when the *)
(* slot of that index has the key.                                          *)
FormatValueByFile(k, content) ==
    IF content.value = NoValue THEN Mangled
    ELSE IF Slot(content.index).key = k THEN content.value
    ELSE Mangled

StoredValue(k) ==
    IF IsNewItem("file", k) /\ IsNewItem("bak", k) THEN NoValue
    ELSE FormatValueByFile(k, IF IsNewItem("bak", k) THEN disk.file[k] ELSE disk.bak[k])

DBM_Get(k) == IF db.isInvalid THEN NoValue ELSE StoredValue(k)

Ready == db.open /\ call = Idle

DbmInit ==
    /\ disk \in {[sum |-> s, num |-> 0, sumValid |-> FALSE, invalid |-> FALSE, slots |-> <<>>,
                  file |-> [k \in Keys |-> Absent], bak |-> [k \in Keys |-> Absent]]
                    : s \in {"absent", "legacy"}}
    /\ db = [open |-> FALSE, kvItemSum |-> 0, isInvalid |-> FALSE, kvSumIndexValid |-> FALSE]
    /\ call = Idle /\ todo = <<>>
    /\ faults = 0 /\ resets = 0
    /\ promised = [k \in Keys |-> {NoValue}]
    /\ recovered = {} /\ damage = {}

Begin(fn, k, v) ==
    /\ call = Idle
    /\ call' = [fn |-> fn, key |-> k, value |-> v, ret |-> "ok"]
    /\ UNCHANGED <<disk, faults, resets, promised, recovered, damage>>

LoadSumFileHeader ==
    [open |-> FALSE, kvItemSum |-> IF disk.sumValid THEN disk.num ELSE 0,
     isInvalid |-> disk.invalid, kvSumIndexValid |-> disk.sumValid]

DefaultHeader == [sum |-> "full", num |-> 0, sumValid |-> FALSE, invalid |-> FALSE, slots |-> <<>>]

(* VacuumStore refuses a sum file that has no whole header, or too many     *)
(* slots; a slot without its magic number at the end does not count.        *)
Keyed == {s \in DOMAIN disk.slots : disk.slots[s].key # NoKey}

SumIndex == Cardinality({i \in DOMAIN disk.slots : i < Len(disk.slots) \/ disk.slots[i].magic})

VacuumStore ==
    IF disk.sum # "full" \/ SumIndex > DBM_MAX_KV_SUM THEN << <<"return">> >>
    ELSE << <<"vacuum", 0>> >>

CheckPoint ==
    VacuumStore \o << <<"setSumIndex">>, PutHeader([sumValid |-> FALSE, invalid |-> FALSE]) >>

InitKVStore ==
    CASE disk.sum = "absent" -> <<PutHeader([sum |-> "empty"]), PutHeader(DefaultHeader)>>
      [] disk.sum \in {"empty", "short"} -> <<PutHeader(DefaultHeader)>>
      [] OTHER -> CheckPoint

DBM_GetKVStore ==
    /\ ~db.open
    /\ Begin("open", NoKey, NoValue)
    /\ db' = IF disk.sum \in {"full", "legacy"} THEN LoadSumFileHeader
             ELSE [db EXCEPT !.kvItemSum = 0, !.isInvalid = FALSE, !.kvSumIndexValid = FALSE]
    /\ todo' = InitKVStore

(* The slots that AddNewDataItem looks at are 0..kvItemSum; the first empty *)
(* one is taken, or else the last, unless one has the key.                  *)
Matching(k) == {i \in 0..db.kvItemSum : Slot(i).key = k}

MinOf(S) == CHOOSE i \in S : \A j \in S : i <= j

AddNewDataItem(k) ==
    IF Matching(k) # {} THEN MinOf(Matching(k))
    ELSE IF Matching(NoKey) # {} THEN MinOf(Matching(NoKey))
    ELSE db.kvItemSum

(* FindDataItem: the slot that the value file names, or a new one.          *)
Named(k) == ~IsNewItem("file", k) /\ Slot(disk.file[k].index).key = k

ItemIndex(k) == IF Named(k) THEN disk.file[k].index ELSE AddNewDataItem(k)

(* The call goes on with `rest' for the slot ItemIndex(k).                  *)
FindDataItem(k, rest) ==
    IF Named(k)
    THEN /\ todo' = <<rest>>
         /\ db' = db
    ELSE /\ todo' = IF AddNewDataItem(k) < 0 THEN << <<"return">> >>
                    ELSE Append(WriteNewItemToSumFile(k, AddNewDataItem(k)), rest)
         /\ db' = IF Matching(k) = {} THEN [db EXCEPT !.kvItemSum = @ + 1] ELSE db

DBM_Put(k, v) ==
    /\ Ready
    /\ ~(IsNewItem("file", k) /\ db.kvItemSum >= DBM_MAX_KV_SUM)
    /\ Begin("put", k, v)
    /\ FindDataItem(k, <<"load", k, v, ItemIndex(k), IsNewItem("file", k)>>)

DBM_Delete(k) ==
    /\ Ready
    /\ ~IsNewItem("file", k)
    /\ Begin("delete", k, NoValue)
    /\ FindDataItem(k, <<"exeDelete", k, ItemIndex(k)>>)

DBM_CloseKVStore ==
    /\ db.open
    /\ Begin("close", NoKey, NoValue)
    /\ todo' = Append(SetSumIndexToFile(db.kvItemSum), Ignore)
    /\ db' = db

(* On a store that is not open.  The four flag bytes become 1, the number   *)
(* of items with them "valid" again.                                        *)
DBM_DeleteKVStore ==
    /\ ~db.open
    /\ disk.sum \notin {"absent", "short"}
    /\ Begin("destroy", NoKey, NoValue)
    /\ db' = db
    /\ todo' = IF disk.sum = "empty"
               THEN <<PutHeader([sum |-> "short"]), PutHeader([sum |-> "absent"])>>
               ELSE IF disk.sum = "legacy" THEN <<PutHeader([sum |-> "short"]), <<"return">> >>
               ELSE <<PutHeader([sumValid |-> TRUE, invalid |-> TRUE]), <<"destroy">> >>

-----------------------------------------------------------------------------
(* The functions a call enters once the steps before them are done.         *)

(* LoadDataItem and the rest of PrePut, then InsertKV or UpdateKV.          *)
PrePut(k, v, i, newItem) ==
    LET item == IF Slot(i).magic THEN Slot(i) ELSE [Blank EXCEPT !.key = k]
    IN  IF newItem THEN << <<"insert", k, v, i>> >>
        ELSE CheckPointItem(item, i) \o
             (IF db.isInvalid \/ ~item.valid
              THEN Append(WriteNewItemToSumFile(k, i), <<"insert", k, v, i>>)
              ELSE << <<"update", k, v, i>> >>)

(* A failing value file takes the item with it, and yet the flag is set.    *)
InsertKV(k, v, i) ==
    SetValueToFile(k, i, v) \o
    <<Catch(<< <<"delItem", k, i>>, Ignore, <<"fail">> >>),
      PutSlot(i, [valid |-> TRUE]),
      Catch(<< <<"delItem", k, i>>, <<"return">> >>)>>

(* Defect: the backup is marked valid before it is made.                    *)
UpdateKVFlagFirst(k, v, i) ==
    <<PutSlot(i, [bak |-> TRUE])>> \o CopyValueToFile("file", "bak", k) \o
    <<Catch(<<PutFile("bak", k, Absent), Ignore, <<"return">> >>)>> \o
    SetValueToFile(k, i, v) \o
    <<Catch(<< <<"recoverItem", k, i>>, Ignore, <<"return">> >>),
      PutSlot(i, [bak |-> FALSE]), PutFile("bak", k, Absent)>>

(* BackupItem behind the removal of an old backup, then the new value.      *)
UpdateKV(k, v, i) ==
    CopyValueToFile("file", "bak", k) \o
    <<PutSlot(i, [bak |-> TRUE]),
      Catch(<<PutFile("bak", k, Absent), Ignore, <<"return">> >>)>> \o
    SetValueToFile(k, i, v) \o
    <<Catch(<< <<"recoverItem", k, i>>, Ignore, <<"return">> >>),
      PutSlot(i, [bak |-> FALSE]), PutFile("bak", k, Absent)>>

ExeDelete(k, i) ==
    <<PutSlot(i, [valid |-> FALSE]), PutFile("file", k, Absent), <<"finishDelete", k, i>> >>

FinishDelete(k, i) ==
    DeleteValueFromFile("bak", k) \o <<Ignore, PutSlot(i, Erased), Ignore>>

(* One round of VacuumStore's loop.                                         *)
VacuumItem(i) ==
    IF i >= SumIndex THEN <<>>
    ELSE Append(CheckPointItem(LoadDataItem(i), i), <<"vacuum", i + 1>>)

SetSumIndex == IF db.kvSumIndexValid THEN <<>> ELSE SetSumIndexToFile(db.kvItemSum)

RemoveKVStoreFile == Append(VacuumStore, PutHeader([sum |-> "absent", slots |-> <<>>]))

Expand(frame) ==
    CASE frame[1] = "load"         -> PrePut(frame[2], frame[3], frame[4], frame[5])
      [] frame[1] = "insert"       -> InsertKV(frame[2], frame[3], frame[4])
      [] frame[1] = "update"       -> Append(DeleteValueFromFile("bak", frame[2]),
                                             <<"backup", frame[2], frame[3], frame[4]>>)
      [] frame[1] = "backup"       -> UpdateKV(frame[2], frame[3], frame[4])
      [] frame[1] = "delItem"      -> DelItem(frame[2], frame[3])
      [] frame[1] = "recoverItem"  -> RecoverItem(frame[2], frame[3])
      [] frame[1] = "exeDelete"    -> ExeDelete(frame[2], frame[3])
      [] frame[1] = "finishDelete" -> FinishDelete(frame[2], frame[3])
      [] frame[1] = "vacuum"       -> VacuumItem(frame[2])
      [] frame[1] = "setSumIndex"  -> SetSumIndex
      [] frame[1] = "destroy"      -> RemoveKVStoreFile
      [] frame[1] \in {"catch", "fail"} -> <<>>

Primitive == {"file", "slot", "header"}

Counted(i) ==
    /\ i < SumIndex
    /\ ~db.kvSumIndexValid /\ ~db.isInvalid
    /\ LoadDataItem(i).valid

Enter ==
    /\ todo # <<>>
    /\ LET frame == Head(todo) IN
        /\ frame[1] \notin Primitive \cup {"return"}
        /\ db' = CASE frame[1] = "vacuum" /\ Counted(frame[2]) -> [db EXCEPT !.kvItemSum = @ + 1]
                   [] frame[1] = "exeDelete" -> [db EXCEPT !.kvItemSum = @ - 1]
                   [] frame[1] = "destroy" -> LoadSumFileHeader
                   [] OTHER -> db
        /\ todo' = IF frame[1] = "destroy" THEN Expand(frame) ELSE Expand(frame) \o Tail(todo)
        /\ call' = IF frame[1] = "fail" THEN [call EXCEPT !.ret = "error"] ELSE call
    /\ UNCHANGED <<disk, faults, resets, promised, recovered, damage>>

(* One file operation; a slot is written in place or at the end.            *)
WriteSlot(slots, i, part) ==
    IF i < Len(slots) THEN [slots EXCEPT ![i + 1] = part @@ @] ELSE Append(slots, part @@ Blank)

Written(op) ==
    CASE op[1] = "file"   -> [disk EXCEPT ![op[2]][op[3]] = op[4]]
      [] op[1] = "slot"   -> [disk EXCEPT !.slots = WriteSlot(@, op[2], op[3])]
      [] op[1] = "header" -> op[2] @@ disk

FileOperation ==
    /\ todo # <<>> /\ Head(todo)[1] \in Primitive
    /\ disk' = Written(Head(todo))
    /\ todo' = Tail(todo)
    /\ recovered' = recovered \cup
                      {k \in Keys : \E s \in Keyed :
                            Head(todo) = Unflag(s - 1) /\ disk.slots[s].key = k}
    /\ UNCHANGED <<db, call, faults, resets, promised, damage>>

Catches == {n \in DOMAIN todo : todo[n][1] = "catch"}

(* A failing operation, or a return with an error: the next handler runs,   *)
(* and without one the call returns the error.                              *)
Fail ==
    /\ todo # <<>>
    /\ \/ /\ Head(todo)[1] \in Primitive
          /\ faults < MaxFaults /\ faults + resets < MaxTrouble
          /\ faults' = faults + 1
          /\ IF Catches = {} THEN todo' = <<>>
             ELSE todo' = todo[MinOf(Catches)][2] \o SubSeq(todo, MinOf(Catches) + 1, Len(todo))
          /\ call' = IF Catches = {} THEN [call EXCEPT !.ret = "error"] ELSE call
       \/ /\ Head(todo)[1] = "return"
          /\ todo' = <<>>
          /\ call' = [call EXCEPT !.ret = "error"]
          /\ UNCHANGED faults
    /\ damage' = damage \cup {d \in {"deleteFailed"} : call.fn = "delete"}
    /\ UNCHANGED <<disk, db, resets, promised, recovered>>

-----------------------------------------------------------------------------
(* What the keys may read as once a call ended, or was cut off.             *)
Outcome(completed) ==
    [k \in Keys |->
        IF k = call.key \/ call.fn = "destroy"
        THEN (IF completed THEN {} ELSE promised[k]) \cup {call.value}
        ELSE promised[k]]

Return ==
    /\ call # Idle /\ todo = <<>>
    /\ call' = Idle
    /\ db' = CASE call.fn = "open" -> [db EXCEPT !.open = (call.ret = "ok"), !.isInvalid = FALSE,
                                                 !.kvSumIndexValid = FALSE]
               [] call.fn = "close" -> [db EXCEPT !.open = FALSE]
               [] OTHER -> db
    /\ promised' = IF call.fn # "open" THEN Outcome(call.ret = "ok")
                   ELSE IF call.ret # "ok" THEN promised
                   ELSE [k \in Keys |-> promised[k] \cap {StoredValue(k)}]
    /\ UNCHANGED <<disk, todo, faults, resets, recovered, damage>>

Reset ==
    /\ resets < MaxResets /\ faults + resets < MaxTrouble
    /\ db.open \/ call # Idle
    /\ resets' = resets + 1
    /\ db' = [db EXCEPT !.open = FALSE]
    /\ call' = Idle /\ todo' = <<>>
    /\ promised' = Outcome(FALSE)
    /\ damage' = damage \cup {d \in {"torn"} : \E s \in Keyed : ~disk.slots[s].magic}
    /\ UNCHANGED <<disk, faults, recovered>>

DbmNext ==
    \/ DBM_GetKVStore
    \/ \E k \in Keys, v \in Values : DBM_Put(k, v)
    \/ \E k \in Keys : DBM_Delete(k)
    \/ DBM_CloseKVStore
    \/ DBM_DeleteKVStore
    \/ Enter
    \/ FileOperation
    \/ Fail
    \/ Return
    \/ Reset

DbmSpec == DbmInit /\ [][DbmNext]_dbmVars

-----------------------------------------------------------------------------
(* Whatever a reset left behind, the store can be opened again (but a sum   *)
(* file of four bytes, which InitKVStore lets pass, is refused by           *)
(* VacuumStore), and what DBM_Get returns is what the calls so far allow:   *)
(* the last value that DBM_Put acknowledged, or either outcome of a call    *)
(* that failed or was cut off by a reset; once the store was opened it is   *)
(* the same until the next call.  For that kvItemSum must not be below the  *)
(* number of used slots: AddNewDataItem takes the slot behind it for free.  *)
(* It gets there when a reset leaves a slot with a key and no magic number  *)
(* ("torn": found again and not counted), and when a step of a delete       *)
(* fails, which has counted down before it begins.  And a key that          *)
(* RecoverItem brought back stays marked invalid: the next opening deletes  *)
(* it.                                                                      *)
Durable ==
    /\ call.fn = "open" /\ call.ret = "error" => faults > 0 \/ disk.sum = "legacy"
    /\ Ready /\ damage = {} =>
          /\ db.kvItemSum >= Cardinality(Keyed)
          /\ \A k \in Keys \ recovered : DBM_Get(k) \in promised[k]

=============================================================================
