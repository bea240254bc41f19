----------------------------- MODULE ShareBatch -----------------------------
(***************************************************************************)
(* A batch of operations on its way to a provider: each put together by a  *)
(* DataShareOperationBuilder, all written into one parcel by               *)
(* DataShareProxy::ExecuteBatch, and read again by                         *)
(* DataShareStub::CmdExecuteBatch.                                         *)
(*                                                                         *)
(* A parcel is a sequence of items with a limited room.  A write that does *)
(* not fit fails and leaves the parcel as it is, so a smaller one after it *)
(* may succeed.  DataShareOperation looks at the result of every write;    *)
(* the values bucket and the predicates it contains look at none.          *)
(***************************************************************************)
EXTENDS Integers, SequencesExt

CONSTANTS
    REFERENCE_THRESHOLD,   \* back references an operation may have (3 * 1024 * 1024 in the code)
    Rooms,                 \* the room of the parcel is one of these
    MaxBuilds              \* bound: steps of the client

VARIABLES
    builder,     \* the DataShareOperationBuilder of the client
    batch,       \* the operations built so far
    room,        \* what fits into the parcel
    builds       \* number of steps

batchVars == <<builder, batch, room, builds>>

-----------------------------------------------------------------------------
(* Building an operation *)

\* A bucket or predicates: the texts in it, or no object.
NoPart == <<"nullptr">>
Parts == {<<>>, <<"v">>, <<"large">>}

Types == {"INSERT", "UPDATE", "DELETE", "ASSERT"}

NewBuilder(type) ==
    [type |-> type, count |-> 0, interrupted |-> 0, values |-> NoPart, predicates |-> NoPart,
     references |-> NoPart, back |-> <<>>]

\* Which part an operation may have; the builder returns nullptr otherwise.
WithValues(type) == type \in {"INSERT", "UPDATE", "ASSERT"}
WithSelection(type) == type \in {"UPDATE", "DELETE", "ASSERT"}

WithValuesBucket(part) == WithValues(builder.type) /\ builder' = [builder EXCEPT !.values = part]
WithPredicates(part) == WithSelection(builder.type) /\ builder' = [builder EXCEPT !.predicates = part]
WithExpectedCount == WithSelection(builder.type) /\ builder' = [builder EXCEPT !.count = 1]

\* std::map::insert keeps the reference that is there; back is the map in the
\* order of its keys.
WithPredicatesBackReference(index, previous) ==
    /\ WithSelection(builder.type)
    /\ LET ByIndex(a, b) == a[1] < b[1]
       IN  builder' = IF \E i \in DOMAIN builder.back : builder.back[i][1] = index THEN builder
                      ELSE [builder EXCEPT !.back = SortSeq(Append(@, <<index, previous>>), ByIndex)]

WithValueBackReferences(part) == WithValues(builder.type) /\ builder' = [builder EXCEPT !.references = part]
WithInterruptionAllowed == builder' = [builder EXCEPT !.interrupted = 1 - @]

\* Without values there is no update; the client goes on with a new builder.
Build ==
    /\ builder.type # "UPDATE" \/ builder.values \notin {NoPart, <<>>}
    /\ batch' = Append(batch, builder)
    /\ builder' \in {NewBuilder(type) : type \in Types}

-----------------------------------------------------------------------------
(* Writing *)

Number(n) == [kind |-> "int", val |-> n]
TextItem(t) == [kind |-> "text", val |-> t]

\* A write whose result is looked at, and one whose result is not.
Checked(item) == [item |-> item, checked |-> TRUE]
Unchecked(item) == [item |-> item, checked |-> FALSE]

Size(item) == IF item = TextItem("large") THEN 6 ELSE 1

\* External: what Parcel does with a write; ok is FALSE once a checked one failed.
Write(parcel, write) ==
    CASE ~parcel.ok -> parcel
      [] Size(write.item) <= parcel.room ->
            [parcel EXCEPT !.items = Append(@, write.item), !.room = @ - Size(write.item)]
      [] write.checked -> [parcel EXCEPT !.ok = FALSE]
      [] OTHER -> [parcel EXCEPT !.skipped = TRUE]

\* External: WriteParcelable writes whether there is an object, then the object.
Parcelable == <<Checked(Number(1))>>

\* Marshalling of a DataShareValuesBucket: the number of entries, and of each
\* entry the name and the value.
MarshalledBucket(part) ==
    <<Unchecked(Number(Len(part)))>>
    \o FlattenSeq([i \in DOMAIN part |-> <<Unchecked(TextItem("name")), Unchecked(TextItem(part[i]))>>])

\* Of DataSharePredicates: operations with their parameters, then the raw clause
\* with its arguments, order and mode, here one item.
MarshalledPredicates(part) == Append(MarshalledBucket(part), Unchecked(TextItem("clause")))

\* VALUE_NULL is 0 and VALUE_OBJECT is 1.
MarshalledPointer(part, writes) ==
    IF part = NoPart THEN <<Checked(Number(0))>>
    ELSE <<Checked(Number(1))>> \o Parcelable \o writes

\* At the threshold the number of back references is written without them.
MarshalledReferences(back) ==
    <<Checked(Number(Len(back)))>>
    \o IF Len(back) >= REFERENCE_THRESHOLD THEN <<>>
       ELSE FlattenSeq([i \in DOMAIN back |-> <<Checked(Number(back[i][1])), Checked(Number(back[i][2]))>>])

\* The uri is never null: no builder is made without one.
MarshalledOperation(op) ==
    <<Checked(TextItem(op.type)), Checked(Number(op.count)), Checked(Number(op.interrupted))>>
    \o <<Checked(Number(1))>> \o Parcelable \o <<Checked(TextItem("uri"))>>
    \o MarshalledPointer(op.values, MarshalledBucket(op.values))
    \o MarshalledPointer(op.predicates, MarshalledPredicates(op.predicates))
    \o MarshalledPointer(op.references, MarshalledBucket(op.references))
    \o MarshalledReferences(op.back)

\* The request is sent only if every checked write succeeded.
ExecuteBatch(ops) ==
    FoldLeft(Write, [items |-> <<>>, room |-> room, ok |-> TRUE, skipped |-> FALSE],
             <<Checked(Number(Len(ops)))>>
             \o FlattenSeq([i \in DOMAIN ops |-> Parcelable \o MarshalledOperation(ops[i])]))

-----------------------------------------------------------------------------
(* Reading.  A reader is the position of the next item.                     *)

\* Beyond the end a read gives 0.  The bytes of a text read as a number are
\* taken for 0 too: that needs a write that was skipped.
IntAt(items, at) == IF at <= Len(items) /\ items[at].kind = "int" THEN items[at].val ELSE 0
TextAt(items, at) == IF at <= Len(items) THEN items[at].val ELSE ""

\* A pointer of the operation: the flag, the flag of ReadParcelable, and the
\* entries of the object with what follows them.  Unmarshalling of the object
\* looks at no result either.
ReadPointer(items, at, rest) ==
    LET n == IntAt(items, at + 2)
    IN CASE IntAt(items, at) # 1 -> [part |-> NoPart, at |-> at + 1]
         [] IntAt(items, at + 1) = 0 -> [part |-> NoPart, at |-> at + 2]
         [] OTHER -> [part |-> [i \in 1..n |-> TextAt(items, at + 2 + 2 * i)], at |-> at + 3 + 2 * n + rest]

\* Defect: the pairs are read also where they were not written.
ReadReferencesAlways(items, at) ==
    LET n == IntAt(items, at)
    IN  [back |-> [i \in 1..n |-> <<IntAt(items, at + 2 * i - 1), IntAt(items, at + 2 * i)>>],
         at |-> at + 1 + 2 * n]

ReadReferences(items, at) ==
    LET size == IntAt(items, at)
        n == IF size >= REFERENCE_THRESHOLD THEN 0 ELSE size
    IN  [back |-> [i \in 1..n |-> <<IntAt(items, at + 2 * i - 1), IntAt(items, at + 2 * i)>>],
         at |-> at + 1 + 2 * n]

\* The type, two numbers, the uri, the three pointers and the references.  It
\* fails if one of its own reads goes beyond the end.
ReadFromParcel(items, at) ==
    LET uri == IF IntAt(items, at + 3) # 1 THEN 4 ELSE IF IntAt(items, at + 4) = 0 THEN 5 ELSE 6
        values == ReadPointer(items, at + uri, 0)
        predicates == ReadPointer(items, values.at, 1)
        references == ReadPointer(items, predicates.at, 0)
        back == ReadReferences(items, references.at)
    IN  [ok |-> back.at <= Len(items) + 1,
         at |-> back.at,
         op |-> [type |-> TextAt(items, at), count |-> IntAt(items, at + 1),
                 interrupted |-> IntAt(items, at + 2), values |-> values.part,
                 predicates |-> predicates.part, references |-> references.part, back |-> back.back]]

\* One operation that cannot be read refuses the batch.
CmdExecuteBatch(items) ==
    FoldLeft(LAMBDA got, i :
                LET read == ReadFromParcel(items, got.at + 1)
                IN  IF got.ok /\ IntAt(items, got.at) # 0 /\ read.ok
                    THEN [ok |-> TRUE, at |-> read.at, ops |-> Append(got.ops, read.op)]
                    ELSE [got EXCEPT !.ok = FALSE],
             [ok |-> items # <<>>, at |-> 2, ops |-> <<>>],
             [i \in 1..IntAt(items, 1) |-> i])

-----------------------------------------------------------------------------
BatchInit ==
    /\ builder \in {NewBuilder(type) : type \in Types}
    /\ batch = <<>>
    /\ room \in Rooms
    /\ builds = 0

BatchNext ==
    /\ builds < MaxBuilds
    /\ builds' = builds + 1
    /\ UNCHANGED room
    /\ \/ Build
       \/ /\ \/ \E part \in Parts :
                   WithValuesBucket(part) \/ WithPredicates(part) \/ WithValueBackReferences(part)
             \/ \E index, previous \in 0..1 : WithPredicatesBackReference(index, previous)
             \/ WithExpectedCount
             \/ WithInterruptionAllowed
          /\ UNCHANGED batch

BatchSpec == BatchInit /\ [][BatchNext]_batchVars

-----------------------------------------------------------------------------
\* What the receiver is to get of an operation.
Carried(op) == [op EXCEPT !.back = IF Len(@) >= REFERENCE_THRESHOLD THEN <<>> ELSE @]

(* A batch that is sent arrives as it was built: the receiver stays in step *)
(* with the sender over all operations, optional parts and back references, *)
(* up to the last item.  Back references at the threshold are lost, all of  *)
(* them and nothing else.  The exception is a write inside a values bucket  *)
(* or predicates that does not fit: Marshalling ignores it, the rest is     *)
(* written and sent, and the receiver reads something else.                 *)
BatchArrives ==
    LET sent == ExecuteBatch(batch)
        got == CmdExecuteBatch(sent.items)
    IN  sent.ok /\ ~sent.skipped =>
            got.ok /\ got.ops = [i \in DOMAIN batch |-> Carried(batch[i])] /\ got.at = Len(sent.items) + 1
=============================================================================
