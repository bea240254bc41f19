---------------------------- MODULE ShareValues ----------------------------
(***************************************************************************)
(* A row of values on its way to the relational store: put into a values   *)
(* bucket by a JavaScript or native client, sent through a parcel, and     *)
(* unpacked by a native provider (RdbUtils) or by the JavaScript provider  *)
(* and the RDB binding; and the older DataAbility path through the RDB's   *)
(* own bucket.                                                             *)
(*                                                                         *)
(* A bucket is a function from the columns it has to value objects.        *)
(***************************************************************************)
EXTENDS Integers, TLC

CONSTANTS
    Columns,    \* columns of the table
    MaxPuts     \* bound: steps of one client

VARIABLES
    bucket,      \* the DataShareValuesBucket of the client
    abilityRow,  \* the ValuesBucket of a DataAbility client
    direct,      \* the ValuesBucket the same puts give in the RDB binding
    firstRow,    \* what the column holds in the first row of the table
    puts,        \* number of steps
    losses       \* what happened that may change the row

valueVars == <<bucket, abilityRow, direct, firstRow, puts, losses>>

-----------------------------------------------------------------------------
(* Values *)

Value(type, val) == [type |-> type, val |-> val]
NullValue == Value("NULL", "")

\* JavaScript values, and the int64_t beyond 32 bits only native code has.
JsRow == {Value("string", "s"), Value("string", ""), Value("string", "long"), Value("number", "1.5"), Value("boolean", "true"),
          Value("null", ""), Value("object", "bytes"), Value("undefined", "")}

EmptyBucket == [c \in {} |-> NullValue]

\* PutString, PutInt ...: std::map::insert keeps the value that is there.
Put(b, column, value) == b @@ (column :> value)

\* The same in the ValuesBucket of the relational store.
RdbPut(b, column, value) == b @@ (column :> value)

DeleteColumn(b, column) == [c \in DOMAIN b \ {column} |-> b[c]]

\* SetValuesBucketObject: what a property of the JavaScript object becomes.
\* The blob is one byte longer than the array.
SetValuesBucketObject(b, column, js) ==
    CASE js.type = "string" -> Put(b, column, Value("STRING", js.val))
      [] js.type = "number" -> Put(b, column, Value("DOUBLE", js.val))
      [] js.type = "boolean" -> Put(b, column, Value("BOOL", js.val))
      [] js.type = "null" -> Put(b, column, NullValue)
      [] js.type = "object" -> Put(b, column, Value("BLOB", "bytes and one more"))
      [] OTHER -> b

\* ValuesBucketProxy_GetNativeObject: the DataAbility client's bucket; a string
\* is cut at the default buffer.
GetNativeObject(b, column, js) ==
    CASE js.type = "string" -> RdbPut(b, column, Value("STRING", IF js.val = "long" THEN "cut" ELSE js.val))
      [] js.type = "number" -> RdbPut(b, column, Value("DOUBLE", js.val))
      [] js.type = "boolean" -> RdbPut(b, column, Value("BOOL", js.val))
      [] js.type = "null" -> RdbPut(b, column, NullValue)
      [] js.type = "object" -> RdbPut(b, column, Value("BLOB", js.val))
      [] OTHER -> b

\* JSNumber2NativeType: a number becomes an integer if the column holds one in
\* the first row of the table.
JSNumber2NativeType(js) ==
    IF firstRow = "integer" THEN Value("INT", IF js.val = "1.5" THEN "1" ELSE js.val)
    ELSE Value("DOUBLE", js.val)

ParseValuesBucket(b, column, js) ==
    CASE js.type = "string" -> RdbPut(b, column, Value("STRING", js.val))
      [] js.type = "number" -> RdbPut(b, column, JSNumber2NativeType(js))
      [] js.type = "boolean" -> RdbPut(b, column, Value("BOOL", js.val))
      [] js.type = "null" -> RdbPut(b, column, NullValue)
      [] js.type = "object" -> RdbPut(b, column, Value("BLOB", js.val))
      [] OTHER -> b

\* Defect: the parcel has no case for a boolean.
UnmarshalledNoBool(v) == IF v.type = "BOOL" THEN NullValue ELSE v

\* Marshalling and Unmarshalling of a value write and read the same case.
UnmarshalledValue(v) == v

SentBucket(b) == [c \in DOMAIN b |-> UnmarshalledValue(b[c])]

\* Marshalling and Unmarshalling of ValueObject and ValuesBucket.
RdbSentBucket(b) == b

\* RdbUtils::ToValuesBucket: integers are read with GetInt, null is dropped.
ToValuesBucket(b) ==
    [c \in {k \in DOMAIN b : b[k].type # "NULL"} |->
        IF b[c] = Value("INT", "wide") THEN Value("INT", "low 32 bits") ELSE b[c]]

\* A null has no JavaScript value here: setting the property fails and the
\* whole object is given up.
DataShareValueBucketNewInstance(b) ==
    IF \E c \in DOMAIN b : b[c].type = "NULL" THEN EmptyBucket
    ELSE [c \in DOMAIN b |->
            CASE b[c].type = "STRING" -> Value("string", b[c].val)
              [] b[c].type \in {"DOUBLE", "INT"} -> Value("number", b[c].val)
              [] b[c].type = "BOOL" -> Value("boolean", b[c].val)
              [] OTHER -> Value("object", b[c].val)]

\* The row as the JavaScript provider hands it to the RDB binding.
ThroughJs(b) ==
    LET js == DataShareValueBucketNewInstance(b)
    IN  [c \in DOMAIN js |-> ParseValuesBucket(EmptyBucket, c, js[c])[c]]

\* ValuesBucketProxy_NewInstance, as above but for the RDB's own bucket.
ValuesBucketNewInstance(b) ==
    IF \E c \in DOMAIN b : b[c].type = "NULL" THEN EmptyBucket
    ELSE [c \in DOMAIN b |->
            CASE b[c].type = "STRING" -> Value("string", b[c].val)
              [] b[c].type \in {"DOUBLE", "INT"} -> Value("number", b[c].val)
              [] b[c].type = "BOOL" -> Value("boolean", b[c].val)
              [] OTHER -> Value("object", b[c].val)]

ThroughAbility(b) ==
    LET js == ValuesBucketNewInstance(b)
    IN  [c \in DOMAIN js |-> ParseValuesBucket(EmptyBucket, c, js[c])[c]]

-----------------------------------------------------------------------------
ValuesInit ==
    /\ bucket = EmptyBucket
    /\ abilityRow = EmptyBucket
    /\ direct = EmptyBucket
    /\ firstRow \in {"empty", "integer", "float"}
    /\ puts = 0
    /\ losses = {}

CountsPut == puts < MaxPuts /\ puts' = puts + 1

\* One property of the JavaScript object, seen by both bindings.
PutJs(column, js) ==
    /\ CountsPut
    /\ bucket' = SetValuesBucketObject(bucket, column, js)
    /\ abilityRow' = GetNativeObject(abilityRow, column, js)
    /\ direct' = ParseValuesBucket(direct, column, js)
    /\ losses' = losses \cup (IF js.type \in {"null", "object"} THEN {js.type} ELSE {})
                        \cup (IF js.type = "number" /\ firstRow = "integer" THEN {"truncated"} ELSE {})
                        \cup (IF js.val = "long" THEN {"cut"} ELSE {})
    /\ UNCHANGED firstRow

\* A native client puts an int64_t.
PutLong(column, val) ==
    /\ CountsPut
    /\ bucket' = Put(bucket, column, Value("INT", val))
    /\ abilityRow' = RdbPut(abilityRow, column, Value("INT", val))
    /\ direct' = RdbPut(direct, column, Value("INT", val))
    /\ losses' = losses \cup (IF val = "wide" THEN {"wide"} ELSE {"long"})
    /\ UNCHANGED firstRow

Delete(column) ==
    /\ CountsPut
    /\ bucket' = DeleteColumn(bucket, column)
    /\ abilityRow' = DeleteColumn(abilityRow, column)
    /\ direct' = DeleteColumn(direct, column)
    /\ UNCHANGED <<firstRow, losses>>

ValuesNext ==
    \/ \E c \in Columns, js \in JsRow : PutJs(c, js)
    \/ \E c \in Columns, val \in {"small", "wide"} : PutLong(c, val)
    \/ \E c \in Columns : Delete(c)

ValuesSpec == ValuesInit /\ [][ValuesNext]_valueVars

-----------------------------------------------------------------------------
(* The row a provider inserts is the row the same client would have         *)
(* inserted into the store itself: by a native provider through             *)
(* RdbUtils::ToValuesBucket, by a provider in JavaScript, whose bucket is   *)
(* made a JavaScript object and parsed by the RDB binding again, and on the *)
(* DataAbility path from one JavaScript object to another.  Each path has   *)
(* its losses: null everywhere, byte arrays on the first two, integers in   *)
(* place of numbers, integers beyond 32 bits, and texts beyond a buffer.    *)
RowArrives ==
    LET Without(what) == losses \cap what = {}
    IN  /\ Without({"null", "object", "truncated", "wide"}) =>
              ToValuesBucket(SentBucket(bucket)) = direct
        /\ Without({"null", "object", "long", "wide"}) => ThroughJs(SentBucket(bucket)) = direct
        /\ Without({"null", "cut", "long", "wide"}) =>
              ThroughAbility(RdbSentBucket(abilityRow)) = direct
=============================================================================
