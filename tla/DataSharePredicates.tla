------------------------ MODULE DataSharePredicates ------------------------
(***************************************************************************)
(* The predicates of the DataShare framework: a list of operations whose   *)
(* parameters are tagged unions, or a raw WHERE clause; their way through  *)
(* a parcel; and their translation to RdbPredicates by the provider        *)
(* (RdbUtils::ToPredicates).                                               *)
(*                                                                         *)
(* A parameter object has a type tag and the alternative its std::variant  *)
(* holds.  std::get of another alternative throws, which nothing catches.  *)
(***************************************************************************)
EXTENDS RdbPredicates

(* DataSharePredicatesObject *)

Object(type, alternative, val) == [type |-> type, alternative |-> alternative, val |-> val]

\* A default-constructed variant holds its first alternative.
NullObject == Object("NULL", "int", <<>>)

\* int and long are both kept as int64_t; a vector of ints as one of int64_t,
\* unless it is empty.
ObjectOf(kind, val) ==
    CASE kind = "int" -> Object("INT", "int64_t", val)
      [] kind = "long" -> Object("LONG", "int64_t", val)
      [] kind = "double" -> Object("DOUBLE", "double", val)
      [] kind = "bool" -> Object("BOOL", "bool", val)
      [] kind = "string" -> Object("STRING", "string", val)
      [] kind = "ints" -> Object("INT_VECTOR", IF val = <<>> THEN "int" ELSE "vector<int64_t>", val)
      [] kind = "longs" -> Object("LONG_VECTOR", "vector<int64_t>", val)
      [] kind = "doubles" -> Object("DOUBLE_VECTOR", "vector<double>", val)
      [] kind = "strings" -> Object("STRING_VECTOR", "vector<string>", val)

\* The alternative that Marshalling takes out of the variant.
Marshalled(type) ==
    CASE type \in {"INT", "LONG"} -> {"int64_t"}
      [] type = "DOUBLE" -> {"double"}
      [] type = "BOOL" -> {"bool"}
      [] type = "STRING" -> {"string"}
      [] type \in {"INT_VECTOR", "LONG_VECTOR"} -> {"vector<int64_t>"}
      [] type = "DOUBLE_VECTOR" -> {"vector<double>"}
      [] type = "STRING_VECTOR" -> {"vector<string>"}
      [] OTHER -> {"int"}

\* Unmarshalling stores an INT as int and an INT_VECTOR as vector<int>.
UnmarshalledObject(o) ==
    CASE o.type = "INT" -> [o EXCEPT !.alternative = "int"]
      [] o.type = "INT_VECTOR" -> [o EXCEPT !.alternative = "vector<int>"]
      [] OTHER -> o

GetIntThrows(o) == o.type = "INT" /\ o.alternative # "int64_t"

\* What an uninitialised local holds after a getter refused.
Uninitialised == <<"uninitialised">>

\* GetLong asks for the type INT, so a LONG is never read.
TextOf(o) == IF o.type = "LONG" THEN Uninitialised ELSE o.val

-----------------------------------------------------------------------------
(* DataSharePredicates *)

\* No constructor sets settingMode_: it holds what was in the memory before.
SettingModes == {"INVALID_MODE", "QUERY_LANGUAGE", "PREDICATES_METHOD"}

NewShare(mode) == [ops |-> <<>>, where |-> <<>>, args |-> <<>>, order |-> <<>>,
                   mode |-> mode, thrown |-> FALSE]

\* The first operation clears the raw clause (ClearQueryLanguage).
SetOperationList(s, op, para1, para2, para3) ==
    LET t == IF s.mode # "PREDICATES_METHOD"
             THEN [s EXCEPT !.where = <<>>, !.args = <<>>, !.order = <<>>, !.mode = "PREDICATES_METHOD"]
             ELSE s
    IN  [t EXCEPT !.ops = Append(@, [op |-> op, para |-> <<para1, para2, para3>>])]

Field(field) == ObjectOf("string", field)

\* Takes the overloads for int, int64_t, double, string and bool.
ShareEqualTo(s, op, field, kind, val) ==
    SetOperationList(s, op, Field(field), ObjectOf(kind, val), NullObject)

ShareCompare(s, op, field, kind, val) ==
    SetOperationList(s, op, Field(field), ObjectOf(kind, val), NullObject)

\* The overload for int records the other comparison.
LessThanOrEqualTo(s, field, kind, val) ==
    SetOperationList(s, IF kind = "int" THEN "greaterThanOrEqualTo" ELSE "lessThanOrEqualTo",
                     Field(field), ObjectOf(kind, val), NullObject)

\* The overload for a list of ints logs the first element, which an empty list
\* does not have (at(0) throws); the other three take an empty list.
ShareIn(s, op, field, kind, values) ==
    IF kind = "ints" /\ values = <<>> THEN [s EXCEPT !.thrown = TRUE]
    ELSE SetOperationList(s, op, Field(field), ObjectOf(kind, values), NullObject)

ShareLogic(s, op) == SetOperationList(s, op, NullObject, NullObject, NullObject)

ShareMatch(s, op, field, value) ==
    SetOperationList(s, op, Field(field), ObjectOf("string", value), NullObject)

\* Like, Unlike and Glob.
SharePattern(s, op, field, value) ==
    SetOperationList(s, op, Field(field), ObjectOf("string", value), NullObject)

ShareIsNull(s, op, field) == SetOperationList(s, op, Field(field), NullObject, NullObject)

ShareBetween(s, op, field, low, high) ==
    SetOperationList(s, op, Field(field), ObjectOf("string", low), ObjectOf("string", high))

ShareOrderBy(s, op, field) == SetOperationList(s, op, Field(field), NullObject, NullObject)

ShareLimit(s, number, offset) ==
    SetOperationList(s, "limit", ObjectOf("int", number), ObjectOf("int", offset), NullObject)

ShareGroupBy(s, fields) ==
    IF fields = <<>> THEN [s EXCEPT !.thrown = TRUE]
    ELSE SetOperationList(s, "groupBy", ObjectOf("strings", fields), NullObject, NullObject)

ShareIndexedBy(s, name) == SetOperationList(s, "indexedBy", Field(name), NullObject, NullObject)

KeyPrefix(s, prefix) == SetOperationList(s, "keyPrefix", Field(prefix), NullObject, NullObject)

InKeys(s, keys) ==
    IF keys = <<>> THEN [s EXCEPT !.thrown = TRUE]
    ELSE SetOperationList(s, "inKeys", ObjectOf("strings", keys), NullObject, NullObject)

\* SetWhereClause, SetWhereArgs and SetOrder.
SetQueryLanguage(s, what, val) ==
    IF s.mode # "PREDICATES_METHOD" /\ val # <<>>
    THEN [s EXCEPT ![what] = val, !.mode = "QUERY_LANGUAGE"]
    ELSE s

Marshalling(s) ==
    \A i \in DOMAIN s.ops : \A n \in 1..3 :
        LET o == s.ops[i].para[n] IN o.alternative \in Marshalled(o.type)

\* The clause is given to the setters, which look at the mode of the new object.
Unmarshalling(s, mode) ==
    LET received == [NewShare(mode) EXCEPT !.ops = [i \in DOMAIN s.ops |->
                        [s.ops[i] EXCEPT !.para = [n \in 1..3 |-> UnmarshalledObject(s.ops[i].para[n])]]]]
        clause == SetQueryLanguage(received, "where", s.where)
        bound == SetQueryLanguage(clause, "args", s.args)
    IN  [SetQueryLanguage(bound, "order", s.order) EXCEPT !.mode = s.mode]

\* A parcel written and read once, as each process boundary does.
ShareSent(s, mode) == IF Marshalling(s) THEN Unmarshalling(s, mode) ELSE [s EXCEPT !.thrown = TRUE]

-----------------------------------------------------------------------------
(* RdbUtils *)

\* The operations whose first two parameters are a name and a text.
Comparisons == {"equalTo", "notEqualTo", "greaterThan", "lessThan", "greaterThanOrEqualTo",
                "lessThanOrEqualTo", "beginsWith", "contains", "endsWith", "like", "glob"}

ToOperateThrows(item) ==
    \/ item.op \in Comparisons /\ GetIntThrows(item.para[2])
    \/ item.op \in {"in", "notIn"} /\ item.para[2].alternative # "vector<string>"
    \/ item.op = "limit" /\ GetIntThrows(item.para[1])

\* Defect: the wrong comparison is built.
ToOperateFirstSwapped(p, item) ==
    CASE item.op \in {"greaterThan", "lessThan"} ->
            GreaterThan(p, IF item.op = "lessThan" THEN ">" ELSE "<", item.para[1].val, TextOf(item.para[2]))
      [] item.op = "equalTo" -> EqualTo(p, "=", item.para[1].val, TextOf(item.para[2]))
      [] OTHER -> p

ToOperateFirst(p, item) ==
    LET field == item.para[1].val
        value == TextOf(item.para[2])
    IN CASE item.op = "equalTo" -> EqualTo(p, "=", field, value)
         [] item.op = "notEqualTo" -> EqualTo(p, "<>", field, value)
         [] item.op = "greaterThan" -> GreaterThan(p, ">", field, value)
         [] item.op = "lessThan" -> GreaterThan(p, "<", field, value)
         [] item.op = "greaterThanOrEqualTo" -> GreaterThan(p, ">=", field, value)
         [] item.op = "and" -> And(p)
         [] item.op = "or" -> Or(p)
         [] item.op = "beginWrap" -> BeginWrap(p)
         [] item.op = "between" -> Between(p, "BETWEEN", field, value, TextOf(item.para[3]))
         [] OTHER -> p

ToOperateSecond(p, item) ==
    LET field == item.para[1].val
        value == TextOf(item.para[2])
    IN CASE item.op \in {"beginsWith", "contains"} -> ContainsText(p, item.op, field, value)
         [] item.op = "distinct" -> Distinct(p)
         [] item.op = "in" -> In(p, "IN", field, value)
         [] item.op = "glob" -> Like(p, "GLOB", field, value)
         [] item.op = "endWrap" -> EndWrap(p)
         [] item.op = "indexedBy" -> IndexedBy(p, field)
         [] item.op = "notBetween" -> Between(p, "NOT BETWEEN", field, value, TextOf(item.para[3]))
         [] item.op = "orderByAsc" -> OrderBy(p, "ASC", field)
         [] OTHER -> p

\* The offset recorded with a limit is not looked at.
ToOperateThird(p, item) ==
    LET field == item.para[1].val
        value == TextOf(item.para[2])
    IN CASE item.op = "orderByDesc" -> OrderBy(p, "DESC", field)
         [] item.op = "endsWith" -> ContainsText(p, item.op, field, value)
         [] item.op = "isNull" -> IsNull(p, "IS NULL", field)
         [] item.op = "isNotNull" -> IsNull(p, "IS NOT NULL", field)
         [] item.op = "lessThanOrEqualTo" -> GreaterThan(p, "<=", field, value)
         [] item.op = "notIn" -> In(p, "NOT IN", field, value)
         [] item.op = "like" -> Like(p, "LIKE", field, value)
         [] item.op = "limit" -> Limit(p, field)
         [] item.op = "groupBy" -> GroupBy(p, field)
         [] OTHER -> p

ToPredicatesThrows(s) == s.thrown \/ \E i \in DOMAIN s.ops : ToOperateThrows(s.ops[i])

ToPredicates(s, table) ==
    LET built == FoldLeft(LAMBDA p, item : ToOperateThird(ToOperateSecond(ToOperateFirst(p, item), item), item),
                          New(table), s.ops)
    IN  IF s.mode = "QUERY_LANGUAGE"
        THEN SetOrder(SetWhereArgs(SetWhereClause(built, s.where), s.args), s.order)
        ELSE built
=============================================================================
