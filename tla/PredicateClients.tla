-------------------------- MODULE PredicateClients --------------------------
(***************************************************************************)
(* Clients that state one query in the three classes of predicates at      *)
(* once: RdbPredicates, DataAbilityPredicates and DataSharePredicates,     *)
(* through their JavaScript bindings or natively.  The three objects must  *)
(* go on meaning the same query: when they are turned into SQL, when they  *)
(* are sent to another process, and when they are extended there.          *)
(***************************************************************************)
EXTENDS DataSharePredicates

CONSTANTS
    Fields,       \* names of fields in the calls of cost 1
    MaxCost       \* bound: cost of the calls of a client; equalTo, OR, AND,
                  \* parentheses, USING, ON, Sync and Send cost 1, all others 2

VARIABLES
    rdb,          \* the RdbPredicates
    ability,      \* the DataAbilityPredicates
    share,        \* the DataSharePredicates
    hops,         \* process boundaries the last two have crossed
    spent,        \* cost of the calls so far
    odd           \* circumstances in which the classes differ (see the properties)

predVars == <<rdb, ability, share, hops, spent, odd>>

-----------------------------------------------------------------------------
(* JavaScript values and their conversion to text *)

Js(kind, text) == [kind |-> kind, text |-> text]
Text == Js("string", "v")
Empty == Js("string", "")
LongText == Js("string", "long")

\* A text longer than the default buffer is cut: by the RDB and DataAbility
\* bindings four bytes later than by the DataShare binding.
Convert2String(js) ==
    CASE js.kind # "string" -> <<>>
      [] js.text = "" -> <<>>
      [] js.text = "long" -> <<"1027 bytes">>
      [] OTHER -> <<js.text>>

ShareConvert2String(js) ==
    IF js = LongText THEN <<"1023 bytes">> ELSE Convert2String(js)

ConvertAny2String(js) ==
    CASE js.kind = "string" -> Convert2String(js)
      [] js.kind = "undefined" -> <<"invalid type">>
      [] OTHER -> <<js.kind, js.text>>

ShareConvertAny2String(js) ==
    IF js = LongText THEN ShareConvert2String(js) ELSE ConvertAny2String(js)

\* A call: the method, the field, the values and two numbers.
Call(fn, field, values, number, offset) ==
    [fn |-> fn, field |-> field, values |-> values, number |-> number, offset |-> offset]
OnField(fn, field, values) == Call(fn, field, values, 0, 0)

-----------------------------------------------------------------------------
(* The bindings of RdbPredicates *)

SqlOf(fn) ==
    CASE fn = "equalTo" -> "=" [] fn = "notEqualTo" -> "<>"
      [] fn = "greaterThan" -> ">" [] fn = "lessThan" -> "<"
      [] fn = "greaterThanOrEqualTo" -> ">=" [] fn = "lessThanOrEqualTo" -> "<="
      [] fn = "like" -> "LIKE" [] fn = "glob" -> "GLOB"
      [] fn = "isNull" -> "IS NULL" [] fn = "isNotNull" -> "IS NOT NULL"
      [] fn = "between" -> "BETWEEN" [] fn = "notBetween" -> "NOT BETWEEN"
      [] fn = "in" -> "IN" [] fn = "notIn" -> "NOT IN"
      [] fn = "orderByAsc" -> "ASC" [] OTHER -> "DESC"

Equals == {"equalTo", "notEqualTo"}
Greater == {"greaterThan", "lessThan", "greaterThanOrEqualTo", "lessThanOrEqualTo"}
Wildcards == {"contains", "beginsWith", "endsWith"}
Patterns == {"like", "glob"}
NullTests == {"isNull", "isNotNull"}
Ranges == {"between", "notBetween"}
Lists == {"in", "notIn"}
Orders == {"orderByAsc", "orderByDesc"}

AnyText(c, i) == ConvertAny2String(c.values[i])

Convert2StrVector(c) == [i \in DOMAIN c.values |-> ConvertAny2String(c.values[i])]
ShareConvert2StrVector(c) == [i \in DOMAIN c.values |-> ShareConvertAny2String(c.values[i])]

\* equalTo, notEqualTo, and, or and the parentheses; the first four are also
\* recorded for the distributed query.
RdbLogic(p, c) ==
    CASE c.fn \in Equals -> EqualTo(Record(p, c.fn, c.field, AnyText(c, 1)), SqlOf(c.fn), c.field, AnyText(c, 1))
      [] c.fn = "beginWrap" -> BeginWrap(p)
      [] c.fn = "endWrap" -> EndWrap(p)
      [] c.fn = "or" -> Or(Record(p, "or", NoName, <<>>))
      [] c.fn = "and" -> And(Record(p, "and", NoName, <<>>))

RdbMatch(p, c) ==
    CASE c.fn \in Wildcards -> ContainsText(p, c.fn, c.field, AnyText(c, 1))
      [] c.fn \in NullTests -> IsNull(p, SqlOf(c.fn), c.field)
      [] c.fn \in Patterns -> Like(p, SqlOf(c.fn), c.field, AnyText(c, 1))

RdbRange(p, c) ==
    CASE c.fn \in Ranges -> Between(p, SqlOf(c.fn), c.field, AnyText(c, 1), AnyText(c, 2))
      [] c.fn \in Greater -> GreaterThan(p, SqlOf(c.fn), c.field, AnyText(c, 1))

RdbShape(p, c) ==
    CASE c.fn \in Orders -> OrderBy(Record(p, c.fn, c.field, <<>>), SqlOf(c.fn), c.field)
      [] c.fn = "distinct" -> Distinct(p)
      [] c.fn = "limit" -> Offset(Limit(p, c.number), c.offset)
      [] c.fn = "groupBy" -> GroupBy(p, c.values)
      [] c.fn = "indexedBy" -> IndexedBy(p, c.field)
      [] c.fn \in Lists -> In(p, SqlOf(c.fn), c.field, Convert2StrVector(c))

RdbCall(p, c) ==
    CASE c.fn \in Equals \cup {"beginWrap", "endWrap", "or", "and"} -> RdbLogic(p, c)
      [] c.fn \in Wildcards \cup NullTests \cup Patterns -> RdbMatch(p, c)
      [] c.fn \in Ranges \cup Greater -> RdbRange(p, c)
      [] OTHER -> RdbShape(p, c)

-----------------------------------------------------------------------------
(* The bindings of DataAbilityPredicates: the same methods of AbsPredicates *)
(* without the record for the distributed query.                            *)

AbilityLogic(p, c) ==
    CASE c.fn \in Equals -> EqualTo(p, SqlOf(c.fn), c.field, AnyText(c, 1))
      [] c.fn = "beginWrap" -> BeginWrap(p)
      [] c.fn = "endWrap" -> EndWrap(p)
      [] c.fn = "or" -> Or(p)
      [] c.fn = "and" -> And(p)

AbilityMatch(p, c) ==
    CASE c.fn \in Wildcards -> ContainsText(p, c.fn, c.field, AnyText(c, 1))
      [] c.fn \in NullTests -> IsNull(p, SqlOf(c.fn), c.field)
      [] c.fn \in Patterns -> Like(p, SqlOf(c.fn), c.field, AnyText(c, 1))

AbilityRange(p, c) ==
    CASE c.fn \in Ranges -> Between(p, SqlOf(c.fn), c.field, AnyText(c, 1), AnyText(c, 2))
      [] c.fn \in Greater -> GreaterThan(p, SqlOf(c.fn), c.field, AnyText(c, 1))

AbilityShape(p, c) ==
    CASE c.fn \in Orders -> OrderBy(p, SqlOf(c.fn), c.field)
      [] c.fn = "distinct" -> Distinct(p)
      [] c.fn = "limit" -> Offset(Limit(p, c.number), c.offset)
      [] c.fn = "groupBy" -> GroupBy(p, c.values)
      [] c.fn = "indexedBy" -> IndexedBy(p, c.field)
      [] c.fn \in Lists -> In(p, SqlOf(c.fn), c.field, Convert2StrVector(c))

AbilityCall(p, c) ==
    CASE c.fn \in Equals \cup {"beginWrap", "endWrap", "or", "and"} -> AbilityLogic(p, c)
      [] c.fn \in Wildcards \cup NullTests \cup Patterns -> AbilityMatch(p, c)
      [] c.fn \in Ranges \cup Greater -> AbilityRange(p, c)
      [] OTHER -> AbilityShape(p, c)

-----------------------------------------------------------------------------
(* The bindings of DataSharePredicates *)

\* equalTo and notEqualTo take a number, a boolean or a string; any other
\* value leaves the predicates as they are.
ShareEqual(s, c) ==
    LET js == c.values[1]
    IN CASE js.kind = "number" -> ShareEqualTo(s, c.fn, c.field, "double", ConvertAny2String(js))
         [] js.kind = "boolean" -> ShareEqualTo(s, c.fn, c.field, "bool", ConvertAny2String(js))
         [] js.kind = "string" -> ShareEqualTo(s, c.fn, c.field, "string", ShareConvert2String(js))
         [] OTHER -> s

ShareWrap(s, c) == ShareLogic(s, c.fn)

ShareContains(s, c) == ShareMatch(s, c.fn, c.field, ShareConvertAny2String(c.values[1]))

ShareNull(s, c) == ShareIsNull(s, c.fn, c.field)

ShareLike(s, c) == SharePattern(s, c.fn, c.field, ShareConvertAny2String(c.values[1]))

ShareRange(s, c) ==
    ShareBetween(s, c.fn, c.field, ShareConvertAny2String(c.values[1]), ShareConvertAny2String(c.values[2]))

\* The comparisons take a number or a string.
ShareGreaterThan(s, c) ==
    LET js == c.values[1]
        kind == IF js.kind = "number" THEN "double" ELSE "string"
    IN  IF js.kind \notin {"number", "string"} THEN s
        ELSE IF c.fn = "lessThanOrEqualTo" THEN LessThanOrEqualTo(s, c.field, kind, ShareConvertAny2String(js))
        ELSE ShareCompare(s, c.fn, c.field, kind, ShareConvertAny2String(js))

ShareShape(s, c) ==
    CASE c.fn \in Orders -> ShareOrderBy(s, c.fn, c.field)
      [] c.fn = "indexedBy" -> ShareIndexedBy(s, c.field)
      [] c.fn = "distinct" -> ShareLogic(s, "distinct")
      [] c.fn = "limit" -> ShareLimit(s, c.number, c.offset)
      [] c.fn = "groupBy" -> ShareGroupBy(s, c.values)
      [] c.fn \in Lists -> ShareIn(s, c.fn, c.field, "strings", ShareConvert2StrVector(c))

ShareCall(s, c) ==
    CASE c.fn \in Equals -> ShareEqual(s, c)
      [] c.fn \in {"beginWrap", "endWrap", "or", "and"} -> ShareWrap(s, c)
      [] c.fn \in Wildcards -> ShareContains(s, c)
      [] c.fn \in NullTests -> ShareNull(s, c)
      [] c.fn \in Patterns -> ShareLike(s, c)
      [] c.fn \in Ranges -> ShareRange(s, c)
      [] c.fn \in Greater -> ShareGreaterThan(s, c)
      [] OTHER -> ShareShape(s, c)

\* unlike, prefixKey and inKeys exist here only; RdbUtils knows none of them.
ShareOnly(s, fn) ==
    CASE fn = "unlike" -> SharePattern(s, "unlike", Plain(<<"a">>), <<"v">>)
      [] fn = "keyPrefix" -> KeyPrefix(s, Plain(<<"a">>))
      [] fn = "inKeys" -> InKeys(s, <<Plain(<<"a">>)>>)

-----------------------------------------------------------------------------
(* DataAbilityPredicates in a parcel *)

\* SetAttributes strips the quotes from the GROUP BY text, splits it at the
\* commas and gives the names to GroupBy; names without a comma between them
\* become one name, and an empty name is refused.
GroupNames(group) ==
    FoldLeft(LAMBDA names, t :
                IF t.tok = "," THEN Append(names, <<>>)
                ELSE Append(Front(names), Last(names) \o t.field.parts),
             << <<>> >>, group)

\* getline returns no token after a last comma.
GroupArray(group) ==
    LET names == GroupNames(group)
        cut == IF Last(names) = <<>> THEN Front(names) ELSE names
    IN  [i \in DOMAIN cut |-> Plain(cut[i])]

SetAttributes(p, distinct, index, group, order, limit, offset) ==
    LET p1 == IF distinct THEN Distinct(p) ELSE p
        p2 == IF index # NoName THEN IndexedBy(p1, index) ELSE p1
        p3 == IF group # <<>> THEN GroupBy(p2, GroupArray(group)) ELSE p2
        p4 == SetOrder(p3, order)
        p5 == IF limit # -1 THEN Limit(p4, limit) ELSE p4
    IN  IF offset # -1 THEN Offset(p5, offset) ELSE p5

SetWhereClauseAndArgs(p, where, args) == SetWhereArgs(SetWhereClause(p, where), args)

\* Defect: the offset is not written.
AbilitySentNoOffset(p) ==
    SetAttributes(SetWhereClauseAndArgs(New(p.table), p.where, p.args),
                  p.distinct, p.index, p.group, p.order, p.limit, -1)

\* Marshalling, and the constructor that reads the parcel: needAnd and sorted
\* are not written, so the new object has neither.
AbilitySent(p) ==
    SetAttributes(SetWhereClauseAndArgs(New(p.table), p.where, p.args),
                  p.distinct, p.index, p.group, p.order, p.limit, p.offset)

-----------------------------------------------------------------------------
(* Clients *)

PredInit ==
    /\ rdb = New("t")
    /\ ability = New("t")
    /\ \E mode \in SettingModes :
          /\ share = NewShare(mode)
          /\ odd = IF mode = "PREDICATES_METHOD" THEN {"garbage"} ELSE {}
    /\ hops = 0
    /\ spent = 0

Counts(cost) == spent + cost <= MaxCost /\ spent' = spent + cost

Note(what) == odd' = odd \cup what

\* What is noted of a call through the bindings.
Circumstances(c) ==
    {"method"}
    \cup (IF \E i \in DOMAIN c.values : c.values[i] = LongText THEN {"cut"} ELSE {})
    \cup (IF c.fn \in Equals /\ c.values[1].kind \in {"null", "undefined"} THEN {"ignored"} ELSE {})
    \cup (IF c.fn \in Greater /\ c.values[1].kind \notin {"number", "string"} THEN {"ignored"} ELSE {})
    \cup (IF c.fn = "limit" THEN {"limit"} ELSE {})
    \cup (IF c.fn = "limit" /\ c.offset > 0 THEN {"offset"} ELSE {})
    \cup (IF c.fn = "groupBy" /\ c.values = <<>> THEN {"emptyGroup"} ELSE {})
    \cup (IF c.fn = "groupBy" /\ rdb.group # <<>> THEN {"groupAgain"} ELSE {})
    \cup (IF c.fn = "groupBy" /\ \E i \in DOMAIN c.values : c.values[i].parts = <<>> THEN {"groupEmpty"} ELSE {})
    \cup (IF c.field = OnlyQuotes THEN {"onlyQuotes"} ELSE {})
    \cup (IF c.fn \in Equals /\ ~CheckParameter(c.field, <<AnyText(c, 1)>>) THEN {"refused"} ELSE {})
    \cup (IF hops > 0 THEN {"extended"} ELSE {})

Values == {<<Text>>, <<Empty>>, <<LongText>>, <<Js("number", "1")>>, <<Js("boolean", "1")>>,
           <<Js("null", "")>>, <<Js("undefined", "")>>}

\* Conditions, OR, AND and parentheses, which shape the WHERE clause.
ShapingCalls ==
    {OnField("equalTo", f, <<Text>>) : f \in Fields}
    \cup {OnField(fn, NoName, <<>>) : fn \in {"beginWrap", "endWrap", "or", "and"}}

SpecialCalls ==
    LET a == Plain(<<"a">>)
        names == {Plain(<<"a">>), OnlyQuotes, Plain(<<"t", "x">>), NoName}
    IN  {OnField(fn, a, v) : fn \in {"equalTo", "greaterThan"}, v \in Values}
        \cup {OnField("equalTo", f, <<Text>>) : f \in names}
        \cup {OnField(fn, a, <<Text>>) :
                fn \in {"notEqualTo"} \cup (Greater \ {"greaterThan"}) \cup Wildcards \cup Patterns}
        \cup {OnField(fn, a, <<Text, Js("number", "2")>>) : fn \in Ranges}
        \cup {OnField(fn, a, <<>>) : fn \in NullTests \cup {"distinct"}}
        \cup {OnField(fn, f, <<>>) : fn \in Orders, f \in names}
        \cup {OnField("indexedBy", a, <<>>)}
        \cup {Call("limit", NoName, <<>>, n, o) : n \in {0, 2}, o \in {0, 1}}
        \cup {OnField("groupBy", NoName, v) : v \in {<<>>, <<a>>, <<a, OnlyQuotes>>, <<a, Plain(<<"t", "x">>)>>, <<a, NoName, a>>}}
        \cup {OnField(fn, f, v) : fn \in Lists, f \in {a, NoName}, v \in {<<>>, <<Text, Empty>>, <<Js("number", "2")>>}}

\* The call is made on the three objects.
CallAll(c, cost) ==
    /\ Counts(cost)
    /\ rdb' = RdbCall(rdb, c)
    /\ ability' = AbilityCall(ability, c)
    /\ share' = ShareCall(share, c)
    /\ Note(Circumstances(c))
    /\ UNCHANGED hops

\* A native client compares with an int or an int64_t.
CallNative(fn, kind) ==
    LET a == Plain(<<"a">>)
        sql == [p \in {rdb, ability} |->
                  IF fn = "equalTo" THEN EqualTo(p, "=", a, <<"7">>)
                  ELSE GreaterThan(p, "<=", a, <<"7">>)]
    IN  /\ Counts(2)
        /\ rdb' = IF fn = "equalTo" THEN Record(sql[rdb], fn, a, <<"7">>) ELSE sql[rdb]
        /\ ability' = sql[ability]
        /\ share' = IF fn = "equalTo" THEN ShareEqualTo(share, fn, a, kind, <<"7">>)
                    ELSE LessThanOrEqualTo(share, a, kind, <<"7">>)
        /\ Note({"method", kind}
                \cup (IF fn = "lessThanOrEqualTo" /\ kind = "int" THEN {"lessOrEqualInt"} ELSE {})
                \cup (IF hops > 0 THEN {"extended"} ELSE {}))
        /\ UNCHANGED hops

\* It looks for a field in a list, which may be empty, of each of the four types.
CallNativeList(fn, kind, values) ==
    LET a == Plain(<<"a">>)
    IN  /\ Counts(2)
        /\ rdb' = In(rdb, SqlOf(fn), a, values)
        /\ ability' = In(ability, SqlOf(fn), a, values)
        /\ share' = ShareIn(share, fn, a, kind, values)
        /\ Note({"method"} \cup (IF kind = "strings" THEN {} ELSE {"numberList"})
                          \cup (IF hops > 0 THEN {"extended"} ELSE {}))
        /\ UNCHANGED hops

\* The setters of a raw clause, its arguments and the order.
SetRaw(what) ==
    LET a == Normalized(Plain(<<"a">>))
        val == CASE what = "where" -> <<Condition("=", a, 1)>>
                 [] what = "args" -> << <<"v">> >>
                 [] what = "order" -> <<Condition("ASC", a, 0)>>
        set(p) == CASE what = "where" -> SetWhereClause(p, val)
                    [] what = "args" -> SetWhereArgs(p, val)
                    [] what = "order" -> SetOrder(p, val)
    IN  /\ Counts(2)
        /\ rdb' = set(rdb)
        /\ ability' = set(ability)
        /\ share' = SetQueryLanguage(share, what, val)
        /\ Note({"raw"})
        /\ UNCHANGED hops

\* Only the two classes of the relational store can be cleared.
ClearBoth ==
    /\ Counts(2)
    /\ rdb' = Clear(rdb)
    /\ ability' = Clear(ability)
    /\ Note({"cleared"})
    /\ UNCHANGED <<share, hops>>

CallShareOnly(fn) ==
    /\ Counts(2)
    /\ share' = ShareOnly(share, fn)
    /\ Note({"method"})
    /\ UNCHANGED <<rdb, ability, hops>>

\* Joins exist in RdbPredicates only.
JoinTables(type, table) ==
    /\ Counts(2)
    /\ rdb' = Join(rdb, type, table)
    /\ UNCHANGED <<ability, share, hops, odd>>

JoinUsing(how, fields) ==
    /\ Counts(1)
    /\ rdb' = Using(rdb, how, fields)
    /\ UNCHANGED <<ability, share, hops, odd>>

\* SetJoinCount, SetJoinConditions, SetJoinTableNames and SetJoinTypes.
JoinSetter ==
    /\ Counts(2)
    /\ rdb' \in {[rdb EXCEPT !.joinCount = 2], [rdb EXCEPT !.conditions = <<>>],
                 [rdb EXCEPT !.joins = <<>>]}
    /\ Note({"joinSetter"})
    /\ UNCHANGED <<ability, share, hops>>

\* A distributed operation asks for the recorded predicates of the object.
Sync(devices) ==
    /\ Counts(1)
    /\ rdb' = GetDistributedPredicates(InDevices(rdb, devices))
    /\ Note(IF "synced" \in odd THEN {"syncedAgain"} ELSE {"synced"})
    /\ UNCHANGED <<ability, share, hops>>

\* The other two classes cross a process boundary; the new DataSharePredicates
\* object has any mode in its memory.
Send ==
    /\ Counts(1)
    /\ hops' = hops + 1
    /\ ability' = AbilitySent(ability)
    /\ \E mode \in SettingModes :
          /\ share' = ShareSent(share, mode)
          /\ Note(IF mode = "PREDICATES_METHOD" THEN {"garbage"} ELSE {})
    /\ UNCHANGED rdb

PredNext ==
    \/ \E c \in ShapingCalls : CallAll(c, 1)
    \/ \E c \in SpecialCalls : CallAll(c, 2)
    \/ \E fn \in {"equalTo", "lessThanOrEqualTo"}, kind \in {"int", "long"} : CallNative(fn, kind)
    \/ \E fn \in Lists, kind \in {"ints", "longs", "doubles", "strings"}, values \in {<<>>, << <<"7">> >>} :
          CallNativeList(fn, kind, values)
    \/ \E what \in {"where", "args", "order"} : SetRaw(what)
    \/ ClearBoth
    \/ \E fn \in {"unlike", "keyPrefix", "inKeys"} : CallShareOnly(fn)
    \/ \E type \in {"INNER JOIN", "CROSS JOIN"}, table \in {"u", ""} : JoinTables(type, table)
    \/ \E how \in {"USING", "ON"}, fields \in {<<>>, <<"k">>} : JoinUsing(how, fields)
    \/ JoinSetter
    \/ \E devices \in {{}, {"d"}} : Sync(devices)
    \/ Send

PredSpec == PredInit /\ [][PredNext]_predVars

-----------------------------------------------------------------------------
(* Properties *)

Met(what) == odd \cap what # {}

Selected == <<Plain(<<"a">>), Plain(<<"t", "x">>)>>

(* The clauses are SQL: conditions are joined by exactly one AND or OR,     *)
(* groups are not empty, the names of ORDER BY and GROUP BY are separated   *)
(* by commas, and every question mark of a WHERE clause has its bind        *)
(* argument, also in what the provider builds.  AbsPredicates keeps this    *)
(* with two flags that neither the raw setters nor the parcel know of, so   *)
(* it is promised without a raw clause and, for DataAbilityPredicates, for  *)
(* an object that is not extended where it was received.  A name of         *)
(* quotation marks only, a second GROUP BY and an empty name in a GROUP BY  *)
(* break it too.  Every joined table has a condition or is waiting for one, *)
(* unless a setter of the binding changed one list without the other.       *)
Grammatical ==
    /\ \A p \in {rdb, ability} :
          /\ ~Met({"raw", "onlyQuotes"} \cup (IF p = ability /\ p # rdb THEN {"extended"} ELSE {})) =>
                WellFormed(p.where) /\ Listed(p.order)
          /\ ~Met({"groupAgain", "groupEmpty"}) => Listed(p.group)
          /\ ~Met({"raw"}) => Marks(p.where) = Len(p.args)
    /\ ~Met({"raw"}) /\ ~ToPredicatesThrows(share) =>
          LET p == ToPredicates(share, "t") IN Marks(p.where) = Len(p.args)
    /\ ~Met({"joinSetter"}) =>
          /\ Len(rdb.conditions) + rdb.joinCount = Len(rdb.joins)
          /\ rdb.joinCount = 0 =>
                \A i \in DOMAIN rdb.joins : GetJoinClause(rdb).joins[i].on.how # "out of bounds"

(* The same query: the provider's RdbUtils::ToPredicates makes of the       *)
(* operations it received the statement the RDB binding would have built    *)
(* from the same calls.  The circumstances are the places where the two     *)
(* paths differ: a value of a type the DataShare binding ignores, a text    *)
(* beyond its buffer, an offset, an int or a limit that crossed a process   *)
(* boundary (reading it throws), an int64_t, a native list of numbers, a    *)
(* GROUP BY of no names (its log line throws), lessThanOrEqualTo of an int, *)
(* a raw clause beside method calls or in an object whose uninitialised     *)
(* mode refuses it, and Clear.  An empty list of texts is on both paths a   *)
(* call without effect, and leaves no AND behind.                           *)
SameQuery ==
    /\ ~Met({"ignored", "cut", "offset", "long", "numberList", "emptyGroup", "lessOrEqualInt", "cleared"})
    /\ ~(hops > 0 /\ Met({"int", "limit"}))
    /\ ~({"raw", "method"} \subseteq odd)
    /\ ~({"raw", "garbage"} \subseteq odd)
    => /\ ~ToPredicatesThrows(share)
       /\ rdb.joins = <<>> => Statements(ToPredicates(share, "t"), Selected) = Statements(rdb, Selected)

(* A DataAbilityPredicates object means the same query after its parcel was *)
(* read, unless its GROUP BY was given twice or with an empty name, or it   *)
(* was extended by the receiver.                                            *)
AbilityRoundTrip ==
    ~Met({"extended", "groupAgain", "groupEmpty"}) /\ rdb.joins = <<>> =>
        Statements(ability, Selected) = Statements(rdb, Selected)

\* The equality conditions of the statement, and those recorded.
EqualsOf(where) ==
    LET conds == SelectSeq(where, LAMBDA t : t.op \in {"=", "<>"})
    IN  [i \in DOMAIN conds |-> <<conds[i].op, conds[i].field>>]
RecordedEquals(remote) ==
    LET ops == SelectSeq(remote, LAMBDA r : r.op \in Equals)
    IN  [i \in DOMAIN ops |-> <<SqlOf(ops[i].op), Column(ops[i].field)>>]

(* The distributed query asks for the equalities the local statement has,   *)
(* in the same order, and for one limit, unless a condition was refused     *)
(* after it had been recorded, the object was cleared or given a raw        *)
(* clause, or it is used for a second distributed operation.                *)
DistributedFaithful ==
    /\ ~Met({"refused", "cleared", "raw"}) => EqualsOf(rdb.where) = RecordedEquals(rdb.remote)
    /\ ~Met({"syncedAgain"}) => Len(SelectSeq(rdb.remote, LAMBDA r : r.op = "limit")) <= 1
=============================================================================
