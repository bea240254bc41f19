--------------------------- MODULE RdbPredicates ---------------------------
(***************************************************************************)
(* The predicates of the relational store (AbsPredicates, AbsRdbPredicates *)
(* and RdbPredicates) and the SQL built from them.                         *)
(*                                                                         *)
(* A predicates object is a record, and every method an operator from the  *)
(* object and the arguments to the object it leaves.  A WHERE clause is a  *)
(* sequence of tokens; a bind argument and any other text is a sequence of *)
(* pieces, the empty string being the empty sequence, so that the pattern  *)
(* "%v%" is <<"%", v, "%">>.  A name is the sequence of its parts between  *)
(* dots with a flag for quotes around the parts.                           *)
(***************************************************************************)
EXTENDS Integers, Sequences, SequencesExt, FiniteSets

Plain(parts) == [parts |-> parts, quotes |-> FALSE]
NoName == Plain(<<>>)
\* A name of quotation marks only: not empty until RemoveQuotes made it so.
OnlyQuotes == [parts |-> <<>>, quotes |-> TRUE]

Word(w) == [tok |-> w, op |-> "", field |-> NoName, marks |-> 0]
Condition(op, field, marks) == [tok |-> "cond", op |-> op, field |-> field, marks |-> marks]
Comma == [tok |-> ",", op |-> "", field |-> NoName, marks |-> 0]

Initial ==
    [where |-> <<>>, args |-> <<>>, needAnd |-> FALSE, order |-> <<>>, sorted |-> FALSE,
     group |-> <<>>, index |-> NoName, limit |-> -1, offset |-> -1, distinct |-> FALSE]

InitialParam == [joins |-> <<>>, conditions |-> <<>>, joinCount |-> 0]

\* The constructor: the fields of AbsPredicates, of RdbPredicates, and the
\* operations and devices recorded for the distributed query.
New(table) == Initial @@ InitialParam @@ [table |-> table, remote |-> <<>>, devices |-> {}]

\* Clear leaves the recorded operations and the devices alone.
Clear(p) == Initial @@ InitialParam @@ p

-----------------------------------------------------------------------------
CheckParameter(field, values) ==
    field # NoName /\ \A i \in DOMAIN values : values[i] # <<>>

RemoveQuotes(name) == Plain(name.parts)

Normalized(name) == IF Len(name.parts) \in 1..2 THEN [name EXCEPT !.quotes = TRUE] ELSE name

Column(field) == Normalized(RemoveQuotes(field))

CheckIsNeedAnd(p) ==
    [p EXCEPT !.where = IF p.needAnd THEN Append(@, Word("AND")) ELSE @, !.needAnd = TRUE]

Restricted(p, op, field, values) ==
    IF ~CheckParameter(field, values) THEN p
    ELSE LET q == CheckIsNeedAnd(p)
         IN  [q EXCEPT !.where = Append(@, Condition(op, Column(field), Len(values))),
                       !.args = @ \o values]

EqualTo(p, op, field, value) == Restricted(p, op, field, <<value>>)

BeginWrap(p) ==
    [p EXCEPT !.where = @ \o (IF p.needAnd THEN <<Word("AND")>> ELSE <<>>) \o <<Word("(")>>,
              !.needAnd = FALSE]

\* Defect: a group may end right after it began.
EndWrapAnywhere(p) == [p EXCEPT !.where = Append(@, Word(")"))]

EndWrap(p) == IF p.needAnd THEN [p EXCEPT !.where = Append(@, Word(")"))] ELSE p

Or(p) == IF p.needAnd THEN [p EXCEPT !.where = Append(@, Word("OR")), !.needAnd = FALSE] ELSE p

And(p) == p

\* Contains, BeginsWith and EndsWith put the wildcard into the argument.
ContainsText(p, op, field, value) ==
    IF ~CheckParameter(field, <<value>>) THEN p
    ELSE Restricted(p, "LIKE", field,
            << (IF op = "beginsWith" THEN <<>> ELSE <<"%">>) \o value
               \o (IF op = "endsWith" THEN <<>> ELSE <<"%">>) >>)

IsNull(p, op, field) == Restricted(p, op, field, <<>>)

Like(p, op, field, value) == Restricted(p, op, field, <<value>>)

Between(p, op, field, low, high) == Restricted(p, op, field, <<low, high>>)

GreaterThan(p, op, field, value) == Restricted(p, op, field, <<value>>)

OrderBy(p, direction, field) ==
    IF ~CheckParameter(field, <<>>) THEN p
    ELSE [p EXCEPT !.order = @ \o (IF p.sorted THEN <<Comma>> ELSE <<>>)
                               \o <<Condition(direction, Column(field), 0)>>,
                   !.sorted = TRUE]

Distinct(p) == [p EXCEPT !.distinct = TRUE]

Limit(p, n) == IF p.limit # -1 \/ n < 1 THEN p ELSE [p EXCEPT !.limit = n]

Offset(p, n) == IF p.offset # -1 \/ n < 1 THEN p ELSE [p EXCEPT !.offset = n]

\* Every field is appended with a comma and the last comma erased; a refused
\* field returns at once, which leaves the comma of the one before it.
GroupBy(p, fields) ==
    LET refused == {i \in DOMAIN fields : ~CheckParameter(fields[i], <<>>)}
        taken == IF refused = {} THEN fields
                 ELSE SubSeq(fields, 1, (CHOOSE i \in refused : \A j \in refused : i <= j) - 1)
        added == FlattenSeq([i \in DOMAIN taken |-> <<Condition("", Column(taken[i]), 0), Comma>>])
        whole == p.group \o added
    IN  IF fields = <<>> THEN p
        ELSE [p EXCEPT !.group = IF refused = {} THEN Front(whole) ELSE whole]

IndexedBy(p, name) ==
    IF ~CheckParameter(name, <<>>) THEN p ELSE [p EXCEPT !.index = RemoveQuotes(name)]

In(p, op, field, values) ==
    IF field = NoName \/ values = <<>> THEN p
    ELSE LET q == CheckIsNeedAnd(p)
         IN  [q EXCEPT !.where = Append(@, Condition(op, Column(field), Len(values))),
                       !.args = @ \o values]

\* The raw setters change the text only: neither needAnd nor sorted follow.
SetWhereClause(p, where) == IF where = <<>> THEN p ELSE [p EXCEPT !.where = where]
SetWhereArgs(p, args) == [p EXCEPT !.args = args]
SetOrder(p, order) == IF order = <<>> THEN p ELSE [p EXCEPT !.order = order]

-----------------------------------------------------------------------------
(* AbsRdbPredicates: what is recorded for the distributed query.            *)

\* Defect: only the last recorded operation is kept.
RecordLast(p, op, field, value) ==
    [p EXCEPT !.remote = <<[op |-> op, field |-> field, value |-> value]>>]

\* Six methods record their operation before the parameters are checked.
Record(p, op, field, value) ==
    [p EXCEPT !.remote = Append(@, [op |-> op, field |-> field, value |-> value])]

InDevices(p, devices) == [p EXCEPT !.devices = devices]

\* The LIMIT is appended to the recorded operations themselves.
GetDistributedPredicates(p) ==
    IF p.limit >= 0 THEN Record(p, "limit", Plain(<<p.limit>>), <<p.offset>>) ELSE p

-----------------------------------------------------------------------------
(* RdbPredicates: joins.                                                    *)

Join(p, type, table) ==
    IF table = "" THEN p
    ELSE [p EXCEPT !.joins = Append(@, [type |-> type, table |-> table]), !.joinCount = @ + 1]

\* Using and On: the joins before the last one get an empty condition.
Using(p, how, fields) ==
    IF fields = <<>> \/ p.joinCount <= 0 THEN p
    ELSE [p EXCEPT !.conditions = @ \o [i \in 1..(p.joinCount - 1) |-> [how |-> "", fields |-> <<>>]]
                                    \o <<[how |-> how, fields |-> fields]>>,
                   !.joinCount = 0]

\* ProcessJoins reads a condition for every joined table.
ProcessJoins(p) ==
    [table |-> p.table,
     joins |-> [i \in DOMAIN p.joins |->
                  [on |-> IF i <= Len(p.conditions) THEN p.conditions[i]
                          ELSE [how |-> "out of bounds", fields |-> <<>>]] @@ p.joins[i]]]

GetJoinClause(p) ==
    IF p.joins # <<>> THEN ProcessJoins(p) ELSE [table |-> p.table, joins |-> <<>>]

-----------------------------------------------------------------------------
(* SqliteSqlBuilder: a statement is the record of its clauses.              *)

AppendClause(p) ==
    [index |-> p.index, where |-> p.where, group |-> p.group, order |-> p.order,
     limit |-> p.limit, offset |-> p.offset, args |-> p.args]

\* A column in quotes stays as it is, any other is put into quotes part by part.
Normalize(column) == IF column.parts = <<>> THEN column ELSE [column EXCEPT !.quotes = TRUE]

\* Columns are separated by a comma unless they are the first of the list.
AppendColumns(columns) ==
    FlattenSeq([i \in DOMAIN columns |->
        IF columns[i] = NoName THEN <<>>
        ELSE (IF i > 1 THEN <<Comma>> ELSE <<>>) \o <<Condition("", Normalize(columns[i]), 0)>>])

BuildQueryString(p, columns) ==
    [verb |-> "SELECT", distinct |-> p.distinct, columns |-> AppendColumns(columns),
     from |-> GetJoinClause(p)] @@ AppendClause(p)

\* The count is taken of the table alone: joins and DISTINCT are left out.
BuildCountString(p) ==
    [verb |-> "COUNT", distinct |-> FALSE, columns |-> <<>>,
     from |-> [table |-> p.table, joins |-> <<>>]] @@ AppendClause(p)

\* Update and delete take the table, the WHERE clause and its arguments only.
BuildChange(verb, p, columns) ==
    [verb |-> verb, table |-> p.table, columns |-> columns, where |-> p.where, args |-> p.args]

Statements(p, columns) ==
    <<BuildQueryString(p, columns), BuildCountString(p),
      BuildChange("UPDATE", p, columns), BuildChange("DELETE", p, <<>>)>>

-----------------------------------------------------------------------------
(* What a clause must look like to be SQL at all.                           *)

Marks(tokens) == FoldSeq(LAMBDA t, n : n + t.marks, 0, tokens)

\* Which token may follow which; "" stands for the start of the clause.
Follows(before, after) ==
    CASE before \in {"", "AND", "OR", "("} -> after \in {"cond", "("}
      [] before \in {"cond", ")"} -> after \in {"AND", "OR", ")"}
      [] OTHER -> FALSE

\* Whether every parenthesis is closed again is left to the caller.
WellFormed(where) ==
    \A i \in DOMAIN where :
        /\ Follows(IF i = 1 THEN "" ELSE where[i - 1].tok, where[i].tok)
        /\ where[i].tok = "cond" => where[i].field.parts # <<>>

\* Names and commas alternate, and the list neither begins nor ends with a comma.
Listed(list) ==
    /\ \A i \in DOMAIN list : (list[i].tok = ",") <=> (i % 2 = 0)
    /\ list # <<>> => Last(list).tok # ","
=============================================================================
