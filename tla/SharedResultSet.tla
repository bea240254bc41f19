-------------------------- MODULE SharedResultSet --------------------------
(***************************************************************************)
(* The result set of RdbStore.Query (SqliteSharedResultSet over            *)
(* AbsSharedResultSet) and the one a data ability's client holds for it (a *)
(* proxy, which is an AbsSharedResultSet on the same memory).  The set     *)
(* keeps a window of the query's rows in a SharedBlock and runs the query  *)
(* again when the cursor leaves the window; between two runs other         *)
(* connections may write, and a run may fail.                              *)
(*                                                                         *)
(* A row of the table is a sequence of cells [type, size, value]; value    *)
(* tells rows apart, 0 is what a getter returns for want of a value.       *)
(* Getters are operators, not steps: a property says what they would       *)
(* return.  A double is handled like a long and is not told apart.         *)
(***************************************************************************)
EXTENDS SharedBlock

CONSTANTS Tables,       \* the contents the queried table may have
          Rewrites,     \* the contents another connection may give it
          NumColumns,   \* columns of the query
          Unnamed,      \* the tables also queried by SQL without column names
          FailRows,     \* rows before which a run of the query may fail
          MaxErrors,    \* bound on failing runs of the query
          MaxWrites     \* bound on writes to the table

NO_COUNT == -1
INIT_POS == -1
PICK_POS == 3
Garbage == -1           \* an uninitialised variable
Unprepared == -1        \* the query could not be prepared or bound

ASSUME ColumnsAssumption == NumColumns \in 1 .. COL_MAX_NUM

VARIABLES
    who,     \* whose result set it is: "local", "ability" (client of a data
             \* ability), "share" (client of a data share provider) or "step"
    table,   \* the rows the query selects now
    memory,  \* the SharedBlock of the SqliteSharedResultSet
    rs,      \* the SqliteSharedResultSet
    cur,     \* the result set in the hands of the user, where it is another
    alive,   \* the process with the store runs
    isInStepQuery,  \* the user's thread has a step query of another set open
    writes,
    seen     \* history: the rows first counted, the rows the window was filled
             \* from and where it starts, and what happened to the set and to the
             \* last copy of its rows

setVars == <<who, table, memory, rs, cur, alive, isInStepQuery, writes, seen>>

Larger(a, b) == IF a > b THEN a ELSE b
-----------------------------------------------------------------------------
(* Filling the block. *)

FillCell(was, addedRows, column, cell) ==
    IF was.ok THEN Put(was.b, addedRows, column, cell) ELSE was

FillCells(first, row, addedRows) ==
    LET upTo[i \in 0 .. NumColumns] ==
            IF i = 0 THEN first ELSE FillCell(upTo[i - 1], addedRows, i - 1, row[i])
    IN  upTo[NumColumns]

\* A row that does not fit is forgotten again; its space is not given back.
FillOneRow(b, row, addedRows) ==
    LET first == AllocRow(b)
        done  == FillCells(first, row, addedRows)
    IN  IF first.ok /\ ~done.ok THEN [done EXCEPT !.b = FreeLastRow(@)] ELSE done

EmptyBlock == SetColumnNum(Clear, NumColumns)

WithRow(info, fill) ==
    [info EXCEPT !.b = fill.b, !.isFull = ~fill.ok, !.addedRows = IF fill.ok THEN @ + 1 ELSE @]

\* A block that is full before the required row is started anew with this row.
FillAgain(info, row, fill) ==
    IF /\ ~fill.ok /\ info.addedRows > 0
       /\ info.startPos + info.addedRows <= info.requiredPos
    THEN WithRow([info EXCEPT !.startPos = @ + info.addedRows, !.addedRows = 0],
                 FillOneRow(EmptyBlock, row, 0))
    ELSE WithRow(info, fill)

FillRow(info, row) == FillAgain(info, row, FillOneRow(info.b, row, info.addedRows))

\* Defect: the count ends with the block although all rows are to be counted.
FillStepUncounted(info, row, isCountAllRows) ==
    IF info.isFull THEN info
    ELSE IF info.startPos > info.totalRows
    THEN [info EXCEPT !.totalRows = @ + 1]
    ELSE FillRow([info EXCEPT !.totalRows = @ + 1], row)

\* A row from sqlite3_step: one before startPos is counted and skipped; a full
\* block ends the loop unless all rows are to be counted.
FillStep(info, row, isCountAllRows) ==
    IF info.isFull /\ ~isCountAllRows THEN info
    ELSE IF info.startPos > info.totalRows \/ info.isFull
    THEN [info EXCEPT !.totalRows = @ + 1]
    ELSE FillRow([info EXCEPT !.totalRows = @ + 1], row)

\* The fill of the plain SQLite.
FillSharedBlock(rows, startPos, requiredPos, isCountAllRows) ==
    LET upTo[i \in 0 .. Len(rows)] ==
            IF i = 0
            THEN [b |-> EmptyBlock, startPos |-> startPos, requiredPos |-> requiredPos,
                  addedRows |-> 0, totalRows |-> 0, isFull |-> FALSE]
            ELSE FillStep(upTo[i - 1], rows[i], isCountAllRows)
    IN  upTo[Len(rows)]

\* A run of the query was the first or not, and ended with info after `stop' rows.
RunEnded(s, first, info, requiredPos, stop) ==
    [m |-> info.b,
     r |-> [s.r EXCEPT
              !.rowNum = IF info.totalRows = 0 \/ info.addedRows > 0      \* ResetStatement
                         THEN info.totalRows ELSE @,
              !.capacity = IF first THEN info.b.rowNums ELSE @],
     g |-> [s.g EXCEPT
              !.start = info.startPos,
              !.rows = IF first THEN table ELSE @,
              !.filled = table,
              !.errors = IF stop < Len(table) THEN @ + 1 ELSE @,
              !.events = @ \cup (IF first THEN {} ELSE {"again"})
                           \cup (IF stop < Len(table) THEN {"failed"} ELSE {})
                           \cup (IF ~first /\ table # s.g.rows THEN {"written"} ELSE {})]]

RunRefused(s, first) ==
    [s EXCEPT !.m = Clear, !.r.capacity = IF first THEN 0 ELSE @,
              !.g.start = 0, !.g.errors = @ + 1, !.g.events = @ \cup {"failed"}]

\* FillSharedBlock of the set, down to ExecuteForSharedBlock.  The first run
\* counts all rows; a later one starts a third of the capacity before the
\* required row, stops when the block is full, and what it counted until then
\* becomes rowNum.  stop is the row before which sqlite3_step failed.
Filled(s, requiredPos, stop) ==
    LET first == s.r.rowNum = NO_COUNT
        start == IF first \/ s.r.forwardOnly THEN requiredPos
                 ELSE Larger(requiredPos - s.r.capacity \div PICK_POS, 0)
    IN  IF s.r.closed THEN s
        ELSE IF stop = Unprepared THEN RunRefused(s, first)
        ELSE RunEnded(s, first,
                      FillSharedBlock(SubSeq(table, 1, stop), start, requiredPos, first),
                      requiredPos, stop)

GetRowCount(s, stop) == IF s.r.rowNum = NO_COUNT THEN Filled(s, 0, stop) ELSE s

\* Defect: the comparison with the last row of the window is one too high.
OnGoTooLate(s, position, stop) ==
    IF s.r.closed \/ position > s.m.rowNums THEN Filled(s, position, stop) ELSE s

\* The window is refilled when the position is not below its number of rows;
\* that the window may start after row 0 is not taken into account.
OnGo(s, position, stop) ==
    IF s.r.closed \/ position >= s.m.rowNums THEN Filled(s, position, stop) ELSE s

GoToCounted(s, position, stop) ==
    IF position >= s.r.rowNum THEN [s EXCEPT !.r.rowPos = s.r.rowNum, !.r.ok = FALSE]
    ELSE IF position < 0 THEN [s EXCEPT !.r.rowPos = INIT_POS, !.r.ok = FALSE]
    ELSE IF position = s.r.rowPos THEN [s EXCEPT !.r.ok = TRUE]
    ELSE [OnGo(s, position, stop) EXCEPT !.r.rowPos = position, !.r.ok = TRUE]

\* AbsSharedResultSet::GoToRow on the set itself.  ok is what it returns.
GoToRow(s, position, stop) == GoToCounted(GetRowCount(s, stop), position, stop)
-----------------------------------------------------------------------------
(* Getters, on the cell they find.  They return [ok, value]. *)

GetLong(cell) == [ok |-> TRUE, value |-> IF cell.type = "long" THEN cell.value ELSE 0]

\* The empty text is reported as an error.
GetString(cell) ==
    [ok |-> cell.type = "long" \/ (cell.type = "text" /\ cell.size > 1),
     value |-> IF cell.type \in {"long", "text"} THEN cell.value ELSE 0]

GetBlob(cell) ==
    [ok |-> TRUE,
     value |-> IF cell.type \in {"text", "blob"} /\ cell.size > 0 THEN cell.value ELSE 0]

IsColumnNull(cell) == [ok |-> TRUE, value |-> IF cell.type = "null" THEN 0 ELSE Garbage]

\* The getter a user calls for a cell of this type.
Getter(type, cell) ==
    CASE type = "long" -> GetLong(cell)
      [] type = "text" -> GetString(cell)
      [] type = "blob" -> GetBlob(cell)
      [] type = "null" -> IsColumnNull(cell)

Failed == [ok |-> FALSE, value |-> Garbage]

\* GetAllColumnNames of the set answers.  It begins a step query, which the
\* session refuses for SQL that does not begin with SEL and within another one.
HasColumnNames(r) == ~r.closed /\ r.selects /\ ~isInStepQuery

\* The proxy keeps the names of its first successful request.
ProxyHasColumnNames == cur.named \/ (alive /\ HasColumnNames(rs))
-----------------------------------------------------------------------------
(* The user of the set. *)

Now == [m |-> memory, r |-> rs, g |-> seen]

Becomes(s) == memory' = s.m /\ rs' = s.r /\ seen' = s.g

\* How a run of the query ends: after all rows, before one of them, or at once.
Stops == {Len(table)} \cup (IF seen.errors < MaxErrors
                           THEN {Unprepared} \cup {r \in FailRows : r < Len(table)}
                           ELSE {})

\* GoToRow, GoTo, GoToFirstRow, GoToLastRow, GoToNextRow and GoToPreviousRow of
\* AbsResultSet, as the position they pass to GoToRow.
Targets(rowPos, count) ==
    {0, count - 1, rowPos + 1, rowPos - 1} \cup {rowPos + 2, rowPos - 2} \cup -1 .. count

SetInit ==
    /\ table \in Tables
    /\ memory = Created
    /\ \E forwardOnly \in IF who = "local" THEN BOOLEAN ELSE {FALSE},
         selects \in IF table \in Unnamed THEN BOOLEAN ELSE {TRUE} :
          rs = [rowNum |-> NO_COUNT, capacity |-> 0, rowPos |-> INIT_POS, ok |-> FALSE,
                closed |-> FALSE, forwardOnly |-> forwardOnly, selects |-> selects]
    /\ cur = [rowPos |-> INIT_POS, rowCount |-> -1, ok |-> FALSE, closed |-> FALSE,
              startRowPos |-> INIT_POS, endRowPos |-> INIT_POS, named |-> FALSE]
    /\ alive = TRUE
    /\ isInStepQuery = FALSE
    /\ writes = 0
    /\ seen = [rows |-> <<>>, filled |-> <<>>, start |-> 0, errors |-> 0, events |-> {},
               copied |-> {}]

LocalGoToRow(position, stop) ==
    /\ who = "local"
    /\ Becomes(GoToRow(Now, position, stop))
    /\ UNCHANGED <<who, table, cur, alive, isInStepQuery, writes>>

\* SqliteSharedResultSet::Close deletes the block; GoToRow does not ask for it.
LocalClose ==
    /\ who = "local"
    /\ rs' = [rs EXCEPT !.closed = TRUE]
    /\ UNCHANGED <<who, table, memory, cur, alive, isInStepQuery, writes, seen>>

\* The proxy asks once for the number of rows; no answer leaves the 0 of the
\* caller, and a count of -1 is not kept.
Counted(s) == [s |-> s, count |-> s.r.rowNum, keep |-> s.r.rowNum]

ProxyRowCount(s, stop) ==
    IF cur.rowCount >= 0 THEN [s |-> s, count |-> cur.rowCount, keep |-> cur.rowCount]
    ELSE IF ~alive THEN [s |-> s, count |-> 0, keep |-> -1]
    ELSE Counted(GetRowCount(s, stop))

\* The set of the other process after the proxy's OnGo, which is called for a
\* position behind the window; a request that gets no answer is lost.
AbilityAsked(s, position, stop) ==
    IF ~cur.closed /\ position < s.m.rowNums THEN s
    ELSE IF alive THEN OnGo(s, position, stop)
    ELSE [s EXCEPT !.g.events = @ \cup {"lost"}]

\* A failing request returns -errCode, which as a bool is true.
AbilityGoTo(counted, position, stop) ==
    LET inside == position < counted.count /\ position >= 0
    IN  /\ Becomes(IF inside /\ position # cur.rowPos
                   THEN AbilityAsked(counted.s, position, stop)
                   ELSE counted.s)
        /\ cur' = [cur EXCEPT !.rowCount = counted.keep,
                              !.ok = inside,
                              !.rowPos = IF position >= counted.count THEN counted.count
                                         ELSE IF position < 0 THEN INIT_POS
                                         ELSE position]

\* AbsSharedResultSet::GoToRow on the proxy.
AbilityGoToRow(position, stop) ==
    /\ who = "ability"
    /\ AbilityGoTo(ProxyRowCount(Now, stop), position, stop)
    /\ UNCHANGED <<who, table, alive, isInStepQuery, writes>>

\* The proxy closes its own mapping and then the set of the other process.
AbilityClose ==
    /\ who = "ability"
    /\ cur' = [cur EXCEPT !.closed = TRUE]
    /\ rs' = [rs EXCEPT !.closed = @ \/ alive]
    /\ UNCHANGED <<who, table, memory, alive, isInStepQuery, writes, seen>>

\* A step result set of the same thread begins or ends its query.
StepElsewhere ==
    /\ who = "local"
    /\ isInStepQuery' = ~isInStepQuery
    /\ UNCHANGED <<who, table, memory, rs, cur, alive, writes, seen>>

\* What a getter, GetColumnCount or GetAllColumnNames leaves behind: PrepareStep
\* ends the step query that is open on the thread, its own or, having failed,
\* that of the other set.
LocalColumns ==
    /\ who = "local" /\ ~rs.closed
    /\ isInStepQuery' = FALSE
    /\ UNCHANGED <<who, table, memory, rs, cur, alive, writes, seen>>

\* The same on a proxy, whose stub has a thread of its own.
ProxyColumns ==
    /\ who \in {"ability", "share"}
    /\ cur' = [cur EXCEPT !.named = ProxyHasColumnNames]
    /\ UNCHANGED <<who, table, memory, rs, alive, isInStepQuery, writes, seen>>

\* Another connection changes the table.
Write(rows) ==
    /\ writes < MaxWrites
    /\ rows # table
    /\ table' = rows
    /\ writes' = writes + 1
    /\ UNCHANGED <<who, memory, rs, cur, alive, isInStepQuery, seen>>

ProviderDies ==
    /\ who \in {"ability", "share"} /\ alive
    /\ alive' = FALSE
    /\ UNCHANGED <<who, table, memory, rs, cur, isInStepQuery, writes, seen>>

SetNext ==
    \/ \E stop \in Stops :
          \/ \E p \in Targets(rs.rowPos, rs.rowNum) : LocalGoToRow(p, stop)
          \/ \E p \in Targets(cur.rowPos, cur.rowCount) : AbilityGoToRow(p, stop)
    \/ LocalClose
    \/ AbilityClose
    \/ StepElsewhere
    \/ LocalColumns
    \/ ProxyColumns
    \/ \E rows \in Rewrites : who \in {"local", "ability", "share"} /\ Write(rows)
    \/ ProviderDies
-----------------------------------------------------------------------------
\* The user's result set: where its cursor is, how many rows it believes in.
User == IF who = "local"
        THEN [rowPos |-> rs.rowPos, ok |-> rs.ok, closed |-> rs.closed, count |-> rs.rowNum]
        ELSE [rowPos |-> cur.rowPos, ok |-> cur.ok, closed |-> cur.closed,
              count |-> cur.rowCount]

\* The user's set knows its columns.
Named == IF who = "local" THEN HasColumnNames(rs) ELSE ProxyHasColumnNames

\* What a getter for this type returns at the cursor (CheckState, GetCellUnit).
\* The row of the cell is the absolute position of the cursor.
Read(column, type) ==
    IF \/ User.closed
       \/ ~Named
       \/ User.rowPos < 0 \/ User.rowPos >= User.count
       \/ ~HasCell(memory, User.rowPos, column)
    THEN Failed
    ELSE Getter(type, GetCellUnit(memory, User.rowPos, column))

Delivers(read, cell) ==
    (cell.type # "text" \/ cell.size > 1) => read = [ok |-> TRUE, value |-> cell.value]

CellTypes == {"long", "text", "blob", "null"}

\* After GoToRow returned E_OK, what the getters deliver (empty texts apart) is a
\* row of the last run of the query, the one as many rows behind the cursor as
\* the window starts late: the row asked for when it starts at row 0.  Otherwise
\* they fail, which needs a reason: the set cannot tell its columns (the SQL does
\* not begin with SEL, the thread is in a step query, or the provider died before
\* it was asked for them), the row is not in the window because the window starts
\* late, a run of the query failed, another connection wrote between two runs,
\* or the request to refill was lost with the provider.
RowAtCursor ==
    (/\ who \in {"local", "ability"}
     /\ User.ok /\ ~User.closed)
    => LET inWindow == User.rowPos < memory.rowNums
       IN  /\ \/ inWindow
              \/ seen.start > 0
              \/ seen.events \cap {"failed", "written", "lost"} # {}
           /\ \A c \in 1 .. NumColumns :
                 IF inWindow /\ Named
                 THEN LET cell == seen.filled[User.rowPos + seen.start + 1][c]
                      IN  Delivers(Read(c - 1, cell.type), cell)
                 ELSE \A type \in CellTypes : Read(c - 1, type) = Failed

\* The number of rows stays what the first run counted, unless the query was
\* run again for another window (it then stops counting when the block is full)
\* or failed on the way.
RowCountKept ==
    \/ rs.rowNum \in {NO_COUNT, Len(seen.rows)}
    \/ seen.events \cap {"again", "failed"} # {}
=============================================================================
