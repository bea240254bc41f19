------------------------ MODULE DataShareResultSet ------------------------
(***************************************************************************)
(* The result set a client of a data share provider holds.  It has a       *)
(* SharedBlock of its own, mapped by both processes: the client clears it  *)
(* and asks the provider (ISharedResultSetProxy, ISharedResultSetStub) to  *)
(* write STEP_LENGTH + 1 rows from the wanted one; the provider's          *)
(* RdbResultSetBridge copies them cell by cell out of a                    *)
(* SqliteSharedResultSet.  The stub runs the requests of a client one      *)
(* after the other on a thread of its own, so a request is one step.       *)
(***************************************************************************)
EXTENDS SharedResultSet

CONSTANTS ZeroValues,    \* values whose bytes as a blob hold a zero byte
          Leftovers      \* what the uninitialised locals of the bridge may hold:
                         \* the type and the number of columns

STEP_LENGTH == 2

VARIABLE shared         \* the block of the DataShareResultSet

shareSetVars == <<setVars, shared>>

Smaller(a, b) == IF a < b THEN a ELSE b

\* The bridge's set passes CheckState, and there is a cell.
HasInner(s, column) ==
    /\ HasColumnNames(s.r)
    /\ s.r.rowPos >= 0 /\ s.r.rowPos < s.r.rowNum
    /\ HasCell(s.m, s.r.rowPos, column)

Inner(s, column) == GetCellUnit(s.m, s.r.rowPos, column)

\* A failing GetColumnCount leaves the variable it should set uninitialised.
ColumnCount(s, garbage) == IF HasColumnNames(s.r) THEN NumColumns ELSE garbage.columns

\* The types of the row at the cursor; so does a failing GetColumnType.
GetColumnTypes(s, columnCount, garbage) ==
    [i \in 1 .. columnCount |-> IF HasCell(s.m, s.r.rowPos, i - 1) THEN Inner(s, i - 1).type
                                ELSE garbage.type]

Nothing == [type |-> "nothing", size |-> 0, value |-> 0]

\* A blob is written as a text, up to its first zero byte; an empty one, or one
\* that could not be read, is not written at all.
WriteBlobData(s, column) ==
    LET cell == Inner(s, column)
        got  == GetBlob(cell)
        size == IF cell.type = "text" THEN cell.size - 1 ELSE cell.size
    IN  IF ~HasInner(s, column) \/ got.value = 0 THEN Nothing
        ELSE [type |-> "text",
              size |-> IF got.value \in ZeroValues THEN 1 ELSE size,
              value |-> IF got.value \in ZeroValues THEN Garbage ELSE got.value]

\* The cell WriteColumn writes, by the type the column had in the first row.
\* The getters' results are not looked at.
ColumnCell(s, column, type) ==
    LET has  == HasInner(s, column)
        long == IF has THEN GetLong(Inner(s, column)).value ELSE Garbage
        text == IF has THEN GetString(Inner(s, column)) ELSE Failed
    IN  CASE type = "long" -> [type |-> "long", size |-> 0, value |-> long]
          [] type = "null" -> [type |-> "null", size |-> 0, value |-> 0]
          [] type = "blob" -> WriteBlobData(s, column)
          [] OTHER -> [type |-> "text",
                       size |-> IF ~text.ok THEN 1
                                ELSE IF Inner(s, column).type = "text"
                                THEN Inner(s, column).size ELSE 2,
                       value |-> IF text.ok THEN text.value ELSE 0]

\* A cell that does not fit is logged and left null.
WriteCellOf(o, column, cell) ==
    IF cell = Nothing THEN o ELSE Put(o, o.rowNums - 1, column, cell).b

\* One row of the writer.
WriteColumn(s, o, types) ==
    LET upTo[i \in 0 .. Len(types)] ==
            IF i = 0 THEN o
            ELSE WriteCellOf(upTo[i - 1], i - 1, ColumnCell(s, i - 1, types[i]))
    IN  upTo[Len(types)]

Written(was, o, next) ==
    [s |-> next, o |-> o, go |-> next.r.ok, window |-> was.window \/ was.s.g.start > 0]

WriteRow(was, new, types, stop) ==
    IF ~new.ok THEN [was EXCEPT !.o = new.b, !.go = FALSE]
    ELSE Written(was, WriteColumn(was.s, new.b, types), GoToRow(was.s, was.s.r.rowPos + 1, stop))

WriteNext(was, types, stop) == IF was.go THEN WriteRow(was, AllocRow(was.o), types, stop) ELSE was

\* Rows start .. target, while the block has room and the next row is there.
WriteBlock(s, o, start, target, types, stop) ==
    LET upTo[i \in start .. target + 1] ==
            IF i = start THEN [s |-> s, o |-> o, go |-> TRUE, window |-> FALSE]
            ELSE WriteNext(upTo[i - 1], types, stop)
    IN  upTo[target + 1]

Answer(s, o, ok, window) == [s |-> s, o |-> o, ok |-> ok, window |-> window]

Copied(wrote) == Answer(wrote.s, wrote.o, TRUE, wrote.window)

BridgeCopies(s, o, start, target, stop, garbage) ==
    IF ~s.r.ok THEN Answer(s, o, FALSE, FALSE)
    ELSE Copied(WriteBlock(s, o, start, target,
                           GetColumnTypes(s, ColumnCount(s, garbage), garbage), stop))

BridgeStarts(s, stop) == IF s.r.rowPos = INIT_POS THEN GoToRow(s, 0, stop) ELSE s

BridgeGoes(s, o, start, target, stop, garbage) ==
    IF \/ start < 0 \/ target < 0 \/ target >= s.r.rowNum
       \/ ColumnCount(s, garbage) <= 0
    THEN Answer(s, o, FALSE, FALSE)
    ELSE BridgeCopies(GoToRow(BridgeStarts(s, stop), start, stop),
                      o, start, target, stop, garbage)

\* RdbResultSetBridge::OnGo.
BridgeOnGo(s, o, start, target, stop, garbage) ==
    BridgeGoes(GetRowCount(s, stop), o, start, target, stop, garbage)
-----------------------------------------------------------------------------
\* Within the window, or outside of the rows, the provider is not asked.
ShareStays(counted, position) ==
    /\ cur' = [cur EXCEPT !.rowCount = counted.keep,
                          !.ok = position >= 0 /\ position < counted.count,
                          !.rowPos = IF position >= counted.count THEN counted.count
                                     ELSE IF position < 0 THEN INIT_POS
                                     ELSE position]
    /\ Becomes(counted.s)
    /\ UNCHANGED shared

\* The answer to OnGo; lost: there was none, and -errCode counts as true.
ShareFilled(counted, position, answer) ==
    /\ shared' = answer.o
    /\ cur' = [cur EXCEPT !.rowCount = counted.keep,
                          !.named = ProxyHasColumnNames,
                          !.ok = answer.ok,
                          !.rowPos = IF answer.ok THEN position ELSE INIT_POS,
                          !.startRowPos = IF answer.ok THEN position ELSE INIT_POS,
                          !.endRowPos = IF answer.ok THEN position + answer.o.rowNums - 1
                                        ELSE INIT_POS]
    /\ Becomes([answer.s EXCEPT !.g.copied =
                    (IF alive THEN {} ELSE {"lost"})
                    \cup (IF answer.window THEN {"window"} ELSE {})])

\* Defect: the last row of the window is not told from the row behind it.
OutOfWindowLate(position) == position > cur.endRowPos + 1 \/ position < cur.startRowPos

OutOfWindow(position) == position > cur.endRowPos \/ position < cur.startRowPos

\* The client's block before it is filled.  A failing GetAllColumnNames is not
\* noticed: the block has no columns then.
ShareCleared == SetColumnNum(Clear, IF ProxyHasColumnNames THEN NumColumns ELSE 0)

\* Outside startRowPos .. endRowPos the block is cleared and filled from the
\* position on.
ShareGoTo(counted, position, stop, garbage) ==
    IF /\ position >= 0 /\ position < counted.count /\ position # cur.rowPos
       /\ OutOfWindow(position)
    THEN ShareFilled(counted, position,
            IF alive
            THEN BridgeOnGo(counted.s, ShareCleared, position,
                            Smaller(position + STEP_LENGTH, counted.count - 1), stop, garbage)
            ELSE Answer(counted.s, ShareCleared, TRUE, FALSE))
    ELSE ShareStays(counted, position)

\* DataShareResultSet::GoToRow on the proxy.
ShareGoToRow(position, stop, garbage) ==
    /\ who = "share"
    /\ IF cur.closed
       THEN cur' = [cur EXCEPT !.ok = FALSE] /\ UNCHANGED <<shared, memory, rs, seen>>
       ELSE ShareGoTo(ProxyRowCount(Now, stop), position, stop, garbage)
    /\ UNCHANGED <<who, table, alive, isInStepQuery, writes>>

ShareClose ==
    /\ who = "share"
    /\ cur' = [cur EXCEPT !.closed = TRUE]
    /\ rs' = [rs EXCEPT !.closed = @ \/ alive]
    /\ UNCHANGED <<who, table, memory, alive, isInStepQuery, writes, seen, shared>>

ShareSetInit == SetInit /\ shared = Created

ShareSetNext ==
    \/ SetNext /\ UNCHANGED shared
    \/ \E stop \in Stops, p \in Targets(cur.rowPos, cur.rowCount),
         garbage \in Leftovers : ShareGoToRow(p, stop, garbage)
    \/ ShareClose
-----------------------------------------------------------------------------
CheckState ==
    /\ ~cur.closed
    /\ ProxyHasColumnNames
    /\ cur.rowPos >= 0 /\ cur.rowPos < cur.rowCount

\* What a getter for this type returns at the client's cursor.  (GetInt alone
\* leaves CheckState out; a block without columns has no cell for it either.)
ShareRead(column, type) ==
    LET row == cur.rowPos - cur.startRowPos
    IN  IF ~CheckState \/ ~HasCell(shared, row, column)
        THEN Failed
        ELSE Getter(type, GetCellUnit(shared, row, column))

\* The column has another type in this row than in the first one of the window.
Mixed(column) ==
    seen.rows[cur.startRowPos + 1][column].type # seen.rows[cur.rowPos + 1][column].type

\* A blob the bridge cuts at its first zero byte.
Cut(cell) == cell.type = "blob" /\ cell.value \in ZeroValues

\* After GoToRow returned E_OK the client's block holds the rows startRowPos ..
\* endRowPos, the cursor among them, and the client reads the cells the
\* provider's query delivered for that row, although they travel through two
\* blocks and two cursors.  Where the provider's SQL does not begin with SEL,
\* which has no column names, or the request was lost, every getter fails
\* although GoToRow did not.  Nothing is said where the column's type differs
\* from that of the window's first row, a blob holds a zero byte, the provider's
\* own window did not start at row 0, or its query failed or was run again
\* after a write.
RowAtClient ==
    (/\ who = "share" /\ cur.ok /\ ~cur.closed
     /\ "window" \notin seen.copied
     /\ seen.events \cap {"failed", "written"} = {})
    => IF rs.selects /\ "lost" \notin seen.copied
       THEN /\ cur.rowPos \in cur.startRowPos .. cur.endRowPos
            /\ shared.rowNums = cur.endRowPos - cur.startRowPos + 1
            /\ \A c \in 1 .. NumColumns :
                  LET cell == seen.rows[cur.rowPos + 1][c]
                  IN  Mixed(c) \/ Cut(cell) \/ Delivers(ShareRead(c - 1, cell.type), cell)
       ELSE \A c \in 1 .. NumColumns, type \in CellTypes : ShareRead(c - 1, type) = Failed
=============================================================================
