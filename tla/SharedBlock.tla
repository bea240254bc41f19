---------------------------- MODULE SharedBlock ----------------------------
(***************************************************************************)
(* The shared memory block in which a result set keeps the rows it was     *)
(* filled with (appdatafwk, SharedBlock).  It is a bump allocator: a       *)
(* header, a chain of row groups of ROW_OFFSETS_NUM slots each, a          *)
(* directory of cells per row, and the bytes of texts and blobs.  Nothing  *)
(* is given back before Clear: FreeLastRow only forgets the row.           *)
(*                                                                         *)
(* A block is a record.  groups and dirs hold what lies in the block at an *)
(* offset; a cell is [type, size, value, offset], where value stands for   *)
(* the content and offset is where the bytes of a text or blob lie.        *)
(* The operators return the block after the call, and ok or the offset.    *)
(* The result sets use them; the variables below are for a block on its    *)
(* own, with want as the rows that were put.                               *)
(***************************************************************************)
EXTENDS Integers, Sequences, FiniteSets, TLC

CONSTANTS mSize,            \* bytes of the block
          ROW_OFFSETS_NUM,  \* slots of a row group (100 in the code)
          COL_MAX_NUM,      \* most columns of a block (32767 in the code)
          BlockCells        \* cells put into a block on its own

ASSUME BlockAssumption ==
    /\ ROW_OFFSETS_NUM \in Nat \ {0}
    /\ mSize \in Nat
    /\ mSize > 16 + 4 * (ROW_OFFSETS_NUM + 1)

VARIABLES block, want

blockVars == <<block, want>>

SizeOfHeader == 16
SizeOfGroup == 4 * (ROW_OFFSETS_NUM + 1)
SizeOfCell == 12

FirstGroup == SizeOfHeader

Slots == 0 .. ROW_OFFSETS_NUM - 1

\* A group as AllocRowOffset leaves it; its slots are not initialised (0 is
\* the offset of the header, where no row can be).
NewGroup == [rowOffsets |-> [i \in Slots |-> 0], nextGroupOffset |-> 0]

\* AllocRow zeroes the directory, and zero is CELL_UNIT_TYPE_NULL.
NullCell == [type |-> "null", size |-> 0, value |-> 0, offset |-> 0]

\* Create maps fresh shared memory, all zero: no row, but no row group either.
Created == [unusedOffset |-> 0, rowNums |-> 0, columnNums |-> 0, groups |-> <<>>, dirs |-> <<>>]

Clear == [unusedOffset |-> SizeOfHeader + SizeOfGroup,
          rowNums |-> 0,
          columnNums |-> 0,
          groups |-> FirstGroup :> NewGroup,
          dirs |-> <<>>]

\* A block with rows keeps its number of columns; too many are refused.
SetColumnNum(b, n) ==
    IF \/ (b.columnNums > 0 \/ b.rowNums > 0) /\ b.columnNums # n
       \/ n > COL_MAX_NUM
    THEN b
    ELSE [b EXCEPT !.columnNums = n]

\* Defect: the padding is not counted when the next free offset is set.
AllocWithoutPadding(b, size, aligned) ==
    LET offset == b.unusedOffset + IF aligned THEN (-b.unusedOffset) % 4 ELSE 0
    IN  IF offset + size > mSize
        THEN [at |-> 0, b |-> b]
        ELSE [at |-> offset, b |-> [b EXCEPT !.unusedOffset = @ + size]]

\* The offset of `size' new bytes, 0 when the block is full.
Alloc(b, size, aligned) ==
    LET offset == b.unusedOffset + IF aligned THEN (-b.unusedOffset) % 4 ELSE 0
    IN  IF offset + size > mSize
        THEN [at |-> 0, b |-> b]
        ELSE [at |-> offset, b |-> [b EXCEPT !.unusedOffset = offset + size]]

\* The group reached from the first one over k links.
GroupAfter(b, k) ==
    LET walk[i \in 0 .. k] ==
            IF i = 0 THEN FirstGroup ELSE b.groups[walk[i - 1]].nextGroupOffset
    IN  walk[k]

\* The loop of GetRowOffset runs while rowPos >= ROW_OFFSETS_NUM.
GetRowOffset(b, row) ==
    b.groups[GroupAfter(b, row \div ROW_OFFSETS_NUM)].rowOffsets[row % ROW_OFFSETS_NUM]

\* A slot for one more row in a group behind the last one.
Chain(b, last, at, group) ==
    [ok |-> TRUE, group |-> at, slot |-> 0,
     b |-> [b EXCEPT !.rowNums = @ + 1,
                     !.groups = (at :> group) @@ [@ EXCEPT ![last].nextGroupOffset = at]]]

ChainNew(b, last, mem) ==
    IF mem.at = 0 THEN [ok |-> FALSE, b |-> b, group |-> 0, slot |-> 0]
    ELSE Chain(mem.b, last, mem.at, NewGroup)

SlotBehind(b, last, pos) ==
    IF pos < ROW_OFFSETS_NUM
    THEN [ok |-> TRUE, b |-> [b EXCEPT !.rowNums = @ + 1], group |-> last, slot |-> pos]
    ELSE IF b.groups[last].nextGroupOffset = 0
    THEN ChainNew(b, last, Alloc(b, SizeOfGroup, TRUE))
    ELSE Chain(b, last, b.groups[last].nextGroupOffset,
               [b.groups[b.groups[last].nextGroupOffset] EXCEPT !.nextGroupOffset = 0])

\* The slot for one more row.  The loop runs while rowPos > ROW_OFFSETS_NUM: it
\* stops at a full last group, which then gets a successor, or, after rows were
\* freed, goes on with the successor it has.
AllocRowOffset(b) ==
    LET links == IF b.rowNums = 0 THEN 0 ELSE (b.rowNums - 1) \div ROW_OFFSETS_NUM
    IN  SlotBehind(b, GroupAfter(b, links), b.rowNums - links * ROW_OFFSETS_NUM)

\* When the directory does not fit the row is taken back, but a group chained
\* for it stays.  memset_s refuses a directory without columns; that row is not
\* taken back.
WithDirectory(place, dir) ==
    IF dir.at = 0
    THEN [ok |-> FALSE, b |-> [place.b EXCEPT !.rowNums = @ - 1]]
    ELSE IF dir.b.columnNums = 0 THEN [ok |-> FALSE, b |-> dir.b]
    ELSE [ok |-> TRUE,
          b |-> [dir.b EXCEPT
                    !.groups[place.group].rowOffsets[place.slot] = dir.at,
                    !.dirs = (dir.at :> [i \in 1 .. dir.b.columnNums |-> NullCell]) @@ @]]

RowIn(place) ==
    IF ~place.ok THEN [ok |-> FALSE, b |-> place.b]
    ELSE WithDirectory(place, Alloc(place.b, place.b.columnNums * SizeOfCell, TRUE))

\* One more row of null cells.
AllocRow(b) == RowIn(AllocRowOffset(b))

FreeLastRow(b) == [b EXCEPT !.rowNums = IF @ > 0 THEN @ - 1 ELSE @]

\* GetCellUnit returns null outside the rows and columns of the block.
HasCell(b, row, column) == row \in 0 .. b.rowNums - 1 /\ column \in 0 .. b.columnNums - 1

GetCellUnit(b, row, column) == b.dirs[GetRowOffset(b, row)][column + 1]

WriteCell(b, row, column, cell, offset) ==
    [ok |-> TRUE,
     b |-> [b EXCEPT !.dirs[GetRowOffset(b, row)][column + 1] =
                        [type |-> cell.type, size |-> cell.size, value |-> cell.value,
                         offset |-> offset]]]

\* The cell is left alone when the bytes do not fit, also when nothing is to be
\* stored at the very end of the block (OffsetToPtr fails).
PutBlobOrString(b, row, column, cell, mem) ==
    IF mem.at = 0 \/ mem.at >= mSize THEN [ok |-> FALSE, b |-> mem.b]
    ELSE WriteCell(mem.b, row, column, cell, mem.at)

\* PutNull, PutLong and PutDouble write the cell; PutBlob and PutString first
\* allocate the bytes.
Put(b, row, column, cell) ==
    IF ~HasCell(b, row, column) THEN [ok |-> FALSE, b |-> b]
    ELSE IF cell.type \in {"text", "blob"}
    THEN PutBlobOrString(b, row, column, cell, Alloc(b, cell.size, FALSE))
    ELSE WriteCell(b, row, column, cell, 0)
-----------------------------------------------------------------------------
(* A block on its own. *)

BlockInit == block = Created /\ want = <<>>

DoClear == block' = Clear /\ want' = <<>>

\* Both users clear the block before anything else.
Cleared == block # Created

DoSetColumnNum(n) ==
    /\ Cleared
    /\ block' = SetColumnNum(block, n)
    /\ UNCHANGED want

\* Rows are allocated once the number of columns is set.
DoAllocRow ==
    /\ block.columnNums > 0
    /\ block' = AllocRow(block).b
    /\ want' = IF AllocRow(block).ok
               THEN Append(want, [i \in 1 .. block.columnNums |-> NullCell])
               ELSE want

DoFreeLastRow ==
    /\ Cleared
    /\ block' = FreeLastRow(block)
    /\ want' = IF want = <<>> THEN want ELSE SubSeq(want, 1, Len(want) - 1)

\* Both users of the block write the row they allocated last (addedRows of
\* FillOneRow, GetCurrentRowIndex of the block writer); column may be too high.
DoPut(column, cell) ==
    LET row == block.rowNums - 1
        put == Put(block, row, column, cell)
    IN  /\ row >= 0
        /\ block' = put.b
        /\ want' = IF put.ok THEN [want EXCEPT ![row + 1][column + 1] = cell] ELSE want

BlockNext ==
    \/ DoClear
    \/ \E n \in 0 .. COL_MAX_NUM + 1 : DoSetColumnNum(n)
    \/ DoAllocRow
    \/ DoFreeLastRow
    \/ \E column \in 0 .. block.columnNums, cell \in BlockCells : DoPut(column, cell)
-----------------------------------------------------------------------------
Same(cell, wanted) ==
    cell.type = wanted.type /\ cell.size = wanted.size /\ cell.value = wanted.value

\* Every cell is found with what was put into it last.
RowsFound ==
    /\ block.rowNums = Len(want)
    /\ \A row \in 0 .. block.rowNums - 1, column \in 0 .. block.columnNums - 1 :
          Same(GetCellUnit(block, row, column), want[row + 1][column + 1])

\* The bytes a block of Clear's shape uses: header, chained groups, and per row
\* its directory and the bytes of its texts.
Extent(from, size) == [from |-> from, to |-> from + size]

Extents ==
    LET used == IF block.rowNums = 0 THEN 0 ELSE (block.rowNums - 1) \div ROW_OFFSETS_NUM
        dir(row) == GetRowOffset(block, row)
    IN  {Extent(0, SizeOfHeader)}
        \cup {Extent(GroupAfter(block, k), SizeOfGroup) : k \in 0 .. used}
        \cup {Extent(dir(row), SizeOfCell * block.columnNums) : row \in 0 .. block.rowNums - 1}
        \cup UNION {{Extent(block.dirs[dir(row)][c].offset, block.dirs[dir(row)][c].size) :
                        c \in {k \in 1 .. block.columnNums :
                                    block.dirs[dir(row)][k].type \in {"text", "blob"}}} :
                    row \in 0 .. block.rowNums - 1}

\* No two live parts of the block (header, groups, row directories, texts and
\* blobs) share a byte, every row has a part of its own, and all of them lie
\* below unusedOffset and within the block.
NoOverlap ==
    /\ \A e, f \in Extents : e = f \/ e.to <= f.from \/ f.to <= e.from
    /\ \A e \in Extents : e.to <= block.unusedOffset
    /\ \A r, s \in 0 .. block.rowNums - 1 :
          r # s => GetRowOffset(block, r) # GetRowOffset(block, s)
    /\ block.unusedOffset <= mSize

\* Every cell put into the block is found again and nothing overwrites it: over
\* the links between row groups, after rows were freed and put again, after a
\* row or a text that did not fit, and after Clear.
CellsKept == RowsFound /\ (Cleared => NoOverlap)
=============================================================================
