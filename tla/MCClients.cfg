SPECIFICATION MCSpec
CONSTANTS
  mSize = 92
  ROW_OFFSETS_NUM = 2
  COL_MAX_NUM = 1
  BlockCells <- MCBlockCells
  Tables <- MCTables
  Rewrites <- MCRewrites
  FailRows = {0, 2}
  NumColumns = 1
  MaxErrors = 1
  MaxWrites = 1
  ZeroValues = {3}
  Leftovers <- MCLeftovers
  Unnamed <- MCUnnamed
  Threads = {"t1", "t2"}
  Ons = {r1, r2}
  Offs = {"o1"}
  Uris = {"u"}
  Callbacks = {f, g}
  MaxChanges = 2
SYMMETRY Symmetry
INVARIANTS
  CellsKept
  RowAtCursor
  RowCountKept
  RowAtClient
  StepAgrees
  NoStaleObserver
  RegistryAgrees
PROPERTIES
  StepCountKeepsCursor
CHECK_DEADLOCK FALSE
