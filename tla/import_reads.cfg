SPECIFICATION Spec
CONSTANTS
  long = long
  empty = empty
  broken = broken
  Batches = {long, empty, broken}
  Rows <- MCRows
  Malformed = {broken}
  PageSize = 2
  SampleSize = 2
  None = None
INVARIANTS
  TypeOK
  RowPagesJoin
  TotalCoversPages
  NoImportMissed
  AnswerIsConsistent
