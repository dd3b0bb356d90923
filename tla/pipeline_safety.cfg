SPECIFICATION Spec
CONSTANTS
  good = good
  bad = bad
  Batches = {good, bad}
  Workers = {w1, w2}
  Rows <- MCRows
  Malformed <- MCMalformed
  BatchSize = 2
  Prefetch = 2
  NoKey = NoKey
  MaxDisruptions = 3
SYMMETRY Symmetry
INVARIANTS
  TypeOK
  RowsInOrder
  ProcessedIsComplete
  OneWriter
  JobIsDownloadable
  RefusedIsUnpublished
  UndisturbedImportSettles
PROPERTIES
  ProcessedIsFinalUndisturbed
  ImplementsLedger
CHECK_DEADLOCK FALSE
