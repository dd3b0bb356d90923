SPECIFICATION FairSpec
CONSTANTS
  good = good
  bad = bad
  Batches = {good, bad}
  Workers = {w1, w2}
  Rows <- MCRows
  Malformed <- MCMalformed
  BatchSize = 2
  Prefetch = 1
  NoKey = NoKey
  MaxDisruptions = 2
PROPERTIES
  JobsDrain
  UndisturbedImportEnds
CHECK_DEADLOCK FALSE
