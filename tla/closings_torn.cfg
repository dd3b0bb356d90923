SPECIFICATION Spec
CONSTANTS
  DayTicks = 2
  MonthStart <- MCMonthStart
  Ahead = 0
  Offset <- MCOffset
  Skips = {}
  Repeats = {}
  Hour = 1
  Movements <- FewMovements
  Marks <- Nothing
  Types = {"monthly"}
  Instants <- Noon
  Calls = {c1, c2}
  None = None
  MaxFailures = 0
INVARIANT StoredIsConsistent
