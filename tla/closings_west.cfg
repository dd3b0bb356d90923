SPECIFICATION Spec
CONSTANTS
  DayTicks = 2
  MonthStart <- MCMonthStart
  Ahead <- West
  Offset <- MCOffset
  Skips = {}
  Repeats = {}
  Hour = 1
  Movements <- Nothing
  Marks <- Nothing
  Types = {"monthly"}
  Instants <- TwoQuarters
  Calls = {c1}
  None = None
  MaxFailures = 0
INVARIANT PeriodHoldsReference
