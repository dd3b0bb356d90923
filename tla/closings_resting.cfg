SPECIFICATION RestingSpec
CONSTANTS
  DayTicks = 2
  MonthStart <- UnevenMonths
  Ahead = 0
  Offset <- MCOffset
  Skips = {}
  Repeats = {}
  Hour = 1
  Movements <- FewMovements
  Marks <- OneBalance
  Types = {"monthly", "quarterly"}
  Instants <- BareDates
  Calls = {c1, c2}
  None = None
  MaxFailures = 1
SYMMETRY Symmetry
INVARIANTS
  RestingClosingsAreExact
  PeriodHoldsReference
  PeriodsFit
