SPECIFICATION Spec
CONSTANTS
  DayTicks = 4
  MonthStart <- UnevenMonths
  Ahead = 0
  Offset <- EastWithSummer
  Skips <- DayThree
  Repeats = {}
  Hour = 1
  Movements <- MCMovements
  Marks <- MCBalances
  Types = {"monthly"}
  Instants <- InMonth
  Calls = {c1}
  None = None
  MaxFailures = 2
INVARIANTS
  TypeOK
  StoredIsConsistent
  RetryIsNotRefused
PROPERTIES
  QuietClosingIsExact
  TotalsNeverDrop
