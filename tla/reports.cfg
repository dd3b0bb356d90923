SPECIFICATION Spec
CONSTANTS
  DayTicks = 4
  MonthStart <- MCMonthStart
  Offset <- EastWithSummer
  Skips <- DayThree
  Repeats <- DayZero
  Hour = 1
  Movements <- MCMovements
  Marks <- MCMarks
  Nows <- Asked
  Horizons = {1, 2}
  None = None
INVARIANTS
  TypeOK
  QuietProjectionIsExact
  ProjectionIsConsistent
  RunwayEndsFirst
  QuietIndicatorsAreLatest
  IndicatorsNeverGoBack
  ListsTile
