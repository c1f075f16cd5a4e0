CONSTANTS
  MaxRecords = 5
  MaxTurns = 2
  Starts = {0}
  PairGap = 2
  NoValue = NoValue
  Parts = {"windows"}
SPECIFICATION MCSpec
PROPERTY DetectorWindowsExcludeMeta
CHECK_DEADLOCK FALSE
