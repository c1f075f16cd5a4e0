CONSTANTS
  MaxRecords = 5
  MaxTurns = 2
  Starts = {0, 2}
  PairGap = 2
SPECIFICATION Spec
INVARIANTS OwnRecordsAreRead
CHECK_DEADLOCK FALSE
