CONSTANTS
  MaxRecords = 5
  MaxTurns = 2
  Starts = {0}
  PairGap = 2
  NoValue = NoValue
  Parts = {"diagnoses"}
SPECIFICATION MCSpec
PROPERTY BurdenOwnsItsTurn
CHECK_DEADLOCK FALSE
