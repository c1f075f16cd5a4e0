SPECIFICATION Spec
CONSTANTS
  Procs = {p1}
  NoProc = NoProc
  Sources = {s1}
  Guidances = {g1}
  NoGuidance = NoGuidance
  MaxRuns = 3
  MaxCrashes = 0
  MaxTampers = 0
  Fragile = {}
  Kinds = {"off","extract"}
CHECK_DEADLOCK FALSE
PROPERTIES UnchangedStagesAreReused
