SPECIFICATION Spec
CONSTANTS
  Procs = {p1,p2}
  NoProc = NoProc
  Sources = {s1}
  Guidances = {}
  NoGuidance = NoGuidance
  MaxRuns = 3
  MaxCrashes = 0
  MaxTampers = 0
  Fragile = {"manifest.json", "prepared.json", "features.json"}
  Kinds = {"extract", "compare"}
CHECK_DEADLOCK FALSE
INVARIANTS TypeOK OneWriter LoadedIsOneRun
SYMMETRY Symmetry
