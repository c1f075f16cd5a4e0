SPECIFICATION Spec
CONSTANTS
  Procs = {p1}
  NoProc = NoProc
  Sources = {s1}
  Guidances = {g1}
  NoGuidance = NoGuidance
  MaxRuns = 3
  MaxCrashes = 1
  MaxTampers = 1
  Fragile = {"manifest.json", "prepared.json", "features.json"}
  Kinds = {"off", "extract", "compare"}
CHECK_DEADLOCK FALSE
INVARIANTS ManifestIsTrue ResultIsCoherent ResultIsToldOnce
PROPERTIES PublishedSpec FinishedRunsAreShown
