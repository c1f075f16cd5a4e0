CONSTANTS
  Threads = {t1, t2}
  NoThread = NoThread
  k1 = k1
  k2 = k2
  r1 = r1
  Keys = {k1, k2, r1}
  NoKey = NoKey
  FirstKeys = {k1, k2}
  SystemOneKeys = {k2}
  Repair <- MCRepair
  Size = 3
  MaxBatches = 2
SPECIFICATION Spec
INVARIANTS TypeOK AskedOnce BatchKeepsItemOrder NothingRunsAfterShutdown
PROPERTIES SavedAnswersAreKept BatchEnds
\* After the last batch nothing is left to do.
CHECK_DEADLOCK FALSE
