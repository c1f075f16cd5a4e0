CONSTANTS
  Threads = {t1, t2, t3}
  NoThread = NoThread
  Cost = 2
  Burst = 2
  MaxSpan = 5
  Workers = {w1, w2, w3}
  Delays = {0, 2}
  MaxRetries = 2
  MaxCalls = 2
SPECIFICATION MCSpec
INVARIANTS TypeOK GenerationTypeOK WithinBudget OneSleepIsEnough PausesAreKept AttemptsAreUsed
PROPERTIES SomebodyIsServed CallsEnd
