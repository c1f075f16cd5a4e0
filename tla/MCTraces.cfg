CONSTANTS
  MaxRecords = 5
  MaxTurns = 2
  Starts = {0, 2}
  PairGap = 2
  NoValue = NoValue
  Parts = {"codex", "structure", "atoms", "failures", "handovers", "words", "detectors", "decline", "costs", "diagnoses", "tails", "forest", "snapshots", "sessions", "notices", "claude", "pi", "legacy", "totals", "exports", "records", "guidance", "rounds"}
SPECIFICATION MCSpec
INVARIANTS TypeOK EventsArePlacedOnce BillsAndCompactionsCountOnce
PROPERTIES StructureDividesTrace RecordsMatchSession RecordsAreReadOnce DetectorsAgree MoneyIsConserved WasteHasOneCause TailsAreKept
\* A trace of the longest length is not continued.
CHECK_DEADLOCK FALSE
