CONSTANTS
  Publishers = {p, q}
  MaxPublications = 3
  MaxFaults = 2
  MaxKills = 1
  None = None
  Parts = {"site","labels","batch","asking","drafts"}
  Commands = {c, d}
  Objects <- MCObjects
  Bank <- MCBank
  Paths <- MCPaths
  Hands = {1, 2}
  Splits = {"dev", "held"}
  Answers = {"yes", "no"}
  Sures = {"yes"}
  MaxCommands = 3
  MaxLabelKills = 2
  Workers = {v, w}
  MaxAsked = 2
  MaxDeaths = 1
  NoOutcome = NoOutcome
  Threads = {v, w}
  Items <- MCItems
  Live = TRUE
  MaxQuestions = 0
  MaxBytes = 3
  ServerMax = 1
  MaxRetries = 1
  MaxFailures = 2
  NoAnswers = NoAnswers
  Units <- MCUnits
  Jobs = {0, 1, 2}
  Cpus = 2
  Since = 2
  Until = 2
  Families = {"a"}
  Drafts <- MCDrafts
  Proposals <- MCProposals
  Ids = {"a", "b", "c", "d", "e", "g"}
  Size <- MCSize
  Compact <- MCCompact
  Batched = 2
  Room = 6
  PartialRoom = 5
  MaxLevels = 3
SPECIFICATION MCSpec
SYMMETRY Symmetry
INVARIANTS TypeOK SiteIsReplacedSafely CollisionLeavesEvidence StoreIsTrustworthy EveryUnitHasItsOutcome QuestionsAreAccounted ConsolidationEnds
PROPERTIES ForeignIsKept
CHECK_DEADLOCK FALSE
