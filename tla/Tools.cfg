SPECIFICATION ToolsSpec
CONSTANTS
  MaxRuns = 2
  MaxCrashes = 1
  Insertions = {"q"}
  Checks = {"sql"}
  Payloads <- MCPayloads
  NeedsBaseline = {"sql"}
  Passive <- MCPassive
  ScanWorkers = {1, 2}
  ScanEvery = 2
  Urls = {"a", "b", "c", "d", "x"}
  Seed = "a"
  Links <- MCLinks
  Allowed = {"a", "b", "c", "d"}
  MaxDepth = 2
  Budgets = {2, 5}
  Spiders = {1, 2}
  CrawlEvery = 2
  Target = 2
  Patience = 1
  MaxStored = 1
  SeqWorkers = {1, 2, 3}
  SeqEvery = 1
CHECK_DEADLOCK FALSE
INVARIANTS
  ToolsTypeOK
  NotLeftRunning
  ScanReported
  WithinLimits
  CrawlReported
  CaptureReported
PROPERTIES
  ToolsEnd
