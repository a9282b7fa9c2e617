CONSTANTS
  Threshold = 3
  OpenFor = 6
  MaxBackoff = 4
  ConnectTimeout = 1
  DedupWindow = 2
  LastId = 2
  MaxDrops = 1
  Trials <- AllTrials
  Hosts = {"ingestion", "other"}
  Fibers = {"connectors", "stats", "api"}
  Programs <- AllPrograms
  Scenarios <- AllScenarios
  Host <- Own
SPECIFICATION IngestSpec
CHECK_DEADLOCK FALSE
INVARIANTS FeedAddsUp BreakerHolds StopLeavesNothingBehind
PROPERTIES FeedNeverHangs
