CONSTANTS
  x = x
  y = y
  Symbols = {x, y}
  Prices = {8, 10}
  Steps <- AllSteps
  DayLength = 2
  Capital = 40
  Configs <- TradingConfigs
  MaxRecords = 5
  MaxLate = 1
  Never = Never
  NoLimits = NoLimits
  Intents <- AllIntents
  Engines <- TradingEngines
  Markets <- AllMarkets
  Records <- AllRecords
  OutLatencies = {0, 1}
  CancelLatencies = {0, 1}
  MaxTime = 1
  MaxPasses = 3
  NoTime = NoTime
SPECIFICATION TradingSpec
CHECK_DEADLOCK FALSE
INVARIANTS
  DriversAgree
  BooksBalance
  ReducingIsNeverRefused
  GateSeesTrueLosses
  QuantitiesBalance
PROPERTIES
  FillsWhenLive
  FollowsLifecycle
