CONSTANTS
  Publishers = {p1}
  c1 = c1
  c2 = c2
  Controllers = {c1, c2}
  s1 = s1
  s2 = s2
  Subs = {s1, s2}
  Permanent <- FirstSub
  Wants <- WantsAll
  NumBands = 2
  BandBound = 2
  MaxPublish = 3
  MaxStarts = 2
  Budgets <- BusyRestartedOrCrossed
  NoEvent = NoEvent
SPECIFICATION FairSpec
CHECK_DEADLOCK FALSE
INVARIANTS
  EveryEventAccounted
  PermanentMissNothing
  OvertakenAtMostOnce
  StopLeavesNoDispatcher
PROPERTIES
  NothingEarlyIsLost
  PublishedIsDispatched
