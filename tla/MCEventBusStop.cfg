CONSTANTS
  Publishers = {p1}
  c1 = c1
  c2 = c2
  Controllers = {c1, c2}
  s1 = s1
  s2 = s2
  Subs = {s1}
  Permanent <- FirstSub
  Wants <- WantsFirst
  NumBands = 1
  BandBound = 1
  MaxPublish = 0
  MaxStarts = 1
  Budgets <- OneStartTwoCallers
  NoEvent = NoEvent
SPECIFICATION Spec
CHECK_DEADLOCK FALSE
INVARIANTS
  StopIsSafeFromAnyThread
