CONSTANTS
  NoItem = NoItem
  p1 = p1
  p2 = p2
  c1 = c1
  Capacity = 4
  Producers = {p1, p2}
  Consumers = {c1}
  MaxPush = 1
  Setups <- TwoPushers
SPECIFICATION Spec
CHECK_DEADLOCK TRUE
INVARIANTS
  PushedItemsSurvive
