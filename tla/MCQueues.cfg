CONSTANTS
  x = x
  y = y
  p1 = p1
  p2 = p2
  c1 = c1
  c2 = c2
  Capacity = 4
  NoItem = NoItem
  Never = Never
  Items <- AllTicks
  Intervals <- OneTwo
  RingSize = 1
  MinPublish = 2
  MaxStale = 2
  Setups <- AllSetups
  Producers <- Pushers
  Consumers <- Pollers
  MaxPush = 9
  RingSetups <- Users
SPECIFICATION QueuesSpec
CHECK_DEADLOCK FALSE
INVARIANTS TicksAccounted BarsCoverTicks RingCountsPending
PROPERTIES ImplementsBoundedQueue TicksAreTaken RingIsQueue
