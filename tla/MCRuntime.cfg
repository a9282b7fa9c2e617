CONSTANTS
  i1 = i1
  i2 = i2
  Inst = {i1, i2}
  Ids = {1, 2}
  Controllers = {c1}
  Calls = {"pause", "resume", "stop_instance", "stop"}
  Capacity = 1
  MaxRecords = 2
  MaxOrders = 1
  None = None
SPECIFICATION Spec
CHECK_DEADLOCK FALSE
INVARIANTS
  EveryRecordAccounted
  RunningGetsEverything
  CleanStopSettles
PROPERTIES
  AddedStays
