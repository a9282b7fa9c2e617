CONSTANTS
  i1 = i1
  i2 = i2
  Inst = {i1}
  Ids = {1}
  Controllers = {c1}
  Calls = {"stop_instance"}
  Capacity = 1
  MaxRecords = 2
  MaxOrders = 1
  None = None
SPECIFICATION Spec
CHECK_DEADLOCK FALSE
INVARIANTS
  StoppedHasNoOrders
