CONSTANTS
  MaxDay = 2
  MaxRecords = 5
  MaxFaults = 2
  Garbled = Garbled
  k1 = k1
  p1 = p1
  Kids = {k1}
  Peers = {p1}
  Reload = 2
  Window = 2
  MaxFailures = 2
  Lease = 3
  Ttl = 2
  Capacity = 2
  Budgets <- AllBudgets
SPECIFICATION Spec
CHECK_DEADLOCK FALSE
INVARIANTS
  RevocationBites
  TicketsAreGoodOnce
  RefusalsBounded
  CommandsAreOnRecord
  NothingVanishes
