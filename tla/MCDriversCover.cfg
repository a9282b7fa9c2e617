CONSTANTS
  x = x
  y = y
  Symbols = {x, y}
  Prices = {8, 10}
  Steps = {0, 1}
  DayLength = 2
  Capital = 40
  Configs <- CoverConfigs
  MaxLate = 0
  MaxRecords = 4
  Never = Never
  NoLimits = NoLimits
SPECIFICATION Spec
CHECK_DEADLOCK FALSE
PROPERTIES
  ReducingShrinks
