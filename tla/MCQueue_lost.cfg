SPECIFICATION Spec
CONSTANTS
  Item = {a, b}
  Length = 1
  BatchLength = 1
  MaxNums = {1}
  MaxPushes = 4
  Contended = FALSE
  Flushes = FALSE
  Worker = {w1}
PROPERTY UnhandledItemsKept
CHECK_DEADLOCK FALSE
