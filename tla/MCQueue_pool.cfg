SPECIFICATION FairSpec
CONSTANTS
  Item = {a, b}
  Length = 1
  BatchLength = 2
  MaxNums = {0, 2}
  MaxPushes = 3
  Contended = TRUE
  Flushes = TRUE
  Worker = {w1, w2}
INVARIANTS TypeOK WorkersCounted
PROPERTIES KeepsPromise ShutdownKeepsItems EveryItemCalled ShutdownEnds
CHECK_DEADLOCK FALSE
