SPECIFICATION FairSpec
CONSTANTS
  Worker = {w1, w2}
  Req = {r1, r2}
  Conflicts <- SomeConflicts
  Empties <- SomeEmpties
  CanPush = TRUE
  Autodetect = TRUE
  Budgets <- PullBudgets
INVARIANTS TypeOK StatusSettles PoolExclusive
PROPERTIES OutcomeFrozen MergesCheckedHead CheckingEnds
CHECK_DEADLOCK FALSE
