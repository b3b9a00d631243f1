SPECIFICATION FairSpec
CONSTANTS
  Worker = {w1}
  Req = {r1}
  Conflicts <- SomeConflicts
  Empties <- Nothing
  CanPush = FALSE
  Autodetect = TRUE
  Budgets <- AutoBudgets
PROPERTIES AutoMergeHappens
CHECK_DEADLOCK FALSE
