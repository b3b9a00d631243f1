SPECIFICATION FairSpec
CONSTANTS
  Call = {c1, c2}
  MaxRows = 3
  Budgets <- LogBudgets
INVARIANTS TypeOK RowsAreKept
PROPERTIES UploadEnds
CHECK_DEADLOCK FALSE
