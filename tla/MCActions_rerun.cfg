SPECIFICATION Spec
CONSTANTS
  NumJobs = 2
  JobID <- PairID
  Needs <- PairNeeds
  Always = {}
  NeedApprovals = {TRUE, FALSE}
  MaxTasks = 3
  Worker = {w1}
  Req = {r1, r2}
  Budgets <- RerunBudgets
  Results = {"success", "failure"}
SYMMETRY Sym
INVARIANTS StrayTasksAreCancelled RunStatusSettles
PROPERTIES OutcomeIsFinal
CHECK_DEADLOCK FALSE
