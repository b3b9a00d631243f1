SPECIFICATION Spec
CONSTANTS
  NumJobs = 2
  JobID <- PairID
  Needs <- PairNeeds
  Always = {}
  NeedApprovals = {FALSE}
  MaxTasks = 3
  Worker = {w1}
  Req = {r1}
  Budgets <- OneRerunBudgets
  Results = {"success", "failure"}
PROPERTIES ReleasedWhenNeedsDone
CHECK_DEADLOCK FALSE
