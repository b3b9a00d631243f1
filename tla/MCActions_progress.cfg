SPECIFICATION FairSpec
CONSTANTS
  NumJobs = 3
  JobID <- ChainID
  Needs <- ChainNeeds
  Always = {3}
  NeedApprovals = {FALSE}
  MaxTasks = 3
  Worker = {w1, w2}
  Req = {r1}
  Budgets <- ProgressBudgets
  Results = {"success", "failure"}
INVARIANTS NeedsDone
PROPERTIES AllJobsEnd
CHECK_DEADLOCK FALSE
