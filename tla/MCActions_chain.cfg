SPECIFICATION Spec
CONSTANTS
  NumJobs = 3
  JobID <- ChainID
  Needs <- ChainNeeds
  Always = {3}
  NeedApprovals = {TRUE, FALSE}
  MaxTasks = 3
  Worker = {w1, w2}
  Req = {r1, r2}
  Budgets <- ChainBudgets
  Results = {"success", "failure", "cancelled", "skipped"}
SYMMETRY Sym
INVARIANTS TypeOK RunningTaskOwnsJob RunStatusIsAggregate NeedsRespected ApprovalRespected
PROPERTIES KeepsPromise
CHECK_DEADLOCK FALSE
