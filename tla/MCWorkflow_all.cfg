SPECIFICATION Spec
CONSTANTS
  IdLists <- Workflows
  JobNames = {"a", "b", "c"}
  ReadStatus = {"blocked", "running", "success", "failure"}
INVARIANTS ResolvedConsistently RerunsEveryDependentID RerunOrder RerunLoopAgrees
CHECK_DEADLOCK FALSE
