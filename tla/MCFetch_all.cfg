SPECIFICATION FairSpec
CONSTANTS
  r1 = r1
  r2 = r2
  build = build
  deploy = deploy
  Runner = {r1, r2}
  Job = {build, deploy}
  JobScope <- TwoRepos
  Scopes <- PageScopes
  Labelled <- SomeLabels
  Exclusive = {TRUE, FALSE}
  Budgets <- FetchBudgets
  MaxVersion = 9
INVARIANTS TypeOK CurrentRunnerMissesNothing OneRunnerPerJob
PROPERTIES WaitingJobsAreFetched
