SPECIFICATION FairSpec
CONSTANTS
  r1 = r1
  r2 = r2
  build = build
  deploy = deploy
  Runner = {r2}
  Job = {build, deploy}
  JobScope <- OneRepo
  Scopes <- CommandScopes
  Labelled <- SomeLabels
  Exclusive = {TRUE}
  Budgets <- CommandBudgets
  MaxVersion = 9
PROPERTIES WaitingJobsAreFetched
