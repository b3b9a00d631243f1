# Gitea: concurrent state machines, modelled, checked and proved

This directory holds TLA+ models of the parts of Gitea whose correctness rests
on the order in which things happen: the engine that drives workflow runs of
Gitea Actions, the way waiting jobs reach runners and logs come back, the worker
pool queues on which most background work runs, and the life of a pull request
from push through conflict check to merge. TLC checks the models on small
instances; TLAPS proves their safety properties for every value of the constants,
some of them under named restrictions, and two refinements. `PROJECT.json` lists components,
runs, mutants, hazards, theorems and, for each definition, the lines of the
source it stands for.

## Inventory

Gitea is a Go program of handlers around a database, git repositories and a
few long-lived goroutines. Most of it is sequential code whose correctness lies
in queries, templates and git commands. The parts with concurrent state are:

| component | state | operations | hard behaviour | correct when | modelled in |
|---|---|---|---|---|---|
| Actions run engine (`models/actions`, `services/actions`) | rows of runs, jobs, tasks | insert, pick, report, stop, resolve, cancel, approve, rerun, sweep | many writers, reads before transactions, optimistic lock on the run, lost emissions | a job runs with exactly its task; needs and approvals are respected; outcomes stay; the run shows its jobs' aggregate; every job ends | `ActionsEngine`, `RunPromise`, `Workflow`, `WorkflowLoops`, `ActionStatus` |
| Runner API (`routers/api/actions/runner`, `tasks_version.go`, `modules/actions/log.go`, dbfs) | version rows, log file, archive | FetchTask, UpdateTask, UpdateLog, archiving | stale versions, lost answers, retried uploads, archiving while writing | no waiting job is missed; no acknowledged row is lost | `TaskFetch`, `TaskLog` |
| Worker pool queue (`modules/queue`) | base queue, batch buffer, channels, workers | push, pop, dispatch, start and end workers, flush, requeue, shut down | goroutines blocking on one another, timeouts, cancellation anywhere | nothing accepted disappears unhandled and unreported; workers are counted; shutdown ends | `WorkerPoolQueue`, `ReadyQueue` |
| Working pool (`modules/sync`) | mutex and count per identity | check in, check out | mutexes removed while others come and wait | one at a time per identity | `ExclusivePool` |
| Pull request checker (`services/pull`) | row, `pr_patch_checker` queue | push follow-up, test, manual merge | push or merge during a test, id queued again, restart | the status settles to what the branches are; checking ends | `PullRequest` |
| Merge and auto-merge (`services/pull/merge*.go`, `services/automerge`) | row, base branch, schedule | check, merge, push hooks, schedule | push between check and merge, merge recorded by a hook | a merged row is final; only checked heads are merged | `PullRequest` |
| In-memory base queue (`base_channel.go`) | channel and set | push, pop, has | set and channel updated separately | an item not queued can be queued | planned |
| Commit statuses of jobs (`services/actions/commit_status.go`) | status rows | create | created from stale objects | the last status is the job's | planned |
| Webhook delivery (`services/webhook`) | hook tasks | deliver, replay, populate | crash between mark and send | delivered at most once, none forgotten | planned |
| Graceful manager (`modules/graceful`) | contexts, wait groups | shutdown, hammer, terminate | order of contexts, servers that do not end | each phase follows the one before | planned |
| Resource indexes, LFS locks | counter rows, lock rows | next index, lock | concurrent transactions | unique numbers, one owner | no: the database's isolation decides |
| Mirrors, event source, process manager, triggers, git, repositories, issues, packages, users, web | rows, files, registries | requests | mostly none | - | no |

How they interact. A web request or a notifier inserts a run. Runners poll
`FetchTask`, which compares versions, picks a job and makes a task; they stream
rows to `UpdateLog` and report to `UpdateTask`, which pushes the run into
`actions_ready_job`, a worker pool queue whose handler resolves the blocked
jobs. Cron sweeps stop tasks, archive their logs and cancel jobs; Cancel,
Approve and Rerun write the same rows from web handlers; a newer run of the same
branch calls `CancelPreviousJobs`. A push moves a branch, its hook updates the
pull requests' refs and queues it; the follow-up marks their rows "checking" and
queues them for the conflict check; merge requests, the manual merge and the
auto-merge queue share with the check a pool that lets in one at a time; commit
statuses, those of Actions jobs among them, trigger auto-merge. Webhooks, mirrors,
mail and the indexers each own a worker pool queue as well; the graceful manager
cancels all of them at shutdown.

## Modules

| module | models | checked in | proved in |
|---|---|---|---|
| `ActionStatus` | `Status`, `aggregateJobStatus` | the engine | `ActionsEngine_proofs` (which statuses it returns) |
| `Workflow` | one pass of `jobStatusResolver`, `GetAllRerunJobs` as a function, both over any workflow | `MCWorkflow`, the engine | `ActionsEngine_proofs`, `_safety`, `WorkflowLoops_proofs` (both) |
| `WorkflowLoops` | the loops of `Resolve` and `GetAllRerunJobs`, iteration by iteration | `MCWorkflow` | `WorkflowLoops_proofs` |
| `RunPromise` | what a run promises to the author of its workflow: each decision holds for the jobs as they are, each job runs once | refined by `ActionsEngine` | `ActionsEngine_safety` |
| `ActionsEngine` | one run with all its writers | `MCActions` | `ActionsEngine_proofs`, `ActionsEngine_safety` |
| `TaskFetch` | versions, runners of several scopes, picking, overlapping transactions | `MCFetch` | `TaskFetch_proofs` |
| `TaskLog` | one task's log from runner to storage | `MCLog` | `TaskLog_proofs` |
| `ReadyQueue` | what a queue promises: an item stays pending until a call of the handler gets it, comes back when unhandled, or is reported lost | refined by `WorkerPoolQueue` | `WorkerPoolQueue_proofs` |
| `WorkerPoolQueue` | `modules/queue` over a unique base queue | `MCQueue` | `WorkerPoolQueue_proofs` |
| `ExclusivePool` | `modules/sync/exclusive_pool.go` | inside `PullRequest` | `ExclusivePool_proofs` |
| `PullRequest` | a pull request, its branches, checks, merges and schedule | `MCPull` | `PullRequest_proofs` |

### ActionsEngine

The state is the rows (`jobs`, `tasks`, `run`), the unique queue (`queued`,
whether the run is in it), each emitter worker and each request with what it
has read (`worker`, `req`), and how far a runner's final `UpdateTask` call is
(`report`). The run's version is represented by `fresh`, the set of requests
whose copy still has the current version: `UpdateRun` succeeds for those and
empties the set.

A transaction is one action; reads before it, and the statements of code that
uses none, are actions of their own. So `EmitterRead`, `EmitterResolve` and
`EmitterUpdate` are the three phases of `checkJobsOfRun`; `CancelRead` and
`CancelTx`, `ApproveRead` and `ApproveTx` split the web handlers at the start of
their transactions; `RerunJob` is one of the transactions of `Rerun`;
`PreviousJob`, `PreviousStop`, `PreviousReload`, `PreviousSave` and
`PreviousTask` are the statements of `CancelPreviousJobs` with the `UpdateRunJob`
and `StopTask` it calls. Transactions are serialized, as in SQLite, which
opens them with `_txlock=immediate`.

Requests, sweeps, crashes and lost pushes are bounded by `Budgets`, the task
rows by `MaxTasks`. Times are nondeterminism: any subset of the waiting and
blocked jobs may be old enough for the sweep, any running task may be a zombie.
Left out: steps and outputs of a task, commit statuses, timestamps. Reports of
intermediate states only keep a task from being a zombie.

`KeepsPromise` is the refinement: with `status` the statuses of the job rows and
`approved` the negation of `run.needApproval`, every step of the engine is one of
`RunPromise` or changes neither. `CreateTask` is `Start`; a report and a zombie sweep are
`End`; `EmitterUpdate` is `Decide`, by the needs as they are then although it has read
them earlier; `CancelTx` is `Cancel`, and `ApproveTx` is `Approve` or, when its copy is
stale, nothing. `RunPromise` knows no rerun and no sweep of abandoned jobs: a run
that suffers one does not look like this any longer.

### WorkflowLoops

`Workflow` has the resolver's pass and the rerun list as functions, which the engine
uses. `WorkflowLoops` has the loops they come from: `ResolvePass` is a round of
`Resolve`, `Take`, `Skip` and `ScanAgain` are the iterations of `GetAllRerunJobs`. A
behaviour is one call, for a workflow and statuses chosen at the start. Needs may be
circular or name jobs that are not there; of a matrix, all jobs have the same id and
needs.

### TaskFetch

The rows of `action_tasks_version` are `version`, indexed by owner and
repository with 0 for "any"; a runner is its row's scope, the version it was last
told (`known`) and where its `FetchTask` call is in the server. `FetchTask` reads
the version, `FetchFirst` makes the row of a scope that has none, `SelectJob` and
`CreateTask` are the selection and the conditional update inside
`CreateTaskForRunner`'s transaction, `Receive` is the answer. With `exclusive` a
transaction keeps all others out (SQLite); without it they overlap and re-read
the rows they update (READ COMMITTED), and two runners may select the same job.
`UpdateRunJob` stands for everything that makes a job wait and increases the
versions in the same transaction: the insertion of a run, the emitter, Approve
and Rerun.

Whether labels match is a relation (`Labelled`), the order in which jobs are tried
is free, versions saturate at `MaxVersion`. The act_runner is external: it keeps
a greater version, forgets it when it got a task, sends it with its next poll.

### TaskLog

Row k of a log starts where the first k - 1 rows end, whoever writes it, so a
file is told by the number of its rows. A call of `UpdateLog` goes through the
read of the task row, `WriteLogs` (size and last block), the write, the transfer
to the storage, the save of the row and the removal of the file, and may fail or
die between any two of these (`Fail`, `Crash`); its answer may be lost while the
server goes on (`Lose`), so that the runner's retry overlaps it. `SweepBegins`,
`SweepTransfers`, `SweepMarks` and `SweepRemoves` are the archiving of
`stopTasks`, which does the same in its own order. `overlap` records that a
writer began while another one was at work. A write is one block; the copy to the
storage is one step.

### WorkerPoolQueue

Each goroutine has its place: `popper` (`popItemByChan`), `main` (`doRun`, with
`doDispatchBatchToWorker`, `doFlush` and the deferred shutdown), `exec` for the
workers' loop and `doWorkerHandle`, which `doRun` also runs during a flush.
Channels are unbuffered, so a send and its receive are one step, and the `default`
of a non-blocking send may be taken whenever the receiver might be between two
rounds of its loop. `PushItem` of the base queue fails on an item that is queued
already and on a timeout. A timeout needs a base queue that stays full for seconds
while a popper is there to empty it: either nobody takes what the popper offers
(`HeldUp`: `doRun` waits for a worker, for the end of all workers or for the
handler it calls itself) or, with `Contended`, other producers fill the room each
time. With `Flushes` somebody may flush the queue at any time. The handler may return any part of its
batch; a panic is the empty part. The model has no `RemoveAllItems`, no shutdown
timeout of 0, and its base queue has atomic operations (levelqueue and redis
hold a mutex; the in-memory queue does not).

`KeepsPromise` is the refinement: with `pending` the items in the base queue, the
popper, the buffer, the batch being dispatched and the requeue loops, and `calls`
the running handler calls, every step of the pool is a step of `ReadyQueue`.

### PullRequest and ExclusivePool

`git` holds the head branch, the pull request's ref, the base branch and the
newest head revision that the base contains; `pr` is the row (status and
has_merged). A push is counted at each stage of its follow-up (`task`):
`HookList` and `HookRef` are `UpdatePullsRefs` in the post-receive hook, `TaskList`
and `TaskRef` are `AddTestPullRequestTask`, `Mark` and `Add` are `AddToTaskQueue`.
`Pop` to `TestSave` are `testPR` with its reads, `manuallyMerged`, the two fetches
of `TestPatch`, and `checkAndUpdateStatus` with its look at the queue before the
conditional update. `Request` to `MergeReturns` are the merge handler,
`CheckPullMergeable`, `Merge` with the temporary repository, the push with its
pre- and post-receive hooks and `HandlePullRequestMerging`, and `MergedManually`.
`CreateCommitStatus`, `StartPRCheckAndAutoMergeBySHA`, `AutoPop` and `AutoCheck`
are auto-merge, `DeleteScheduled` and `ScheduleAutoMerge` the two transactions of
scheduling. The errors of `UpdatePullsRefs`, `AddTestPullRequestTask`,
`AddToTaskQueue`, `testPR` and the post-receive hook, most of which are only logged, are
steps that spend the budget "fail": `forgotten` records that one of them made the
server forget a push, `dropped` that one dropped a test of a row in "checking". A
request of kind "forced" is a merge with ForceMerge by an admin of the repository,
for whom neither `CheckPullMergeable` nor the pre-receive hook looks at the status
checks. A crash keeps the row and the contents of the queues, loses every
handler, goroutine and popped id, and is followed by `InitializePullRequests`.

The working pool is an instance of `ExclusivePool`, which has the pool's own lock as
the atomicity of `CheckIn` and `CheckOut` and the wait for the identity's mutex as
`Enter`; mutex objects are made and dropped as in the code's map.

Limits: the pull request exists from the beginning, tested: `NewPullRequest` runs its
first test before it inserts the row, and a push that comes between the two is
outside the model; pushes to the head are fast-forwards, a success is not taken back, the
merge style is "merge", no reviews, permissions (but for the right to push to the
base branch, `CanPush`, and to force a merge), agit, closing or reopening, deleted forks or branches,
protected files.

## Runs

Budgets are defined in the MC modules, the other bounds in the configurations.

| run | question | bounds | result |
|---|---|---|---|
| `chain` | needs, approval, ownership and aggregation under faults, and all of them together as `RunPromise` | build, test, notify (always()); 3 tasks; 2 emitter workers; 2 requests; cancel, approve, crash, lost push once, two zombies | holds |
| `rerun` | is a task ever left running that its job does not point to, or an outcome changed by somebody late; what is left behind by who cancels without a condition; does the run's status settle | 2 jobs, 3 tasks, approval needed or not; four budgets: 2 concurrent reruns of any target and a zombie; a rerun, an Approve and a Cancel; a sweep of abandoned jobs, an Approve, a Cancel and a zombie; CancelPreviousJobs, a Cancel and a zombie | holds |
| `progress` | does every job end, and none start early, sweeps included | 3 jobs; one behaviour without faults, one with two zombies, a crash, a lost push and up to four sweeps | holds |
| `workflow` | resolver and rerun list against their definitions; the rerun loop against the function the engine uses | every workflow over five lists of 3 or 4 jobs with and without matrix, circular needs and unknown names included, every status that may be read | holds |
| `queue_pool` | the pool against `ReadyQueue`, its counters and its liveness | 2 items, 3 pushes, base queue of length 1, other producers and flushes at any time, batches of 2, maximum switching between 0 and 2, 2 workers | holds |
| `pull` | does the status settle, is a merged row final, is only a checked head merged, does checking end | 2 workers, 2 requests, up to 3 heads; whoever merges may push to the base branch, manual merges are detected; seven budgets that pair pushes, merges by request, forced, by hand and outside, schedules, statuses, an error and a crash | holds |
| `fetch` | does a runner of one level that is told "current" miss a job; is a job given twice; is every job fetched | 2 runners with two assignments of instance, owner and repository scope, 2 jobs in two repositories; transactions exclusive and overlapping; 3 waits and a lost answer, or 2 waits, a cancel and a restart; versions to 9 | holds |
| `log` | is an acknowledged row ever lost; does the upload end | 2 calls, 3 rows; two lost answers; two failures and a crash; a lost answer and a sweep; a failure and two sweeps | holds |
| `release`, `queue_lost`, `pull_auto`, `fetch_command` | statements of comments and documentation | 2 jobs and a rerun; 1 worker, 4 pushes, no other producer and no flush; 1 worker and 1 request, which may not push to the base branch; 1 runner | violated |

Why these bounds are enough for the cases to happen. A hazard of the engine needs
a job and one it depends on, two readers whose copies differ, and one writer
between read and write; the chain of three adds a job that depends on a decision
of the emitter itself, and always(). A third task row lets a job be picked again
after a rerun. In the queue, length 1 makes it full at the first push, batches of 2
make both a full and a partial batch, and the maximum of 0 makes the special case
of the last worker. Three pushes fill the base queue behind a batch and its worker;
`queue_lost` needs a fourth, since an item must sit with the worker, with `doRun`,
with the popper and in the base queue at the same time. A pull request needs two workers so that an id is queued again
and popped during its test, two requests so that two merges race, and a third
revision so that a test can be overtaken twice; the pairs in `SomeConflicts` and
`SomeEmpties` give every pair of tests a different verdict. `CanPush` is TRUE in `pull`, so that
nothing but `CheckPullMergeable` and the expected head protects the branch there;
`pull_auto` has FALSE, and the proofs are for both. In `TaskFetch` two
runners of overlapping scopes race for one job while one of them cannot run the
other job; no behaviour increases a row more than five times, so 9 is never
reached. In `TaskLog` a second call exists only as a retry of a lost one, and three
rows let a retry hold an old row, a half-acknowledged one and a new one.

`CHECK_DEADLOCK FALSE` stands where behaviours end: everything is done, or the
budget is spent.

What the violations show:

- `release`: `checkJobsOfRun` reads before its transaction, so a job is released
  although a rerun has reset the job it needs.
- `queue_lost`: `doRun` holds a batch and waits for the only worker to take it, so
  it does not take the item that the popper offers, and the popper does not pop the
  one that fills the base queue; that worker requeues its unhandled item, both
  pushes time out and the item is lost although the queue runs. Nobody else is
  needed: the run has neither other producers nor flushes.
- `pull_auto`: a check that succeeds while the pull request is in "checking" is
  dropped (`automerge.go:93`), and nothing looks at it again when the conflict
  check ends: the scheduled merge never happens.
- `fetch_command`: a token made by `generate-runner-token` for `{owner}/{repo}`
  (`routers/private/actions.go:90`) gives the runner both ids, and nothing ever
  increases the version row of that pair: once a poll has found no job and told
  the runner version 1, every later one is answered "current". Until then, and
  after a restart, which makes it forget the version, it is given jobs.

Observed as well; the models contain this behaviour, and the properties name the
exception where it concerns them:

- `CancelAbandonedJobs` updates a job without condition (`clear_tasks.go:91`); one
  that a runner has just picked is cancelled while its task runs, and the result of
  that task, when it comes, makes the cancelled job a succeeded or failed one.
- `Approve` sets the jobs of its copy to waiting (`view.go:463`); one that
  `CancelPreviousJobs` has just cancelled, without having saved the run yet, comes back.
- `Rerun` uses a transaction per job and emits nothing (`view.go:349`); a fast
  runner finishes the first job before the second is set to blocked, and
  nobody releases that one until the sweep of abandoned jobs.
- `stopTasks` emits nothing (`clear_tasks.go:44`), so an always() job that depends
  on a zombie waits until the sweep cancels it.
- `GetAllRerunJobs` takes one job per JobID (`rerun.go:20`) and misses the rest of
  a matrix; `RerunsEveryDependentID` is therefore about ids.
- Two concurrent `CancelPreviousJobs`, or one and an `Approve`, a `Rerun` or a crash,
  leave a run whose status is not its jobs': `Approve` with nothing to start and the
  first save of `Rerun` take the version from it and save no status. `Cancel`
  turns a job that was skipped meanwhile into a cancelled one, the exception stated
  in `OutcomeIsFinal`.
- `Rerun` does not ask whether the run has been approved (`view.go:270`): a job that was
  cancelled before the approval waits, and runs, after a rerun.
- A sweep of abandoned jobs and a rerun, or a `CancelPreviousJobs` and a rerun, can give
  a job two running tasks: the first cancels the job and leaves its task, the second
  makes it wait again.
- An error that `testPR` only logs, when it reads the row (`check.go:343`) or saves it
  (`check.go:186`), or an id that the checker queue refuses, leaves the row in
  "checking" until the next push or restart; `StatusSettles` and `CheckingEnds` name
  this exception, `dropped`.
- An admin of the repository who forces a merge (`check.go:121`) merges with outstanding
  or failed checks, also when the request names a head; `MergesCheckedHead` is about
  requests that are not forced.
- A post-receive hook that fails to queue the push of a merge
  (`hook_post_receive.go:146`) ends before it marks the pull request merged: the
  base branch contains the head, and the row becomes merged only if a later test
  finds it manually merged.
- A merge that names no expected head, as auto-merge does, by somebody who may
  push to the base branch, merges what is pushed between check and fetch;
  `MergesCheckedHead` is about requests that name a head.
- `Merge` does not read the row again inside the pool: a second request that was
  found mergeable before the first one merged is stopped only by having nothing
  to merge, and merges a head pushed in between.
- "empty" is taken back only by a conflict or a merge (`patch.go:105`, `332`).
- An `UpdateLog` that overlaps another one, or the archiving of `stopTasks`
  (`clear_tasks.go:57`), can lose acknowledged rows; `RowsAreKept` excludes it
  by `overlap`.
- With overlapping transactions the loser of a race for one job does not try
  another and is told the current version although a job waits that it could run;
  the next change of a version mends it. `CurrentRunnerMissesNothing` is about
  exclusive ones.
- The comment at `workergroup.go:123` says that `basePushForShutdown` does nothing
  while the queue is not shutting down; the timeout has a default of two seconds
  (`workerqueue.go:233`), so it pushes then, too.

## Fairness

`ActionsEngine!FairSpec`: emitter workers and requests on their way go on (weak
fairness: goroutines are scheduled); some runner keeps polling for each waiting
job; a running task ends, by its report or by the zombie or endless sweep,
which cron repeats; the sweep of abandoned jobs is repeated. Requests, crashes
and lost pushes are never forced.

`WorkerPoolQueue!FairSpec`: weak fairness of the popper, of `doRun` and of the
workers, whose handlers return; strong fairness of receiving an item or
returning, because a Go `select` with several ready cases chooses at random and
flush requests cannot shut the other cases out for ever. Nobody has to flush, push,
cancel or set the maximum: a flush is for tests only (`workergroup.go:194`), and a batch that
waits for a worker must find one without it.

`PullRequest!FairSpec`: the follow-up of pushes, each worker, each request on its
way, the announcement of a status and the start-up task go on, as goroutines
and queues do. Nobody has to push, to merge, to schedule or to report a status.

`TaskFetch!FairSpec`: each runner polls, is served, and reports its task; the
zombie sweep runs. `TaskLog!FairSpec`: a runner closes its log in the end and
retries what was not acknowledged, calls are served, a sweep that began goes on.
Failures, losses, restarts and crashes are bounded by budgets and never forced.

## Proofs

All theorems hold for every value of the constants that satisfies the named
assumptions of the module: any workflow, any number of runners, workers, requests,
jobs, rows, and any budgets unless stated.

**Engine, types** (`ActionsEngine_proofs`): `Spec => []TypeOK`. The type invariant
is not inductive by itself: an emitter worker writes the statuses it has computed
(`UpdatesDecided`: each is waiting or skipped), and `PreviousSave` writes the
aggregate it has kept (`SavesStatus`); their conjunction with `TypeOK` is
`TypeInv`.

**Engine, status of the run** (`ActionsEngine_proofs`): `RunStatusIsAggregate` whenever
no `CancelPreviousJobs` occurs, with reruns and both sweeps. `RunStatusSettles` with one,
under `Undisturbed`: no `Approve`, rerun or crash in the same behaviour. The
inductive invariant `SettleInv` says that the status is the aggregate or that
`CancelPreviousJobs` has still to reload or to save it with a current version
(`Settling`), and that what it is about to save under a current version is the aggregate of
the jobs as they are (`SavesAggregate`): every other writer of a job saves the run in the
same transaction, which makes that version stale and the status right. One that bumps the
version and saves no status would break this, and so `Approve` and `Rerun` are out.

**Engine, ownership** (`ActionsEngine_safety`): `RunningTaskOwnsJob` under `Quiet`, which
excludes the operations that write a job without looking (`CancelAbandonedJobs`) or
without a transaction (`CancelPreviousJobs`). The inductive invariant `SafetyInv` adds that
a task row names a job (`TasksBegun`) and that an Approve whose version is current has
read the current jobs (`SnapIsFresh`), which holds because every change of a job saves
the run and ends all copies of its version. Each action then either leaves the
rows, starts a job with a new task, ends a job with the task it owns, or changes only
jobs that own no running task.

**Engine, approval** (`ActionsEngine_safety`): `ApprovalRespected` when a behaviour has no
reruns, the sweeps and `CancelPreviousJobs` included, or reruns and nothing that cancels.
Without reruns `Untouched` says that nothing but cancellations has happened while the
run needs approval: no task, no emission, no worker, no copy of a job with a task. With
them `AllBlocked` says that all jobs are still blocked then, and a rerun, which
resets only jobs that are done, finds none.

**Engine, outcomes** (`ActionsEngine_safety`): `OutcomeIsFinal` and `NeedsRespected`. `Moves`
says what may happen to a job in a step of a `Quiet` behaviour: picked, ended with its
running task, resolved by an emitter, dropped by Cancel, approved, and, unless there are no
reruns, reset. `TaskLess` (a job without a task has not run) makes the outcomes of jobs
without a task `skipped` or `cancelled`, so none of these but a reset touches an outcome, and
Cancel only a skipped one. The emitter decides on a reading that
may be stale; `ViewsHold` says that what it saw done is done (outcomes stay, as long as
there are no reruns: `Once`) and that it
releases or skips only on what it saw done or skips in the same transaction, so
that `Ready` (whoever waits or has a task had the go-ahead of its needs, and has it
still) survives its update. `release` shows why `NeedsRespected` needs `Once`.

**Engine, sweeps** (`ActionsEngine_safety`): without reruns, but with any number of
`CancelAbandonedJobs` and `CancelPreviousJobs` next to everything else, what remains of
ownership, needs and outcomes are `StrayTasksAreCancelled`, `NeedsDone` and `OutcomeIsFinal`
(the last one without Approve next to `CancelPreviousJobs`). Their invariant is `LateInv`. A
job that was given a task keeps it, and no copy names another (`Given`, `Held`), so
whoever stops a task by an old copy stops the right one; `CancelPreviousJobs` ends a
job before the task (`StoppedFirst`); a running task has a running or a cancelled job and
a running job a running task (`Stray`). Approve may now bring back a job, but only one
that needs nothing (`ApproveReads`, `StartsAtOnce`), and no other step makes a job that is done
anything but done. So what an emitter saw done is done, whatever it has become meanwhile
(`ViewsDone`), and whoever waits or has a task has its needs done (`ReadyDone`). That they
succeeded is not kept: a late result or a cancellation may change a job after
another one has relied on it.

**Engine, refinement** (`ActionsEngine_safety`): `EngineKeepsPromise`, under the same two
restrictions. `PromiseInv` adds `StartsAtOnce` to the invariants above: in an approved run
a job without needs is never blocked, so that an emitter has nothing to say about it. An
update of an emitter is a `Decide` because its verdict, reached on an old reading, is
the verdict of the statuses after the step (`VerdictStays`); a job that only Cancel has
changed from skipped to cancelled meanwhile counts the same for those who need it.

The restrictions are not there for convenience; on two or three jobs TLC finds each of them
needed. With one sweep of abandoned jobs, or one `CancelPreviousJobs`, it violates
`RunningTaskOwnsJob`, `NeedsRespected` and `KeepsPromise`; with one rerun, the last two and
`NeedsDone`; with a rerun and a cancellation, `ApprovalRespected`; with a rerun and one of
the sweep of abandoned jobs and `CancelPreviousJobs`, `StrayTasksAreCancelled`
and `OutcomeIsFinal`; with a `CancelPreviousJobs` and an `Approve`, `OutcomeIsFinal`; with one
`CancelPreviousJobs` and another, a crash, an `Approve` or a rerun, `RunStatusSettles`. What is
behind each is told above.

**Workflows** (`WorkflowLoops_proofs`): for every workflow of any size,
`ResolvedConsistently`, `RerunsEveryDependentID`, `RerunOrder` and `RerunLoopAgrees`. The
code bounds the passes of `Resolve` by the number of jobs; `ResolveInv` says that each pass decides
a job at least (the blocked jobs and the passes made are together no more than the jobs)
and that what was decided is the verdict of the needs as they are now. For the
scan, `RerunInv` says that everything collected depends on the requested job and that,
while a pass has found nothing, the jobs behind it whose needs are collected are
collected themselves; a pass that ends so has collected a closed set. The function
that the engine uses for `GetAllRerunJobs` is defined by recursion over the passes and,
inside a pass, over the jobs. That it is defined at all, and what it is from one
argument to the next (`ScanUnfolds`, `PassesUnfold`), follows by induction over sets of
naturals (`NatInd`, from their being well-founded). `LoopInv` says that the loop is
in some pass p of the function and has collected what the function has there up to the
job it looks at. As each pass before the last found a job and none is found twice, p stays
below the number of jobs; when a pass finds nothing, all further ones of the function
find nothing (`Settled`).

**Versions** (`TaskFetch_proofs`): types; `OneRunnerPerJob` from `Owned`: whoever
was given a job, told or not yet, is the runner its row names, which the
conditional update guarantees also for overlapping transactions;
`CurrentRunnerMissesNothing`, which is stated for scopes with one id at most
(`OneSided`; for both ids it is false, see `fetch_command`), from `Told` and `Alone`: such
a runner never knows more than its row, one that knows the row's version or is
about to be told it without a job has no candidate, and an exclusive transaction
is alone between selection and update. Each new candidate moves the row
(`RowsCover`).

**Logs** (`TaskLog_proofs`): types; `RowsAreKept` from `KeptInv`: without overlap a
writer is alone, the row is still what it has read (`KnowsRow`) and the file what it
has opened (`KnowsFile`), an archive is complete before the row says so and the row
says so before the file is removed (`Archives`), an answer says no more than the
row (`Answers`). A failure or crash at any point leaves these, because the row is
saved between the copy and the removal.

**Queue** (`WorkerPoolQueue_proofs`): types with the capacity of the base queue,
`WorkersCounted`, `ShutdownKeepsItems`, and `PoolKeepsPromise`, the refinement of
`ReadyQueue`. The inductive invariant says where items may be: the popper has one only
while it offers it (`PopperHolds`), an executor only while it handles or requeues
(`HandsHold`), doRun holds a batch only where it dispatches one and then has an
empty buffer (`HeldWhere`), it calls the handler in a flush only (`DoRunHandles`), and a
shutdown that has come to pushing back has no popper (`ShutdownWhere`). Without these a
step that overwrites the batch or the buffer could overwrite items. Workers are
stopped by a flush or the end of the queue only (`WorkersStopWhere`), so that no batch
of a running queue waits for a worker that has been stopped. `ShutdownKeepsItems` has two
parts. A step of a shutdown keeps each pending item pending, calls the handler for it or
reports it lost, which `basePushForShutdown` does with what a full base queue does not
take in time; and a shutdown that ends in time has nothing pending outside the base queue
and no worker alive. Every step then either
moves items inside `Pending`, or is a push, a call, a return or a reported loss. The
proof assumes what `WorkerAssumption` says: enough goroutines for the largest maximum.

**Pool** (`ExclusivePool_proofs`): `Spec => []Exclusive`. Clients that wait or are
inside have the mutex of the map, identities have different ones, and `count` is
the number of visitors, so the mutex leaves the map with the last of them only.
The cardinality facts come from `FiniteSetTheorems`.

**Pull requests** (`PullRequest_proofs`): types; with `Places`
(between CheckIn and CheckOut a worker or request is inside, and a tester in the
pool has seen an unmerged row) `PoolExclusive`, lifted from the pool's lemmas,
and `OutcomeFrozen`: `SetMerged` and the conditional updates look at has_merged, the
unconditional error status is written inside the pool, where no merge can have
come since the row was read. `MergesCheckedHead` from `CheckedHead`: the branch only
grows, so a head that is still the expected one at the fetch is the one whose
checks were looked at; forced merges are exempt, in the statement as in the code.
`StatusSettles` from `SettleInv`: unless an error has made the server forget a push or
drop a test, whenever the row is not the
verdict on the branches as they are, a push is on its way, the id is queued, a
start-up scan will find it or a worker will see what the branches are now; and a
worker with a stale result has such a successor, because the look at the queue
and the save are not atomic but the mark comes before the queueing.

Only model-checked: liveness (`AllJobsEnd`, `EveryItemCalled`, `ShutdownEnds`,
`CheckingEnds`, `WaitingJobsAreFetched`, `UploadEnds`) and `ENABLED`, which the provers do not
reach. Every invariant and action property of the passing runs, and both refinements, are
theorems, some under the restrictions named above; `NeedsRespected` and `RunStatusSettles`
are model-checked with no more operations than they are proved for.

## Not modelled, and the plan

To prove next: what is left of `NeedsRespected` and `ApprovalRespected` with reruns, for jobs
that no rerun has in its list.

To model next: the in-memory base queue (push and pop against set and channel), commit
statuses on top of the engine, webhook delivery, the graceful manager composed
with the queue's shutdown.

Not for good: rendering, parsing, git commands, database queries without
concurrent writers, migrations, generated and vendored code. These are most of
the code: request handlers for repositories, issues, packages and users read
input, run queries in one transaction and render; their correctness lies in data
and queries, not in interleavings, and a state machine of them would only repeat
their text. Resource indexes and LFS locks rest on the isolation of a single
transaction or statement. The event source is best effort by design, the process
manager a map behind one mutex, mirrors run git commands on the queue that is
modelled.
