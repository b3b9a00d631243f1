---------------------------- MODULE ActionsEngine ----------------------------
(***************************************************************************)
(* One workflow run of Gitea Actions from its insertion on: the rows of    *)
(* its jobs and tasks, and everything that writes them concurrently -      *)
(* runners fetching and reporting tasks, the workers of the job-emitter    *)
(* queue, the web handlers Cancel, Approve and Rerun, the cron sweeps, and *)
(* CancelPreviousJobs on behalf of a newer run.                            *)
(*                                                                         *)
(* A database transaction is one step (SQLite opens them with              *)
(* _txlock=immediate); reads before a transaction, and the statements of   *)
(* code that runs without one, are steps of their own.                     *)
(***************************************************************************)
EXTENDS Workflow

CONSTANTS
  NumJobs,       \* jobs of the run, numbered as their database ids order them
  JobID,         \* [Job -> name]: the id in the workflow, shared by a matrix
  Needs,         \* [Job -> SUBSET names]
  Always,        \* the jobs whose "if" is always()
  NeedApprovals, \* the values InsertRun may find in run.NeedApproval
  Results,       \* the results runners report, of the final statuses
  MaxTasks,      \* bound on the task rows
  Worker,        \* workers of the actions_ready_job queue
  Req,           \* goroutines serving web requests, cron jobs, notifications
  Budgets        \* functions [Op -> Nat]: how often each of these happens at most

Job == 1 .. NumJobs
TaskId == 1 .. MaxTasks
Op == {"cancel", "approve", "rerun", "abandon", "previous", "zombie", "crash", "pushfail"}

ASSUME SizesAssumption == NumJobs \in Nat \ {0} /\ MaxTasks \in Nat
ASSUME WorkflowAssumption ==
  /\ DOMAIN JobID = Job /\ DOMAIN Needs = Job
  /\ Always \subseteq Job
  /\ Results \subseteq Final
  /\ NeedApprovals \subseteq BOOLEAN /\ NeedApprovals # {}
ASSUME BudgetAssumption == Budgets \subseteq [Op -> Nat]

VARIABLES
  jobs,    \* action_run_job: [Job -> [status, task]], task 0 for none
  tasks,   \* action_task: [TaskId -> [job, status]]
  run,     \* action_run: [status, needApproval]
  fresh,   \* the requests whose copy of the run row has its current version
  queued,  \* the run is in the unique queue actions_ready_job
  worker,  \* a queue worker inside jobEmitterQueueHandler
  req,     \* a request handler, with what it read from the database
  report,  \* where the final UpdateTask call of a task's runner is
  left     \* what is left of the budget of this behavior

vars == <<jobs, tasks, run, fresh, queued, worker, req, report, left>>

StatusOf(js) == [j \in Job |-> js[j].status]

(* Spend one of the bounded events.                                        *)
Spend(op) == left[op] > 0 /\ left' = [left EXCEPT ![op] = @ - 1]

-----------------------------------------------------------------------------
(* InsertRun: the run row is inserted as "waiting" whatever its jobs are.  *)
MutantInitialJob(j, approval) ==  \* forgets run.NeedApproval
  [status |-> IF Needs[j] # {} THEN "blocked" ELSE "waiting", task |-> 0]
InitialJob(j, approval) ==
  [status |-> IF Needs[j] # {} \/ approval THEN "blocked" ELSE "waiting", task |-> 0]
InsertedJobs(approval) == [j \in Job |-> InitialJob(j, approval)]

NoTask == [job |-> 0, status |-> Unknown]
IdleWorker == [pc |-> "idle", view |-> [j \in Job |-> Unknown], updates |-> {}]
IdleReq == [op |-> "idle", pc |-> "idle", snap |-> [j \in Job |-> [status |-> Unknown, task |-> 0]],
            todo |-> {}, cur |-> 0, run |-> Unknown]

Init ==
  \E approval \in NeedApprovals :
    /\ jobs = InsertedJobs(approval)
    /\ run = [status |-> "waiting", needApproval |-> approval]
    /\ tasks = [t \in TaskId |-> NoTask]
    /\ fresh = {} /\ queued = FALSE
    /\ worker = [w \in Worker |-> IdleWorker]
    /\ req = [r \in Req |-> IdleReq]
    /\ report = [t \in TaskId |-> "none"]
    /\ left \in Budgets

(* UpdateRunJob inside a transaction that leaves the jobs as js: the run   *)
(* is reloaded and its aggregated status saved by UpdateRun, which bumps   *)
(* its version, so that every copy read earlier is out of date.            *)
MutantUpdateRunJobs(js) ==  \* aggregates before the job's row is written
  /\ jobs' = js
  /\ run' = [run EXCEPT !.status = AggregateJobStatus(StatusOf(jobs))]
  /\ fresh' = {}
UpdateRunJobs(js) ==
  /\ jobs' = js
  /\ run' = [run EXCEPT !.status = AggregateJobStatus(StatusOf(js))]
  /\ fresh' = {}

(* UpdateRun succeeds on the version that the handler has read.            *)
MutantVersionMatches(r) == TRUE  \* drops the optimistic lock
VersionMatches(r) == r \in fresh

-----------------------------------------------------------------------------
(*                                Runners                                  *)

(* CreateTaskForRunner: a waiting job without a task gets a new task and   *)
(* both run.  Which job depends on labels and on the order of the updates. *)
CreateTask(j, t) ==
  /\ jobs[j].status = "waiting" /\ jobs[j].task = 0
  /\ tasks[t] = NoTask /\ \A u \in TaskId : u < t => tasks[u] # NoTask
  /\ tasks' = [tasks EXCEPT ![t] = [job |-> j, status |-> "running"]]
  /\ UpdateRunJobs([jobs EXCEPT ![j] = [status |-> "running", task |-> t]])
  /\ UNCHANGED <<queued, worker, req, report, left>>

(* UpdateTaskByState with a final result, the transaction of the UpdateTask*)
(* call: nothing happens to a task that is done already; the job row is    *)
(* written with no condition.                                              *)
ReportResult(t, result) ==
  /\ tasks[t] # NoTask /\ report[t] = "none"
  /\ report' = [report EXCEPT ![t] = "emit"]
  /\ IF IsDone(tasks[t].status)
       THEN UNCHANGED <<jobs, tasks, run, fresh>>
       ELSE /\ tasks' = [tasks EXCEPT ![t].status = result]
            /\ UpdateRunJobs([jobs EXCEPT ![tasks[t].job].status = result])
  /\ UNCHANGED <<queued, worker, req, left>>

(* The rest of the UpdateTask call: EmitJobsIfReady, whose push into the   *)
(* unique queue is a no-op for a run that is queued.                       *)
EmitJobsIfReady(t) ==
  /\ report[t] = "emit"
  /\ report' = [report EXCEPT ![t] = "acked"]
  /\ queued' = TRUE
  /\ UNCHANGED <<jobs, tasks, run, fresh, worker, req, left>>

(* A failed push is only logged: the runner gets its answer all the same.  *)
EmitFails(t) ==
  /\ report[t] = "emit" /\ Spend("pushfail")
  /\ report' = [report EXCEPT ![t] = "acked"]
  /\ UNCHANGED <<jobs, tasks, run, fresh, queued, worker, req>>

(* StopTask inside a transaction, for the tasks in S that still run.       *)
StillRunning(S) == {t \in TaskId \cap S : tasks[t].status = "running"}
StoppedTasks(S, s) == [t \in TaskId |-> IF t \in S THEN [tasks[t] EXCEPT !.status = s] ELSE tasks[t]]

(* StopZombieTasks and StopEndlessTasks, one task of the sweep: the task   *)
(* and its job fail.  Nothing is emitted.                                  *)
StopZombie(t) ==
  /\ tasks[t].status = "running" /\ Spend("zombie")
  /\ tasks' = StoppedTasks({t}, "failure")
  /\ UpdateRunJobs([jobs EXCEPT ![tasks[t].job].status = "failure"])
  /\ UNCHANGED <<queued, worker, req, report>>

-----------------------------------------------------------------------------
(*                 The job emitter (checkJobsOfRun)                        *)

(* The item leaves the unique queue before it is handled: a push from now  *)
(* on queues the run again, for another worker to take.                    *)
EmitterPop(w) ==
  /\ worker[w].pc = "idle" /\ queued
  /\ queued' = FALSE
  /\ worker' = [worker EXCEPT ![w].pc = "popped"]
  /\ UNCHANGED <<jobs, tasks, run, fresh, req, report, left>>

(* The jobs are read outside of the transaction that updates them.         *)
EmitterRead(w) ==
  /\ worker[w].pc = "popped"
  /\ worker' = [worker EXCEPT ![w] = [pc |-> "resolving", view |-> StatusOf(jobs), updates |-> {}]]
  /\ UNCHANGED <<jobs, tasks, run, fresh, queued, req, report, left>>

(* One pass of the resolver over the statuses read.                        *)
EmitterResolve(w) ==
  LET ready == Decided(JobID, Needs, worker[w].view)
  IN  /\ worker[w].pc = "resolving" /\ ready # {}
      /\ worker' = [worker EXCEPT ![w].view = Resolve(JobID, Needs, Always, @),
                                  ![w].updates = @ \cup ready]
      /\ UNCHANGED <<jobs, tasks, run, fresh, queued, req, report, left>>

(* The transaction: every update must find its job blocked, or all of them *)
(* are rolled back and the queue takes the unhandled item again.           *)
EmitterUpdate(w) ==
  LET upd == worker[w].updates
  IN  /\ worker[w].pc = "resolving" /\ Decided(JobID, Needs, worker[w].view) = {}
      /\ worker' = [worker EXCEPT ![w] = IdleWorker]
      /\ \/ /\ upd = {}
            /\ UNCHANGED <<jobs, run, fresh, queued>>
         \/ /\ upd # {} /\ \A j \in upd : jobs[j].status = "blocked"
            /\ UpdateRunJobs([j \in Job |-> IF j \in upd THEN [jobs[j] EXCEPT !.status = worker[w].view[j]]
                                                         ELSE jobs[j]])
            /\ UNCHANGED queued
         \/ /\ \E j \in upd : jobs[j].status # "blocked"
            /\ queued' = TRUE
            /\ UNCHANGED <<jobs, run, fresh>>
      /\ UNCHANGED <<tasks, req, report, left>>

-----------------------------------------------------------------------------
(*          Web handlers, sweeps and notifications: requests               *)

Enter(r, op, rec) == req[r] = IdleReq /\ Spend(op) /\ req' = [req EXCEPT ![r] = rec]
Finish(r) == req' = [req EXCEPT ![r] = IdleReq]
LiveIn(snap) == {j \in Job : ~IsDone(snap[j].status)}

(* getRunJobs: a web handler reads the run and its jobs.                   *)
ReadJobs(r, op) == Enter(r, op, [IdleReq EXCEPT !.op = op, !.pc = "tx", !.snap = jobs])

CancelRead(r) ==
  /\ ReadJobs(r, "cancel")
  /\ UNCHANGED <<jobs, tasks, run, fresh, queued, worker, report>>

(* Approve will update the run row it reads here.                          *)
ApproveRead(r) ==
  /\ ReadJobs(r, "approve")
  /\ fresh' = fresh \cup {r}
  /\ UNCHANGED <<jobs, tasks, run, queued, worker, report>>

(* The jobs read without a task still have none.                           *)
MutantUnpicked(js) == TRUE  \* the update has no condition
Unpicked(js) == \A j \in js : jobs[j].task = 0

(* Cancel's transaction works off the jobs read before it: a job that had  *)
(* no task is cancelled if it still has none - else everything is rolled   *)
(* back -, a task still running is stopped.                                *)
CancelTx(r) ==
  LET snap == req[r].snap
      direct == {j \in LiveIn(snap) : snap[j].task = 0}
      stopped == StillRunning({snap[j].task : j \in LiveIn(snap)})
      hit == direct \cup {tasks[t].job : t \in stopped}
  IN  /\ req[r].op = "cancel" /\ req[r].pc = "tx"
      /\ Finish(r)
      /\ \/ /\ Unpicked(direct) /\ hit # {}
            /\ tasks' = StoppedTasks(stopped, "cancelled")
            /\ UpdateRunJobs([j \in Job |-> IF j \in hit THEN [jobs[j] EXCEPT !.status = "cancelled"] ELSE jobs[j]])
         \/ /\ hit = {} \/ ~Unpicked(direct)
            /\ UNCHANGED <<jobs, tasks, run, fresh>>
      /\ UNCHANGED <<queued, worker, report, left>>

(* Approve's transaction: it fails when the run has changed since it was   *)
(* read; the jobs' own updates have no condition.                          *)
ApproveTx(r) ==
  LET start == {j \in Job : Needs[j] = {} /\ req[r].snap[j].status = "blocked"}
  IN  /\ req[r].op = "approve" /\ req[r].pc = "tx"
      /\ Finish(r)
      /\ \/ /\ VersionMatches(r)
            /\ jobs' = [j \in Job |-> IF j \in start THEN [jobs[j] EXCEPT !.status = "waiting"] ELSE jobs[j]]
            /\ run' = [needApproval |-> FALSE,
                       status |-> IF start = {} THEN run.status ELSE AggregateJobStatus(StatusOf(jobs'))]
            /\ fresh' = {}
         \/ /\ ~VersionMatches(r)
            /\ UNCHANGED <<jobs, run, fresh>>
      /\ UNCHANGED <<tasks, queued, worker, report, left>>

(* The jobs Rerun resets, in its order; target 0 stands for "all jobs".    *)
RerunList(target) == IF target = 0 THEN [j \in Job |-> j] ELSE GetAllRerunJobs(JobID, Needs, target)
ShouldBlock(target, j) == IF target = 0 THEN Needs[j] # {} ELSE JobID[j] # JobID[target]

(* Rerun reads the run, and of a run that is done resets the times through *)
(* UpdateRun, which makes the other copies of the run out of date.         *)
RerunStart(r, target) ==
  /\ Enter(r, "rerun", [IdleReq EXCEPT !.op = "rerun", !.pc = "read", !.cur = target])
  /\ fresh' = IF IsDone(run.status) THEN {} ELSE fresh
  /\ UNCHANGED <<jobs, tasks, run, queued, worker, report>>

RerunRead(r) ==
  /\ req[r].op = "rerun" /\ req[r].pc = "read"
  /\ req' = [req EXCEPT ![r].pc = "jobs", ![r].snap = jobs,
                        ![r].todo = {j \in Job : j \in Range(RerunList(req[r].cur))}]
  /\ UNCHANGED <<jobs, tasks, run, fresh, queued, worker, report, left>>

(* The handler's copy has a done job, and the row still has that status.   *)
MutantResets(seen, j) == IsDone(seen)  \* the update has no condition
Resets(seen, j) == IsDone(seen) /\ jobs[j].status = seen

(* rerunJob for the next job, a transaction of its own: a job done in the  *)
(* handler's copy is reset if it still has that status; if it has not, no  *)
(* row is affected and the handler goes on.                                *)
RerunJob(r, j) ==
  LET list == RerunList(req[r].cur)
      seen == req[r].snap[j].status
      rest == req[r].todo \ {j}
  IN  /\ req[r].op = "rerun" /\ req[r].pc = "jobs" /\ j \in req[r].todo
      /\ \E i \in DOMAIN list : list[i] = j /\ \A k \in 1 .. i - 1 : list[k] \notin req[r].todo
      /\ req' = [req EXCEPT ![r] = IF rest = {} THEN IdleReq ELSE [@ EXCEPT !.todo = rest]]
      /\ \/ /\ Resets(seen, j)
            /\ UpdateRunJobs([jobs EXCEPT ![j] =
                 [status |-> IF ShouldBlock(req[r].cur, j) THEN "blocked" ELSE "waiting", task |-> 0]])
         \/ /\ ~Resets(seen, j)
            /\ UNCHANGED <<jobs, run, fresh>>
      /\ UNCHANGED <<tasks, queued, worker, report, left>>

(* CancelAbandonedJobs: the waiting and blocked jobs not updated for the   *)
(* timeout are read, then each is cancelled in a transaction of its own,   *)
(* whatever has become of it.                                              *)
MutantAbandonable == {j \in Job : jobs[j].status = "waiting"}  \* not the blocked ones
Abandonable == {j \in Job : jobs[j].status \in {"waiting", "blocked"}}

AbandonFind(r) ==
  \E old \in SUBSET Abandonable :
    /\ old # {}
    /\ Enter(r, "abandon", [IdleReq EXCEPT !.op = "abandon", !.pc = "jobs", !.todo = old])
    /\ UNCHANGED <<jobs, tasks, run, fresh, queued, worker, report>>

AbandonJob(r, j) ==
  LET rest == req[r].todo \ {j}
  IN  /\ req[r].op = "abandon" /\ req[r].pc = "jobs" /\ j \in req[r].todo
      /\ req' = [req EXCEPT ![r] = IF rest = {} THEN IdleReq ELSE [@ EXCEPT !.todo = rest]]
      /\ UpdateRunJobs([jobs EXCEPT ![j].status = "cancelled"])
      /\ UNCHANGED <<tasks, queued, worker, report, left>>

(* CancelPreviousJobs, for a run that is not done when a newer one starts. *)
(* It runs without a transaction, so each statement is a step: the job's   *)
(* row (PreviousJob or PreviousStop), the reload of run and jobs, the      *)
(* save of the run under its version, the task's row.                      *)
Continue(r, todo) ==
  req' = [req EXCEPT ![r] = IF todo = {} THEN IdleReq ELSE [@ EXCEPT !.pc = "jobs", !.todo = todo]]

PreviousRead(r) ==
  /\ ~IsDone(run.status) /\ LiveIn(jobs) # {}
  /\ Enter(r, "previous", [IdleReq EXCEPT !.op = "previous", !.pc = "jobs", !.snap = jobs, !.todo = LiveIn(jobs)])
  /\ UNCHANGED <<jobs, tasks, run, fresh, queued, worker, report>>

PreviousJob(r, j) ==
  LET t == req[r].snap[j].task
      goto(pc) == req' = [req EXCEPT ![r].pc = pc, ![r].cur = j, ![r].todo = @ \ {j}]
  IN  /\ req[r].op = "previous" /\ req[r].pc = "jobs" /\ j \in req[r].todo
      /\ \/ /\ t = 0 /\ jobs[j].task = 0
            /\ jobs' = [jobs EXCEPT ![j].status = "cancelled"]
            /\ goto("reload")
         \/ /\ t = 0 /\ jobs[j].task # 0         \* "job has changed, try again"
            /\ Finish(r) /\ UNCHANGED jobs
         \/ /\ t # 0 /\ tasks[t].status = "running"
            /\ goto("stop") /\ UNCHANGED jobs
         \/ /\ t # 0 /\ tasks[t].status # "running"
            /\ Continue(r, req[r].todo \ {j}) /\ UNCHANGED jobs
      /\ UNCHANGED <<tasks, run, fresh, queued, worker, report, left>>

PreviousStop(r) ==
  /\ req[r].op = "previous" /\ req[r].pc = "stop"
  /\ jobs' = [jobs EXCEPT ![req[r].cur].status = "cancelled"]
  /\ req' = [req EXCEPT ![r].pc = "reload"]
  /\ UNCHANGED <<tasks, run, fresh, queued, worker, report, left>>

PreviousReload(r) ==
  /\ req[r].op = "previous" /\ req[r].pc = "reload"
  /\ req' = [req EXCEPT ![r].pc = "save", ![r].run = AggregateJobStatus(StatusOf(jobs))]
  /\ fresh' = fresh \cup {r}
  /\ UNCHANGED <<jobs, tasks, run, queued, worker, report, left>>

(* UpdateRun: "run has changed" ends the handler where it stands.          *)
PreviousSave(r) ==
  /\ req[r].op = "previous" /\ req[r].pc = "save"
  /\ \/ /\ VersionMatches(r)
        /\ run' = [run EXCEPT !.status = req[r].run]
        /\ fresh' = {}
        /\ IF req[r].snap[req[r].cur].task # 0
             THEN req' = [req EXCEPT ![r].pc = "task"]
             ELSE Continue(r, req[r].todo)
     \/ /\ ~VersionMatches(r)
        /\ Finish(r) /\ UNCHANGED <<run, fresh>>
  /\ UNCHANGED <<jobs, tasks, queued, worker, report, left>>

PreviousTask(r) ==
  /\ req[r].op = "previous" /\ req[r].pc = "task"
  /\ tasks' = [tasks EXCEPT ![req[r].snap[req[r].cur].task].status = "cancelled"]
  /\ Continue(r, req[r].todo)
  /\ UNCHANGED <<jobs, run, fresh, queued, worker, report, left>>

-----------------------------------------------------------------------------
(* The process dies: the handlers are gone with what they had read, an     *)
(* item taken from the queue is lost, the queue itself is on disk.  A      *)
(* runner whose call was not answered calls again.                         *)
Crash ==
  /\ Spend("crash")
  /\ worker' = [w \in Worker |-> IdleWorker]
  /\ req' = [r \in Req |-> IdleReq]
  /\ fresh' = {}
  /\ report' = [t \in TaskId |-> IF report[t] = "emit" THEN "none" ELSE report[t]]
  /\ UNCHANGED <<jobs, tasks, run, queued>>

TaskStep(t) ==
  \/ \E j \in Job : CreateTask(j, t)
  \/ \E result \in Results : ReportResult(t, result)
  \/ EmitJobsIfReady(t)
  \/ EmitFails(t)
  \/ StopZombie(t)

WorkerStep(w) == EmitterPop(w) \/ EmitterRead(w) \/ EmitterResolve(w) \/ EmitterUpdate(w)

(* A request on its way, once it has begun.                                *)
RequestStep(r) ==
  \/ CancelTx(r)
  \/ ApproveTx(r)
  \/ RerunRead(r)
  \/ \E j \in Job : RerunJob(r, j) \/ AbandonJob(r, j) \/ PreviousJob(r, j)
  \/ PreviousStop(r) \/ PreviousReload(r) \/ PreviousSave(r) \/ PreviousTask(r)

RequestBegins(r) ==
  \/ CancelRead(r)
  \/ ApproveRead(r)
  \/ \E target \in 0 .. NumJobs : RerunStart(r, target)
  \/ AbandonFind(r)
  \/ PreviousRead(r)

Next ==
  \/ \E t \in TaskId : TaskStep(t)
  \/ \E w \in Worker : WorkerStep(w)
  \/ \E r \in Req : RequestStep(r) \/ RequestBegins(r)
  \/ Crash

Spec == Init /\ [][Next]_vars

(* What goes on by itself: queue workers and requests on their way do not  *)
(* stop, some runner with the labels of a waiting job keeps polling.       *)
Progress ==
  /\ \A w \in Worker : WF_vars(WorkerStep(w))
  /\ \A r \in Req : WF_vars(RequestStep(r))
  /\ \A j \in Job : WF_vars(\E t \in TaskId : CreateTask(j, t))
  /\ \A t \in TaskId : WF_vars(EmitJobsIfReady(t))

(* A running task ends: its runner reports or, if that has vanished, the   *)
(* sweep of zombies or of endless tasks stops it.  The sweep of abandoned  *)
(* jobs runs again and again.                                              *)
TasksEnd == \A t \in TaskId :
  WF_vars(tasks[t].status = "running" /\ (StopZombie(t) \/ \E result \in Results : ReportResult(t, result)))
SweepsRun == WF_vars(\E r \in Req : AbandonFind(r))

FairSpec == Spec /\ Progress /\ TasksEnd /\ SweepsRun

-----------------------------------------------------------------------------
(*                              Properties                                 *)

(* The rows and handlers have the shapes declared above.                   *)
JobRow == [status : Status, task : TaskId \cup {0}]
SnapRow == [status : Status \cup {Unknown}, task : TaskId \cup {0}]
TypeOK ==
  /\ jobs \in [Job -> JobRow]
  /\ tasks \in [TaskId -> [job : Job \cup {0}, status : Final \cup {"running", Unknown}]]
  /\ run \in [status : Status, needApproval : BOOLEAN]
  /\ fresh \subseteq Req
  /\ queued \in BOOLEAN
  /\ worker \in [Worker -> [pc : {"idle", "popped", "resolving"},
                            view : [Job -> Status \cup {Unknown}], updates : SUBSET Job]]
  /\ req \in [Req -> [op : Op \cup {"idle"},
                      pc : {"idle", "tx", "read", "jobs", "stop", "reload", "save", "task"},
                      snap : [Job -> SnapRow], todo : SUBSET Job, cur : 0 .. NumJobs,
                      run : Status \cup {Unknown}]]
  /\ report \in [TaskId -> {"none", "emit", "acked"}]
  /\ left \in [Op -> Nat]

(* A job is running exactly while one of its tasks is, and that task is    *)
(* the one the job points to: the job is never handed to a second runner,  *)
(* and no stopped, rerun or reported job leaves a task running behind.     *)
RunningTaskOwnsJob ==
  /\ \A t \in TaskId : tasks[t].status = "running" =>
        /\ tasks[t].job \in Job
        /\ jobs[tasks[t].job] = [status |-> "running", task |-> t]
  /\ \A j \in Job : jobs[j].status = "running" =>
        \E t \in TaskId : tasks[t] = [job |-> j, status |-> "running"]

(* The saved status of the run is the aggregate of its jobs' in every      *)
(* state between transactions; the run keeps the "waiting" it is inserted  *)
(* with until the first of its jobs changes.                               *)
RunStatusIsAggregate ==
  \/ run.status = AggregateJobStatus(StatusOf(jobs))
  \/ run.status = "waiting" /\ \E approval \in NeedApprovals : jobs = InsertedJobs(approval)

(* The optimistic lock on the run makes its status settle on the aggregate *)
(* even though CancelPreviousJobs reads and saves it without a transaction,*)
(* unless a second one, an Approve or a Rerun moves the version meanwhile  *)
(* without saving a status, or a crash ends it between two statements.     *)
RunStatusSettles == (\A r \in Req : req[r].op # "previous") => RunStatusIsAggregate

(* No job starts before its needs are done, nor - unless its condition is  *)
(* always() - after one of them failed, whatever the order in which        *)
(* reports, sweeps, cancellations and queue workers come.                  *)
NeedsRespected ==
  \A j \in Job : jobs[j].task # 0 =>
    LET S == {jobs[k].status : k \in {m \in Job : JobID[m] \in Needs[j]}}
    IN  S \subseteq Final /\ (j \in Always \/ S \subseteq {"success"})

(* No job of a run that waits for approval is given to a runner.           *)
ApprovalRespected == run.needApproval => \A t \in TaskId : tasks[t] = NoTask

(* A job released to the runners has all its needs done at that moment.    *)
ReleasedWhenNeedsDone ==
  [][\A j \in Job : jobs[j].status = "blocked" /\ jobs'[j].status = "waiting" =>
        {jobs'[k].status : k \in {m \in Job : JobID[m] \in Needs[j]}} \subseteq Final]_vars

(* A job is not handed out before its needs are done, even when the sweep  *)
(* of abandoned jobs or CancelPreviousJobs end jobs that wait, run or have *)
(* just been given to a runner.                                            *)
NeedsDone ==
  \A j \in Job : jobs[j].task # 0 => \A k \in Job : JobID[k] \in Needs[j] => IsDone(jobs[k].status)

(* A task that runs is the one its job points to, and its job runs too or  *)
(* was cancelled: the sweep of abandoned jobs and CancelPreviousJobs may   *)
(* end a job before its task, but no task runs on behind a job that failed,*)
(* was reset or was given another task, and no job runs without a task.    *)
StrayTasksAreCancelled ==
  /\ \A t \in TaskId : tasks[t].status = "running" =>
        /\ tasks[t].job \in Job
        /\ jobs[tasks[t].job].task = t /\ jobs[tasks[t].job].status \in {"running", "cancelled"}
  /\ \A j \in Job : jobs[j].status = "running" =>
        \E t \in TaskId : tasks[t] = [job |-> j, status |-> "running"]

(* No late report, late approval, stale emitter or sweep of tasks touches a*)
(* job that succeeded, failed or was cancelled: its outcome is changed by a*)
(* rerun, which takes it back, by the two that cancel without a condition, *)
(* and by the end of a task that was still running when they did so.       *)
(* Whoever cancels may turn a skipped job into a cancelled one.            *)
OutcomeIsFinal ==
  [][\A j \in Job : IsDone(jobs[j].status) /\ jobs'[j].status # jobs[j].status =>
        \/ \E r \in Req : RerunJob(r, j) \/ AbandonJob(r, j) \/ (PreviousStop(r) /\ req[r].cur = j)
        \/ jobs[j].status = "skipped" /\ jobs'[j].status = "cancelled"
        \/ jobs[j].status = "cancelled" /\ \E t \in TaskId : tasks[t] = [job |-> j, status |-> "running"]]_vars

(* No job is forgotten: again and again all jobs are done.  Without faults *)
(* the emitter sees to it - no emission is lost between a report, the      *)
(* queue, its workers and their failed transactions -; with vanished       *)
(* runners, crashes and lost pushes the sweep of abandoned jobs does.      *)
AllJobsEnd == []<>(\A j \in Job : IsDone(jobs[j].status))

(* Reports, emitters that decide on what they read before, Cancel and      *)
(* Approve on old copies, sweeps of tasks, crashes and lost pushes look to *)
(* the author of the workflow like the steps of RunPromise: also, a job is *)
(* skipped only if one of its needs did not succeed.                       *)
Promise == INSTANCE RunPromise WITH status <- StatusOf(jobs), approved <- ~run.needApproval
KeepsPromise == Promise!Spec
=============================================================================
