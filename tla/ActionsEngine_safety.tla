------------------------ MODULE ActionsEngine_safety ------------------------
(***************************************************************************)
(* Theorems about the jobs and tasks of ActionsEngine: who owns a running  *)
(* task, what a job waits for, and which outcomes stay.                    *)
(*                                                                         *)
(* They hold for every workflow, any number of tasks, queue workers and    *)
(* requests, and every budget but for three operations that some of them   *)
(* exclude or keep apart: CancelAbandonedJobs and CancelPreviousJobs, which*)
(* write a job's row without looking at it or without a transaction, and   *)
(* Rerun, which takes outcomes back on purpose.  Two inductive invariants  *)
(* carry them: SafetyInv without the first two, LateInv without the third. *)
(***************************************************************************)
EXTENDS ActionsEngine_proofs

(* The behaviors without CancelAbandonedJobs and CancelPreviousJobs.       *)
Quiet == \A b \in Budgets : b["abandon"] = 0 /\ b["previous"] = 0

QuietInv ==
  /\ left["abandon"] = 0 /\ left["previous"] = 0
  /\ \A r \in Req : req[r].op \notin {"abandon", "previous"}

(* A task row, once created, names a job and runs or has ended.            *)
TasksBegun ==
  \A t \in TaskId : tasks[t] # NoTask => /\ tasks[t].job \in Job
                                         /\ tasks[t].status \in Final \cup {"running"}

(* As long as the version of the run is the one Approve has read, so are   *)
(* the jobs: whatever changes a job saves the run.                         *)
SnapIsFresh == \A r \in fresh : req[r].op = "approve" => req[r].snap = jobs

SafetyInv == TypeInv /\ QuietInv /\ TasksBegun /\ SnapIsFresh /\ RunningTaskOwnsJob

LEMMA SafetyInit ==
  ASSUME Init, left["abandon"] = 0, left["previous"] = 0
  PROVE  SafetyInv
<1>1. TypeInv
  BY TypeInit DEF TypeInv, Init, UpdatesDecided, SavesStatus, IdleWorker, IdleReq
<1>2. QuietInv
  BY DEF QuietInv, Init, IdleReq
<1>3. TasksBegun /\ SnapIsFresh
  BY DEF TasksBegun, SnapIsFresh, Init
<1>4. RunningTaskOwnsJob
  BY DEF RunningTaskOwnsJob, Init, InsertedJobs, InitialJob, NoTask, Unknown
<1> QED BY <1>1, <1>2, <1>3, <1>4 DEF SafetyInv

LEMMA RunningTask ==
  ASSUME RunningTaskOwnsJob, NEW t \in TaskId, tasks[t].status = "running"
  PROVE  /\ tasks[t].job \in Job
         /\ jobs[tasks[t].job].status = "running"
         /\ jobs[tasks[t].job].task = t
<1>1. tasks[t].job \in Job /\ jobs[tasks[t].job] = [status |-> "running", task |-> t]
  BY DEF RunningTaskOwnsJob
<1> QED BY <1>1

LEMMA UnchangedRows ==
  ASSUME RunningTaskOwnsJob, TasksBegun, UNCHANGED <<jobs, tasks>>
  PROVE  RunningTaskOwnsJob' /\ TasksBegun'
BY DEF RunningTaskOwnsJob, TasksBegun

(* When jobs that run stop together with the tasks they own, and the other *)
(* rows stay, ownership is kept.                                           *)
LEMMA StopKeepsOwnership ==
  ASSUME RunningTaskOwnsJob, NEW S, NEW H,
         \A t \in TaskId : IF t \in S THEN tasks'[t].status # "running" ELSE tasks'[t] = tasks[t],
         \A j \in Job : IF j \in H THEN jobs'[j].status # "running" ELSE jobs'[j] = jobs[j],
         \A t \in TaskId : tasks[t].status = "running" => (t \in S <=> tasks[t].job \in H)
  PROVE  RunningTaskOwnsJob'
<1>1. ASSUME NEW t \in TaskId, tasks'[t].status = "running"
      PROVE  tasks'[t].job \in Job /\ jobs'[tasks'[t].job] = [status |-> "running", task |-> t]
  BY <1>1 DEF RunningTaskOwnsJob
<1>2. ASSUME NEW j \in Job, jobs'[j].status = "running"
      PROVE  \E t \in TaskId : tasks'[t] = [job |-> j, status |-> "running"]
  <2>1. j \notin H /\ jobs'[j] = jobs[j]
    BY <1>2
  <2>2. PICK t \in TaskId : tasks[t] = [job |-> j, status |-> "running"]
    BY <1>2, <2>1 DEF RunningTaskOwnsJob
  <2>3. t \notin S /\ tasks'[t] = tasks[t]
    BY <2>1, <2>2
  <2> QED BY <2>2, <2>3
<1> QED BY <1>1, <1>2 DEF RunningTaskOwnsJob

(* A job that has no running task stops, starts to wait or is skipped.     *)
LEMMA JobsChangeKeepsOwnership ==
  ASSUME RunningTaskOwnsJob, UNCHANGED tasks, NEW H,
         \A j \in Job : IF j \in H THEN jobs[j].status # "running" /\ jobs'[j].status # "running"
                        ELSE jobs'[j] = jobs[j]
  PROVE  RunningTaskOwnsJob'
<1>1. ASSUME NEW t \in TaskId, tasks[t].status = "running" PROVE tasks[t].job \notin H
  BY <1>1, RunningTask
<1>2. PICK S : S = {}
  OBVIOUS
<1>3. \A t \in TaskId : IF t \in S THEN tasks'[t].status # "running" ELSE tasks'[t] = tasks[t]
  BY <1>2
<1>4. \A j \in Job : IF j \in H THEN jobs'[j].status # "running" ELSE jobs'[j] = jobs[j]
  OBVIOUS
<1>5. \A t \in TaskId : tasks[t].status = "running" => (t \in S <=> tasks[t].job \in H)
  BY <1>1, <1>2
<1> HIDE <1>2
<1> QED BY <1>3, <1>4, <1>5, StopKeepsOwnership

LEMMA CreateTaskSafe ==
  ASSUME SafetyInv, NEW t \in TaskId, NEW j \in Job, CreateTask(j, t)
  PROVE  RunningTaskOwnsJob' /\ TasksBegun'
<1>1. TypeOK /\ RunningTaskOwnsJob /\ TasksBegun
  BY DEF SafetyInv, TypeInv
<1>2. /\ tasks' = [tasks EXCEPT ![t] = [job |-> j, status |-> "running"]]
      /\ jobs' = [jobs EXCEPT ![j] = [status |-> "running", task |-> t]]
      /\ tasks[t] = NoTask /\ jobs[j].status = "waiting"
  BY DEF CreateTask, UpdateRunJobs
<1>3. tasks[t].status # "running"
  BY <1>2 DEF NoTask, Unknown
<1>4. ASSUME NEW u \in TaskId, tasks[u].status = "running"
      PROVE  u # t /\ tasks[u].job # j
  BY <1>1, <1>2, <1>3, <1>4, RunningTask
<1>5. /\ tasks'[t] = [job |-> j, status |-> "running"] /\ jobs'[j] = [status |-> "running", task |-> t]
      /\ \A u \in TaskId : u # t => tasks'[u] = tasks[u]
      /\ \A k \in Job : k # j => jobs'[k] = jobs[k]
  BY <1>1, <1>2 DEF TypeOK
<1>6. TasksBegun'
  BY <1>1, <1>5 DEF TasksBegun
<1>7. RunningTaskOwnsJob'
  <2>1. ASSUME NEW u \in TaskId, tasks'[u].status = "running"
        PROVE  tasks'[u].job \in Job /\ jobs'[tasks'[u].job] = [status |-> "running", task |-> u]
    BY <1>1, <1>4, <1>5, <2>1 DEF RunningTaskOwnsJob
  <2>2. ASSUME NEW k \in Job, jobs'[k].status = "running"
        PROVE  \E u \in TaskId : tasks'[u] = [job |-> k, status |-> "running"]
    <3>1. CASE k = j
      BY <1>5, <3>1
    <3>2. CASE k # j
      <4>1. PICK u \in TaskId : tasks[u] = [job |-> k, status |-> "running"]
        BY <1>1, <1>5, <2>2, <3>2 DEF RunningTaskOwnsJob
      <4> QED BY <1>3, <1>5, <4>1
    <3> QED BY <3>1, <3>2
  <2> QED BY <2>1, <2>2 DEF RunningTaskOwnsJob
<1> QED BY <1>6, <1>7

(* A task that runs ends, with its job, in the status s.                   *)
LEMMA EndTaskSafe ==
  ASSUME SafetyInv, NEW t \in TaskId, NEW s \in Final, tasks[t].status = "running",
         tasks' = [tasks EXCEPT ![t].status = s],
         jobs' = [jobs EXCEPT ![tasks[t].job].status = s]
  PROVE  RunningTaskOwnsJob' /\ TasksBegun'
<1>1. TypeOK /\ RunningTaskOwnsJob /\ TasksBegun
  BY DEF SafetyInv, TypeInv
<1>2. s # "running"
  BY Statuses
<1> DEFINE k == tasks[t].job
<1>3. k \in Job
  BY <1>1, RunningTask
<1>4. /\ tasks'[t].status = s /\ tasks'[t].job = k
      /\ \A u \in TaskId : u # t => tasks'[u] = tasks[u]
  BY <1>1 DEF TypeOK
<1>5. /\ jobs'[k].status = s
      /\ \A j \in Job : j # k => jobs'[j] = jobs[j]
  BY <1>1, <1>3 DEF TypeOK, JobRow
<1>6. ASSUME NEW u \in TaskId, tasks[u].status = "running"
      PROVE  u \in {t} <=> tasks[u].job \in {k}
  BY <1>1, <1>6, RunningTask
<1>7. RunningTaskOwnsJob'
  <2> HIDE DEF k
  <2>1. \A u \in TaskId : IF u \in {t} THEN tasks'[u].status # "running" ELSE tasks'[u] = tasks[u]
    BY <1>2, <1>4
  <2>2. \A j \in Job : IF j \in {k} THEN jobs'[j].status # "running" ELSE jobs'[j] = jobs[j]
    BY <1>2, <1>5
  <2> QED BY <1>1, <1>6, <2>1, <2>2, StopKeepsOwnership
<1>8. TasksBegun'
  BY <1>1, <1>3, <1>4 DEF TasksBegun
<1> QED BY <1>7, <1>8

LEMMA EmitterUpdateSafe ==
  ASSUME SafetyInv, NEW w \in Worker, EmitterUpdate(w)
  PROVE  RunningTaskOwnsJob' /\ TasksBegun'
<1>1. TypeOK /\ RunningTaskOwnsJob /\ TasksBegun /\ UpdatesDecided
  BY DEF SafetyInv, TypeInv
<1> DEFINE upd == worker[w].updates
<1>2. UNCHANGED tasks
  BY DEF EmitterUpdate
<1>3. TasksBegun'
  BY <1>1, <1>2 DEF TasksBegun
<1>4. CASE UNCHANGED jobs
  BY <1>1, <1>2, <1>4, UnchangedRows
<1>5. CASE /\ \A j \in upd : jobs[j].status = "blocked"
           /\ jobs' = [j \in Job |-> IF j \in upd THEN [jobs[j] EXCEPT !.status = worker[w].view[j]] ELSE jobs[j]]
  <2>1. ASSUME NEW j \in Job
        PROVE IF j \in upd THEN jobs[j].status # "running" /\ jobs'[j].status # "running" ELSE jobs'[j] = jobs[j]
    <3>1. CASE j \in upd
      <4>1. jobs'[j].status = worker[w].view[j]
        BY <1>1, <1>5, <3>1 DEF TypeOK, JobRow
      <4>2. worker[w].view[j] # "running"
        BY <1>1, <3>1 DEF UpdatesDecided
      <4> QED BY <1>5, <3>1, <4>1, <4>2
    <3> QED BY <1>5, <3>1
  <2> HIDE DEF upd
  <2> QED BY <1>1, <1>2, <1>3, <2>1, JobsChangeKeepsOwnership
<1>6. \/ UNCHANGED jobs
      \/ /\ \A j \in upd : jobs[j].status = "blocked"
         /\ jobs' = [j \in Job |-> IF j \in upd THEN [jobs[j] EXCEPT !.status = worker[w].view[j]] ELSE jobs[j]]
  BY DEF EmitterUpdate, UpdateRunJobs
<1> QED BY <1>3, <1>4, <1>5, <1>6

LEMMA CancelTxSafe ==
  ASSUME SafetyInv, NEW r \in Req, CancelTx(r)
  PROVE  RunningTaskOwnsJob' /\ TasksBegun'
<1>1. TypeOK /\ RunningTaskOwnsJob /\ TasksBegun
  BY DEF SafetyInv, TypeInv
<1> DEFINE snap == req[r].snap
           direct == {j \in LiveIn(snap) : snap[j].task = 0}
           stopped == StillRunning({snap[j].task : j \in LiveIn(snap)})
           hit == direct \cup {tasks[t].job : t \in stopped}
<1>2. \/ UNCHANGED <<jobs, tasks>>
      \/ /\ Unpicked(direct)
         /\ tasks' = StoppedTasks(stopped, "cancelled")
         /\ jobs' = [j \in Job |-> IF j \in hit THEN [jobs[j] EXCEPT !.status = "cancelled"] ELSE jobs[j]]
  BY DEF CancelTx, UpdateRunJobs
<1>3. CASE UNCHANGED <<jobs, tasks>>
  BY <1>1, <1>3 DEF RunningTaskOwnsJob, TasksBegun
<1>4. CASE /\ Unpicked(direct)
           /\ tasks' = StoppedTasks(stopped, "cancelled")
           /\ jobs' = [j \in Job |-> IF j \in hit THEN [jobs[j] EXCEPT !.status = "cancelled"] ELSE jobs[j]]
  <2>1. \A t \in stopped : t \in TaskId /\ tasks[t].status = "running"
    BY DEF StillRunning
  <2>2. \A j \in direct : j \in Job /\ jobs[j].task = 0
    BY <1>4 DEF Unpicked, LiveIn
  <2> HIDE DEF direct, stopped
  <2>3. ASSUME NEW t \in TaskId
        PROVE  IF t \in stopped THEN /\ tasks'[t].status = "cancelled"
                                     /\ tasks'[t].job = tasks[t].job
               ELSE tasks'[t] = tasks[t]
    BY <1>1, <1>4 DEF StoppedTasks, TypeOK
  <2>4. ASSUME NEW j \in Job
        PROVE  IF j \in hit THEN jobs'[j].status # "running" ELSE jobs'[j] = jobs[j]
    <3>1. jobs[j] \in JobRow
      BY <1>1 DEF TypeOK
    <3> HIDE DEF hit
    <3> QED BY <1>4, <3>1 DEF JobRow
  <2>5. ASSUME NEW t \in TaskId, tasks[t].status = "running"
        PROVE  t \in stopped <=> tasks[t].job \in hit
    <3>1. ASSUME tasks[t].job \in direct PROVE FALSE
      <4>1. jobs[tasks[t].job].task = t /\ t # 0
        BY <1>1, <2>5, RunningTask DEF TaskId
      <4> QED BY <2>2, <3>1, <4>1
    <3>2. ASSUME NEW u \in stopped, tasks[u].job = tasks[t].job PROVE u = t
      BY <1>1, <2>1, <2>5, <3>2, RunningTask
    <3> QED BY <2>5, <3>1, <3>2
  <2> HIDE DEF hit
  <2>6. \A t \in TaskId : IF t \in stopped THEN tasks'[t].status # "running" ELSE tasks'[t] = tasks[t]
    BY <2>3
  <2>7. RunningTaskOwnsJob'
    BY <1>1, <2>4, <2>5, <2>6, StopKeepsOwnership
  <2>8. TasksBegun'
    <3>1. ASSUME NEW t \in TaskId, tasks'[t] # NoTask
          PROVE  tasks'[t].job \in Job /\ tasks'[t].status \in Final \cup {"running"}
      <4>1. CASE t \in stopped
        BY <1>1, <2>1, <2>3, <4>1, RunningTask DEF Final
      <4>2. CASE t \notin stopped
        BY <1>1, <2>3, <3>1, <4>2 DEF TasksBegun
      <4> QED BY <4>1, <4>2
    <3> QED BY <3>1 DEF TasksBegun
  <2> QED BY <2>7, <2>8
<1> QED BY <1>2, <1>3, <1>4

LEMMA ApproveTxSafe ==
  ASSUME SafetyInv, NEW r \in Req, ApproveTx(r)
  PROVE  RunningTaskOwnsJob' /\ TasksBegun'
<1>1. TypeOK /\ RunningTaskOwnsJob /\ TasksBegun /\ SnapIsFresh
  BY DEF SafetyInv, TypeInv
<1>2. UNCHANGED tasks
  BY DEF ApproveTx
<1>3. TasksBegun'
  BY <1>1, <1>2 DEF TasksBegun
<1>4. CASE ~VersionMatches(r)
  <2>1. UNCHANGED jobs
    BY <1>4 DEF ApproveTx
  <2> QED BY <1>1, <1>2, <1>3, <2>1 DEF RunningTaskOwnsJob
<1>5. CASE VersionMatches(r)
  <2> DEFINE start == {j \in Job : Needs[j] = {} /\ req[r].snap[j].status = "blocked"}
  <2>1. req[r].snap = jobs
    BY <1>1, <1>5 DEF VersionMatches, SnapIsFresh, ApproveTx
  <2>2. jobs' = [j \in Job |-> IF j \in start THEN [jobs[j] EXCEPT !.status = "waiting"] ELSE jobs[j]]
    BY <1>5 DEF ApproveTx
  <2>3. ASSUME NEW j \in Job
        PROVE  IF j \in start THEN jobs[j].status # "running" /\ jobs'[j].status # "running" ELSE jobs'[j] = jobs[j]
    <3>1. jobs[j] \in JobRow
      BY <1>1 DEF TypeOK
    <3> QED BY <2>1, <2>2, <3>1 DEF JobRow
  <2> HIDE DEF start
  <2> QED BY <1>1, <1>2, <1>3, <2>3, JobsChangeKeepsOwnership
<1> QED BY <1>4, <1>5

LEMMA RerunJobSafe ==
  ASSUME SafetyInv, NEW r \in Req, NEW j \in Job, RerunJob(r, j)
  PROVE  RunningTaskOwnsJob' /\ TasksBegun'
<1>1. TypeOK /\ RunningTaskOwnsJob /\ TasksBegun
  BY DEF SafetyInv, TypeInv
<1>2. UNCHANGED tasks
  BY DEF RerunJob
<1>3. TasksBegun'
  BY <1>1, <1>2 DEF TasksBegun
<1>4. CASE UNCHANGED jobs
  BY <1>1, <1>2, <1>3, <1>4 DEF RunningTaskOwnsJob
<1>5. ASSUME NEW s \in {"blocked", "waiting"}, IsDone(jobs[j].status),
             jobs' = [jobs EXCEPT ![j] = [status |-> s, task |-> 0]]
      PROVE  RunningTaskOwnsJob'
  <2>1. jobs[j].status # "running"
    BY <1>5, Statuses DEF IsDone
  <2>2. \A k \in Job : IF k \in {j} THEN jobs[k].status # "running" /\ jobs'[k].status # "running" ELSE jobs'[k] = jobs[k]
    BY <1>1, <1>5, <2>1 DEF TypeOK
  <2> QED BY <1>1, <1>2, <2>2, JobsChangeKeepsOwnership
<1> QED BY <1>3, <1>4, <1>5 DEF RerunJob, Resets, UpdateRunJobs

LEMMA TaskStepSafe ==
  ASSUME SafetyInv, NEW t \in TaskId, TaskStep(t)
  PROVE  RunningTaskOwnsJob' /\ TasksBegun'
<1>0. TypeOK /\ RunningTaskOwnsJob /\ TasksBegun
  BY DEF SafetyInv, TypeInv
<1>1. ASSUME NEW j \in Job, CreateTask(j, t) PROVE RunningTaskOwnsJob' /\ TasksBegun'
  BY <1>1, CreateTaskSafe
<1>2. ASSUME NEW result \in Results, ReportResult(t, result) PROVE RunningTaskOwnsJob' /\ TasksBegun'
  <2>1. result \in Final
    BY WorkflowAssumption DEF WorkflowAssumption
  <2>2. CASE IsDone(tasks[t].status)
    BY <1>0, <1>2, <2>2, UnchangedRows DEF ReportResult
  <2>3. CASE ~IsDone(tasks[t].status)
    <3>1. tasks[t].status = "running"
      BY <1>0, <1>2, <2>3 DEF ReportResult, TasksBegun, IsDone
    <3>2. /\ tasks' = [tasks EXCEPT ![t].status = result]
          /\ jobs' = [jobs EXCEPT ![tasks[t].job].status = result]
      BY <1>2, <2>3 DEF ReportResult, UpdateRunJobs
    <3> QED BY <2>1, <3>1, <3>2, EndTaskSafe
  <2> QED BY <2>2, <2>3
<1>3. CASE EmitJobsIfReady(t) \/ EmitFails(t)
  BY <1>0, <1>3, UnchangedRows DEF EmitJobsIfReady, EmitFails
<1>4. CASE StopZombie(t)
  <2>1. tasks[t].status = "running" /\ "failure" \in Final
    BY <1>4 DEF StopZombie, Final
  <2>2. tasks' = [tasks EXCEPT ![t].status = "failure"]
    <3>1. tasks' = [u \in TaskId |-> IF u \in {t} THEN [tasks[u] EXCEPT !.status = "failure"] ELSE tasks[u]]
      BY <1>4 DEF StopZombie, StoppedTasks
    <3> QED BY <1>0, <3>1 DEF TypeOK
  <2>3. jobs' = [jobs EXCEPT ![tasks[t].job].status = "failure"]
    BY <1>4 DEF StopZombie, UpdateRunJobs
  <2> QED BY <2>1, <2>2, <2>3, EndTaskSafe
<1> QED BY <1>1, <1>2, <1>3, <1>4 DEF TaskStep

LEMMA RequestStepSafe ==
  ASSUME SafetyInv, NEW r \in Req, RequestStep(r)
  PROVE  RunningTaskOwnsJob' /\ TasksBegun'
<1>0. RunningTaskOwnsJob /\ TasksBegun /\ req[r].op \notin {"abandon", "previous"}
  BY DEF SafetyInv, QuietInv
<1>1. CASE CancelTx(r)
  BY <1>1, CancelTxSafe
<1>2. CASE ApproveTx(r)
  BY <1>2, ApproveTxSafe
<1>3. CASE RerunRead(r)
  BY <1>0, <1>3, UnchangedRows DEF RerunRead
<1>4. ASSUME NEW j \in Job, RerunJob(r, j) PROVE RunningTaskOwnsJob' /\ TasksBegun'
  BY <1>4, RerunJobSafe
<1>5. ~\E j \in Job : AbandonJob(r, j) \/ PreviousJob(r, j)
  BY <1>0 DEF AbandonJob, PreviousJob
<1>6. ~(PreviousStop(r) \/ PreviousReload(r) \/ PreviousSave(r) \/ PreviousTask(r))
  BY <1>0 DEF PreviousStop, PreviousReload, PreviousSave, PreviousTask
<1> QED BY <1>1, <1>2, <1>3, <1>4, <1>5, <1>6 DEF RequestStep

(* What may become of a request in one step.                               *)
LEMMA ReqChange ==
  ASSUME SafetyInv, [Next]_vars, NEW q \in Req
  PROVE  \/ req'[q] = req[q] \/ req'[q] = IdleReq \/ req'[q].op = "rerun"
         \/ CancelRead(q) /\ req'[q].op = "cancel"
         \/ ApproveRead(q) /\ req'[q].op = "approve"
<1>0. /\ req \in [Req -> ReqRow] /\ req[q] \in ReqRow
      /\ \A r \in Req : req[r].op \notin {"abandon", "previous"}
      /\ left["abandon"] = 0 /\ left["previous"] = 0
  BY DEF SafetyInv, QuietInv, TypeInv, TypeOK, ReqRow
<1>1. ASSUME NEW t \in TaskId, TaskStep(t) PROVE UNCHANGED req
  BY <1>1 DEF TaskStep, CreateTask, ReportResult, EmitJobsIfReady, EmitFails, StopZombie
<1>2. ASSUME NEW w \in Worker, WorkerStep(w) PROVE UNCHANGED req
  BY <1>2 DEF WorkerStep, EmitterPop, EmitterRead, EmitterResolve, EmitterUpdate
<1>3. ASSUME NEW r \in Req, RequestStep(r)
      PROVE  req'[q] = req[q] \/ req'[q] = IdleReq \/ req'[q].op = "rerun"
  <2>1. CASE CancelTx(r) \/ ApproveTx(r)
    BY <1>0, <2>1 DEF CancelTx, ApproveTx, Finish
  <2>2. CASE RerunRead(r)
    BY <1>0, <2>2 DEF RerunRead, ReqRow
  <2>3. ASSUME NEW j \in Job, RerunJob(r, j) PROVE req'[q] = req[q] \/ req'[q] = IdleReq \/ req'[q].op = "rerun"
    BY <1>0, <2>3 DEF RerunJob, ReqRow
  <2>4. ~\E j \in Job : AbandonJob(r, j) \/ PreviousJob(r, j)
    BY <1>0 DEF AbandonJob, PreviousJob
  <2>5. ~(PreviousStop(r) \/ PreviousReload(r) \/ PreviousSave(r) \/ PreviousTask(r))
    BY <1>0 DEF PreviousStop, PreviousReload, PreviousSave, PreviousTask
  <2> QED BY <1>3, <2>1, <2>2, <2>3, <2>4, <2>5 DEF RequestStep
<1>4. ASSUME NEW r \in Req, RequestBegins(r)
      PROVE  \/ req'[q] = req[q] \/ req'[q].op = "rerun"
             \/ CancelRead(q) /\ req'[q].op = "cancel"
             \/ ApproveRead(q) /\ req'[q].op = "approve"
  <2>1. CASE CancelRead(r) \/ ApproveRead(r)
    BY <1>0, <2>1 DEF CancelRead, ApproveRead, ReadJobs, Enter, IdleReq
  <2>2. ASSUME NEW target \in 0 .. NumJobs, RerunStart(r, target) PROVE req'[q] = req[q] \/ req'[q].op = "rerun"
    BY <1>0, <2>2 DEF RerunStart, Enter, Spend, IdleReq
  <2>3. ~AbandonFind(r) /\ ~PreviousRead(r)
    BY <1>0 DEF AbandonFind, PreviousRead, Enter, Spend
  <2> QED BY <1>4, <2>1, <2>2, <2>3 DEF RequestBegins
<1>5. CASE Crash
  BY <1>5 DEF Crash
<1> QED BY <1>1, <1>2, <1>3, <1>4, <1>5 DEF Next, vars

LEMMA QuietNext ==
  ASSUME SafetyInv, [Next]_vars
  PROVE  QuietInv'
<1>0. TypeInv /\ TypeOK /\ {"abandon", "previous"} \subseteq Op
  BY DEF SafetyInv, TypeInv, Op
<1>1. left["abandon"] = 0 /\ left["previous"] = 0
  BY DEF SafetyInv, QuietInv
<1>2. left'["abandon"] = 0 /\ left'["previous"] = 0 /\ ~Spend("abandon") /\ ~Spend("previous")
  BY <1>0, <1>1, LeftFalls DEF TypeOK
<1>3. ASSUME NEW r \in Req PROVE req'[r].op \notin {"abandon", "previous"}
  <2>1. req[r].op \notin {"abandon", "previous"}
    BY DEF SafetyInv, QuietInv
  <2> QED BY <1>0, <1>2, <2>1, OpChange DEF Stays, Begins
<1> QED BY <1>2, <1>3 DEF QuietInv

(* A step that changes a job makes every copy of the run out of date, and  *)
(* only Approve's reading makes one of the current version.                *)
LEMMA FreshChange ==
  ASSUME SafetyInv, [Next]_vars
  PROVE  \/ fresh' = {}
         \/ UNCHANGED jobs /\ \A r \in fresh' : r \in fresh \/ ApproveRead(r)
<1>0. \A r \in Req : req[r].op \notin {"abandon", "previous"}
  BY DEF SafetyInv, QuietInv
<1> DEFINE Goal == \/ fresh' = {}
                   \/ UNCHANGED jobs /\ \A r \in fresh' : r \in fresh \/ ApproveRead(r)
<1>1. ASSUME NEW t \in TaskId, TaskStep(t) PROVE Goal
  BY <1>1 DEF TaskStep, CreateTask, ReportResult, EmitJobsIfReady, EmitFails, StopZombie, UpdateRunJobs
<1>2. ASSUME NEW w \in Worker, WorkerStep(w) PROVE Goal
  BY <1>2 DEF WorkerStep, EmitterPop, EmitterRead, EmitterResolve, EmitterUpdate, UpdateRunJobs
<1>3. ASSUME NEW r \in Req, RequestStep(r) PROVE Goal
  BY <1>0, <1>3 DEF RequestStep, CancelTx, ApproveTx, RerunRead, RerunJob, AbandonJob, PreviousJob,
                    PreviousStop, PreviousReload, PreviousSave, PreviousTask, UpdateRunJobs
<1>4. ASSUME NEW r \in Req, RequestBegins(r) PROVE Goal
  BY <1>4 DEF RequestBegins, CancelRead, ApproveRead, RerunStart, AbandonFind, PreviousRead
<1> QED BY <1>1, <1>2, <1>3, <1>4 DEF Next, vars, Crash

LEMMA SnapIsFreshNext ==
  ASSUME SafetyInv, [Next]_vars
  PROVE  SnapIsFresh'
<1>0. /\ TypeOK /\ SnapIsFresh /\ fresh \subseteq Req
      /\ req \in [Req -> ReqRow]
  BY DEF SafetyInv, TypeInv, TypeOK, ReqRow
<1>1. SUFFICES ASSUME UNCHANGED jobs, NEW r \in fresh', r \in fresh \/ ApproveRead(r), req'[r].op = "approve"
               PROVE  req'[r].snap = jobs
  BY FreshChange DEF SnapIsFresh
<1>2. r \in Req
  BY <1>0, TypeNext DEF SafetyInv, TypeOK
<1>3. CASE ApproveRead(r)
  BY <1>0, <1>2, <1>3 DEF ApproveRead, ReadJobs, Enter, IdleReq
<1>4. CASE ~ApproveRead(r)
  <2>1. req'[r] = req[r]
    BY <1>1, <1>2, <1>4, ReqChange DEF IdleReq
  <2> QED BY <1>0, <1>1, <1>4, <2>1 DEF SnapIsFresh
<1> QED BY <1>3, <1>4

LEMMA SafetyNext ==
  ASSUME SafetyInv, [Next]_vars
  PROVE  SafetyInv'
<1>0. TypeInv /\ RunningTaskOwnsJob /\ TasksBegun /\ QuietInv
  BY DEF SafetyInv
<1>1. TypeInv'
  BY <1>0, TypeNext, UpdatesDecidedNext, SavesStatusNext DEF TypeInv
<1>2. RunningTaskOwnsJob' /\ TasksBegun'
  <2>1. ASSUME NEW t \in TaskId, TaskStep(t) PROVE RunningTaskOwnsJob' /\ TasksBegun'
    BY <2>1, TaskStepSafe
  <2>2. ASSUME NEW w \in Worker, WorkerStep(w) PROVE RunningTaskOwnsJob' /\ TasksBegun'
    <3>1. CASE EmitterUpdate(w)
      BY <3>1, EmitterUpdateSafe
    <3>2. CASE EmitterPop(w) \/ EmitterRead(w) \/ EmitterResolve(w)
      BY <1>0, <3>2, UnchangedRows DEF EmitterPop, EmitterRead, EmitterResolve
    <3> QED BY <2>2, <3>1, <3>2 DEF WorkerStep
  <2>3. ASSUME NEW r \in Req, RequestStep(r) PROVE RunningTaskOwnsJob' /\ TasksBegun'
    BY <2>3, RequestStepSafe
  <2>4. ASSUME NEW r \in Req, RequestBegins(r) PROVE RunningTaskOwnsJob' /\ TasksBegun'
    BY <1>0, <2>4, UnchangedRows DEF RequestBegins, CancelRead, ApproveRead, RerunStart, AbandonFind, PreviousRead
  <2>5. CASE Crash \/ UNCHANGED vars
    BY <1>0, <2>5, UnchangedRows DEF Crash, vars
  <2> QED BY <2>1, <2>2, <2>3, <2>4, <2>5 DEF Next
<1> QED BY <1>1, <1>2, QuietNext, SnapIsFreshNext DEF SafetyInv

LEMMA SafetyInductive == Quiet => (Spec => []SafetyInv)
<1> SUFFICES ASSUME Quiet PROVE Spec => []SafetyInv
  OBVIOUS
<1>1. Init => SafetyInv
  BY SafetyInit DEF Quiet, Init
<1>2. SafetyInv /\ [Next]_vars => SafetyInv'
  BY SafetyNext
<1> QED BY <1>1, <1>2, PTL DEF Spec

(* A job runs exactly while the task it points to does, for every workflow *)
(* and any number of runners, workers and requests.                        *)
THEOREM OwnershipHolds == Quiet => (Spec => []RunningTaskOwnsJob)
<1>1. SafetyInv => RunningTaskOwnsJob
  BY DEF SafetyInv
<1> QED BY <1>1, SafetyInductive, PTL

-----------------------------------------------------------------------------
(* The behaviors in which nobody reruns the run.                           *)
Once == \A b \in Budgets : b["rerun"] = 0
NoReruns == left["rerun"] = 0 /\ \A r \in Req : req[r].op # "rerun"

LEMMA NoRerunsInit == ASSUME Init, left["rerun"] = 0 PROVE NoReruns
<1>1. \A r \in Req : req[r].op = "idle"
  BY DEF Init, IdleReq
<1> QED BY <1>1 DEF NoReruns


LEMMA NoRerunsNext ==
  ASSUME TypeInv, NoReruns, [Next]_vars
  PROVE  NoReruns'
<1>0. TypeOK /\ left["rerun"] = 0 /\ "rerun" \in Op
  BY DEF TypeInv, NoReruns, Op
<1>1. left'["rerun"] = 0 /\ ~Spend("rerun")
  BY <1>0, LeftFalls DEF TypeOK
<1>2. ASSUME NEW r \in Req PROVE req'[r].op # "rerun"
  BY <1>1, OpChange DEF NoReruns, Stays, Begins
<1> QED BY <1>1, <1>2 DEF NoReruns

(* Without reruns a job keeps the task it was given, and a task its job.   *)
LEMMA RowsKept ==
  ASSUME TypeInv, NoReruns, [Next]_vars
  PROVE  \/ \E j \in Job, t \in TaskId : CreateTask(j, t)
         \/ /\ \A j \in Job : jobs'[j].task = jobs[j].task
            /\ \A t \in TaskId : /\ tasks'[t].job = tasks[t].job
                                 /\ tasks'[t].status = "running" => tasks[t].status = "running"
<1>0. /\ TypeOK /\ jobs \in [Job -> JobRow] /\ \A r \in Req : req[r].op # "rerun"
      /\ tasks \in [TaskId -> [job : Job \cup {0}, status : Final \cup {"running", Unknown}]]
  BY DEF TypeInv, TypeOK, NoReruns
<1> DEFINE JobsKept == \A j \in Job : jobs'[j].task = jobs[j].task
           TasksKept == \A t \in TaskId : /\ tasks'[t].job = tasks[t].job
                                          /\ tasks'[t].status = "running" => tasks[t].status = "running"
<1>1. (UNCHANGED jobs => JobsKept) /\ (UNCHANGED tasks => TasksKept)
  OBVIOUS
<1>2. ASSUME NEW S, NEW f, jobs' = [j \in Job |-> IF j \in S THEN [jobs[j] EXCEPT !.status = f[j]] ELSE jobs[j]]
      PROVE  JobsKept
  BY <1>0, <1>2 DEF JobRow
<1>3. ASSUME NEW S, NEW s, jobs' = [j \in Job |-> IF j \in S THEN [jobs[j] EXCEPT !.status = s] ELSE jobs[j]]
      PROVE  JobsKept
  BY <1>0, <1>3 DEF JobRow
<1>4. ASSUME NEW k, NEW s, jobs' = [jobs EXCEPT ![k].status = s]
      PROVE  JobsKept
  BY <1>0, <1>4 DEF JobRow
<1>5. ASSUME NEW k, NEW s \in Final, tasks' = [tasks EXCEPT ![k].status = s]
      PROVE  TasksKept
  <2>1. s # "running"
    BY Statuses
  <2> QED BY <1>0, <1>5, <2>1
<1>6. ASSUME NEW S, NEW s \in Final, tasks' = StoppedTasks(S, s)
      PROVE  TasksKept
  <2>1. s # "running"
    BY Statuses
  <2> QED BY <1>0, <1>6, <2>1 DEF StoppedTasks
<1> HIDE DEF JobsKept, TasksKept
<1>7. ASSUME NEW t \in TaskId, TaskStep(t), \A j \in Job : ~CreateTask(j, t) PROVE JobsKept /\ TasksKept
  <2>1. ASSUME NEW result \in Results, ReportResult(t, result) PROVE JobsKept /\ TasksKept
    <3>1. result \in Final
      BY WorkflowAssumption DEF WorkflowAssumption
    <3> QED BY <1>1, <1>4, <1>5, <2>1, <3>1 DEF ReportResult, UpdateRunJobs
  <2>2. CASE EmitJobsIfReady(t) \/ EmitFails(t)
    BY <1>1, <2>2 DEF EmitJobsIfReady, EmitFails
  <2>3. CASE StopZombie(t)
    BY <1>4, <1>6, <2>3 DEF StopZombie, UpdateRunJobs, Final
  <2> QED BY <1>7, <2>1, <2>2, <2>3 DEF TaskStep
<1>8. ASSUME NEW w \in Worker, WorkerStep(w) PROVE JobsKept /\ TasksKept
  <2>1. CASE EmitterUpdate(w)
    <3>1. \/ UNCHANGED jobs
          \/ jobs' = [j \in Job |-> IF j \in worker[w].updates THEN [jobs[j] EXCEPT !.status = worker[w].view[j]] ELSE jobs[j]]
      BY <2>1 DEF EmitterUpdate, UpdateRunJobs
    <3>2. UNCHANGED tasks
      BY <2>1 DEF EmitterUpdate
    <3> QED BY <1>1, <1>2, <3>1, <3>2
  <2>2. CASE EmitterPop(w) \/ EmitterRead(w) \/ EmitterResolve(w)
    BY <1>1, <2>2 DEF EmitterPop, EmitterRead, EmitterResolve
  <2> QED BY <1>8, <2>1, <2>2 DEF WorkerStep
<1>9. ASSUME NEW r \in Req, RequestStep(r) PROVE JobsKept /\ TasksKept
  <2>1. CASE CancelTx(r)
    <3>1. PICK hit, stopped :
             \/ /\ tasks' = StoppedTasks(stopped, "cancelled")
                /\ UpdateRunJobs([j \in Job |-> IF j \in hit THEN [jobs[j] EXCEPT !.status = "cancelled"] ELSE jobs[j]])
             \/ UNCHANGED <<jobs, tasks, run, fresh>>
      BY <2>1 DEF CancelTx
    <3>2. "cancelled" \in Final
      BY DEF Final
    <3> QED BY <1>1, <1>3, <1>6, <3>1, <3>2 DEF UpdateRunJobs
  <2>2. CASE ApproveTx(r)
    <3>1. PICK start :
             \/ jobs' = [j \in Job |-> IF j \in start THEN [jobs[j] EXCEPT !.status = "waiting"] ELSE jobs[j]]
             \/ UNCHANGED jobs
      BY <2>2 DEF ApproveTx
    <3>2. UNCHANGED tasks
      BY <2>2 DEF ApproveTx
    <3> QED BY <1>1, <1>3, <3>1, <3>2
  <2>3. CASE RerunRead(r)
    BY <1>1, <2>3 DEF RerunRead
  <2>4. ASSUME NEW j \in Job, AbandonJob(r, j) PROVE JobsKept /\ TasksKept
    BY <1>1, <1>4, <2>4 DEF AbandonJob, UpdateRunJobs
  <2>5. ASSUME NEW j \in Job, PreviousJob(r, j) PROVE JobsKept /\ TasksKept
    <3>1. (UNCHANGED jobs \/ jobs' = [jobs EXCEPT ![j].status = "cancelled"]) /\ UNCHANGED tasks
      BY <2>5, Zenon DEF PreviousJob
    <3> QED BY <1>1, <1>4, <3>1
  <2>6. CASE PreviousStop(r) \/ PreviousReload(r) \/ PreviousSave(r)
    BY <1>1, <1>4, <2>6 DEF PreviousStop, PreviousReload, PreviousSave
  <2>7. CASE PreviousTask(r)
    BY <1>1, <1>5, <2>7 DEF PreviousTask, Final
  <2>8. \A j \in Job : ~RerunJob(r, j)
    BY <1>0 DEF RerunJob
  <2> QED BY <1>9, <2>1, <2>2, <2>3, <2>4, <2>5, <2>6, <2>7, <2>8 DEF RequestStep
<1>10. ASSUME NEW r \in Req, RequestBegins(r) PROVE JobsKept /\ TasksKept
  BY <1>1, <1>10 DEF RequestBegins, CancelRead, ApproveRead, RerunStart, AbandonFind, PreviousRead
<1>11. CASE Crash \/ UNCHANGED vars
  BY <1>1, <1>11 DEF Crash, vars
<1> QED BY <1>7, <1>8, <1>9, <1>10, <1>11 DEF Next, JobsKept, TasksKept

(* The job of a task points back to it.                                    *)
PointsBack ==
  \A t \in TaskId : /\ tasks[t].job # 0 => jobs[tasks[t].job].task = t
                    /\ tasks[t].status = "running" => tasks[t].job # 0

LEMMA PointsBackNext ==
  ASSUME TypeInv, NoReruns, PointsBack, [Next]_vars
  PROVE  PointsBack'
<1>0. /\ jobs \in [Job -> JobRow]
      /\ tasks \in [TaskId -> [job : Job \cup {0}, status : Final \cup {"running", Unknown}]]
  BY DEF TypeInv, TypeOK
<1>1. ASSUME NEW j \in Job, NEW t \in TaskId, CreateTask(j, t) PROVE PointsBack'
  <2>1. /\ tasks' = [tasks EXCEPT ![t] = [job |-> j, status |-> "running"]]
        /\ jobs' = [jobs EXCEPT ![j] = [status |-> "running", task |-> t]]
        /\ jobs[j].task = 0
    BY <1>1 DEF CreateTask, UpdateRunJobs
  <2>2. \A u \in TaskId : tasks[u].job # j
    <3>1. \A u \in TaskId : u # 0
      BY DEF TaskId
    <3>2. j # 0
      BY DEF Job
    <3> QED BY <2>1, <3>1, <3>2 DEF PointsBack
  <2>3. j # 0
    BY DEF Job
  <2>4. ASSUME NEW u \in TaskId
        PROVE  /\ tasks'[u].job # 0 => jobs'[tasks'[u].job].task = u
               /\ tasks'[u].status = "running" => tasks'[u].job # 0
    <3>1. CASE u = t
      BY <1>0, <2>1, <2>3, <3>1
    <3>2. CASE u # t
      <4>1. tasks'[u] = tasks[u]
        BY <1>0, <2>1, <3>2
      <4>2. tasks[u].job # 0 => jobs'[tasks[u].job] = jobs[tasks[u].job]
        BY <1>0, <2>1, <2>2
      <4> QED BY <4>1, <4>2 DEF PointsBack
    <3> QED BY <3>1, <3>2
  <2> QED BY <2>4 DEF PointsBack
<1>2. CASE /\ \A j \in Job : jobs'[j].task = jobs[j].task
           /\ \A t \in TaskId : /\ tasks'[t].job = tasks[t].job
                                /\ tasks'[t].status = "running" => tasks[t].status = "running"
  <2>1. \A t \in TaskId : tasks[t].job \in Job \cup {0}
    BY <1>0
  <2> QED BY <1>2, <2>1 DEF PointsBack
<1> QED BY <1>1, <1>2, RowsKept

(* Before the approval nothing has moved but what Cancel, the sweep of     *)
(* abandoned jobs or CancelPreviousJobs have ended, and no handler has     *)
(* seen a task.                                                            *)
Untouched ==
  run.needApproval =>
    /\ \A t \in TaskId : tasks[t] = NoTask /\ report[t] = "none"
    /\ ~queued /\ \A w \in Worker : worker[w].pc = "idle"
    /\ \A j \in Job : jobs[j].status \in {"blocked", "cancelled"} /\ jobs[j].task = 0
    /\ \A r \in Req : \A j \in Job : req[r].snap[j].task = 0

(* CancelPreviousJobs is at one of the jobs, past its choice.              *)
CurIsJob == \A r \in Req : req[r].pc \in {"stop", "reload", "save", "task"} => req[r].cur \in Job

AtWork == {"stop", "reload", "save", "task"}

LEMMA RequestHolds ==
  ASSUME TypeInv, CurIsJob, NEW r \in Req, RequestStep(r)
  PROVE  /\ req'[r].pc \in AtWork => req'[r].cur \in Job
         /\ req'[r].snap \in {req[r].snap, jobs, IdleReq.snap}
<1>0. req \in [Req -> ReqRow] /\ req[r] \in ReqRow
  BY DEF TypeInv, TypeOK, ReqRow
<1> DEFINE Holds == /\ req'[r].pc \in AtWork => req'[r].cur \in Job
                    /\ req'[r].snap \in {req[r].snap, jobs, IdleReq.snap}
<1>1. ASSUME NEW S, Finish(r) \/ Continue(r, S) PROVE Holds
  <2>1. CASE Finish(r)
    BY <1>0, <2>1 DEF Finish, IdleReq, AtWork
  <2>2. CASE S = {} /\ Continue(r, S)
    BY <1>0, <2>2 DEF Continue, IdleReq, AtWork
  <2>3. CASE S # {} /\ Continue(r, S)
    BY <1>0, <2>3 DEF Continue, ReqRow, AtWork
  <2> QED BY <1>1, <2>1, <2>2, <2>3
<1>2. ASSUME req[r].pc \in AtWork, NEW p, req' = [req EXCEPT ![r].pc = p] PROVE Holds
  BY <1>0, <1>2 DEF ReqRow, AtWork, CurIsJob
<1>3. CASE CancelTx(r) \/ ApproveTx(r)
  BY <1>1, <1>3 DEF CancelTx, ApproveTx
<1>4. CASE RerunRead(r)
  BY <1>0, <1>4 DEF RerunRead, ReqRow, AtWork
<1>5. ASSUME NEW j \in Job, RerunJob(r, j) \/ AbandonJob(r, j) PROVE Holds
  <2>1. req[r].pc = "jobs"
    BY <1>5 DEF RerunJob, AbandonJob
  <2>2. PICK S : req' = [req EXCEPT ![r] = IF S = {} THEN IdleReq ELSE [@ EXCEPT !.todo = S]]
    BY <1>5 DEF RerunJob, AbandonJob
  <2> QED BY <1>0, <2>1, <2>2 DEF IdleReq, ReqRow, AtWork
<1>6. ASSUME NEW j \in Job, PreviousJob(r, j) PROVE Holds
  <2>1. CASE req' = [req EXCEPT ![r].pc = "reload", ![r].cur = j, ![r].todo = @ \ {j}]
    BY <1>0, <2>1 DEF ReqRow
  <2>2. CASE req' = [req EXCEPT ![r].pc = "stop", ![r].cur = j, ![r].todo = @ \ {j}]
    BY <1>0, <2>2 DEF ReqRow
  <2> QED BY <1>1, <1>6, <2>1, <2>2, PreviousJobReq
<1>7. CASE PreviousStop(r)
  BY <1>2, <1>7 DEF PreviousStop, AtWork
<1>8. CASE PreviousReload(r)
  BY <1>0, <1>8 DEF PreviousReload, ReqRow, AtWork, CurIsJob
<1>9. CASE PreviousSave(r) \/ PreviousTask(r)
  <2>1. \/ Finish(r) \/ Continue(r, req[r].todo)
        \/ req' = [req EXCEPT ![r].pc = "task"]
    BY <1>9, Zenon DEF PreviousSave, PreviousTask
  <2>2. req[r].pc \in AtWork
    BY <1>9 DEF PreviousSave, PreviousTask, AtWork
  <2> QED BY <1>1, <1>2, <2>1, <2>2
<1> QED BY <1>3, <1>4, <1>5, <1>6, <1>7, <1>8, <1>9 DEF RequestStep

LEMMA HeldNext ==
  ASSUME TypeInv, CurIsJob, [Next]_vars, NEW q \in Req
  PROVE  /\ req'[q].pc \in AtWork => req'[q].cur \in Job
         /\ req'[q].snap \in {req[q].snap, jobs, IdleReq.snap}
<1> DEFINE Holds == /\ req'[q].pc \in AtWork => req'[q].cur \in Job
                    /\ req'[q].snap \in {req[q].snap, jobs, IdleReq.snap}
<1>0. req \in [Req -> ReqRow]
  BY DEF TypeInv, TypeOK, ReqRow
<1>1. CASE req'[q] = req[q]
  BY <1>1 DEF CurIsJob, AtWork
<1>2. ASSUME NEW t \in TaskId, TaskStep(t) PROVE UNCHANGED req
  BY <1>2 DEF TaskStep, CreateTask, ReportResult, EmitJobsIfReady, EmitFails, StopZombie
<1>3. ASSUME NEW w \in Worker, WorkerStep(w) PROVE UNCHANGED req
  BY <1>3 DEF WorkerStep, EmitterPop, EmitterRead, EmitterResolve, EmitterUpdate
<1>4. ASSUME NEW r \in Req, RequestStep(r) PROVE Holds
  BY <1>1, <1>4, StepOp, RequestHolds
<1>5. ASSUME NEW r \in Req, RequestBegins(r) PROVE Holds
  <2>1. CASE q # r
    BY <1>1, <1>5, <2>1, BeginOp DEF Begins
  <2>2. CASE q = r
    <3>1. CASE CancelRead(q) \/ ApproveRead(q)
      BY <1>0, <3>1 DEF CancelRead, ApproveRead, ReadJobs, Enter, IdleReq, AtWork
    <3>2. ASSUME NEW target \in 0 .. NumJobs, RerunStart(q, target) PROVE Holds
      BY <1>0, <3>2 DEF RerunStart, Enter, IdleReq, AtWork
    <3>3. CASE AbandonFind(q)
      BY <1>0, <3>3 DEF AbandonFind, Enter, IdleReq, AtWork
    <3>4. CASE PreviousRead(q)
      BY <1>0, <3>4 DEF PreviousRead, Enter, IdleReq, AtWork
    <3> QED BY <1>5, <2>2, <3>1, <3>2, <3>3, <3>4 DEF RequestBegins
  <2> QED BY <2>1, <2>2
<1>6. CASE Crash
  BY <1>6 DEF Crash, IdleReq, AtWork
<1> QED BY <1>1, <1>2, <1>3, <1>4, <1>5, <1>6 DEF Next, vars

LEMMA CurIsJobNext ==
  ASSUME TypeInv, CurIsJob, [Next]_vars
  PROVE  CurIsJob'
BY HeldNext DEF CurIsJob, AtWork

(* Nobody but Approve, on a current copy, ends the wait for the approval.  *)
LEMMA ApprovedBy ==
  ASSUME TypeInv, [Next]_vars
  PROVE  \/ run'.needApproval = run.needApproval
         \/ run'.needApproval = FALSE /\ \E r \in Req : ApproveTx(r) /\ VersionMatches(r)
<1>0. run \in [status : Status, needApproval : BOOLEAN]
  BY DEF TypeInv, TypeOK
<1> DEFINE Goes == run'.needApproval = run.needApproval
<1>1. ASSUME NEW js, UpdateRunJobs(js) PROVE Goes
  BY <1>0, <1>1 DEF UpdateRunJobs
<1>2. ASSUME UNCHANGED run PROVE Goes
  BY <1>2
<1>3. ASSUME NEW t \in TaskId, TaskStep(t) PROVE Goes
  BY <1>1, <1>2, <1>3 DEF TaskStep, CreateTask, ReportResult, EmitJobsIfReady, EmitFails, StopZombie
<1>4. ASSUME NEW w \in Worker, WorkerStep(w) PROVE Goes
  BY <1>1, <1>2, <1>4 DEF WorkerStep, EmitterPop, EmitterRead, EmitterResolve, EmitterUpdate
<1>5. ASSUME NEW r \in Req, RequestStep(r)
      PROVE  Goes \/ (run'.needApproval = FALSE /\ ApproveTx(r) /\ VersionMatches(r))
  <2>1. CASE ApproveTx(r)
    <3>1. CASE VersionMatches(r)
      BY <2>1, <3>1 DEF ApproveTx
    <3>2. CASE ~VersionMatches(r)
      BY <1>2, <2>1, <3>2 DEF ApproveTx
    <3> QED BY <2>1, <3>1, <3>2
  <2>2. CASE PreviousSave(r)
    BY <1>0, <2>2 DEF PreviousSave
  <2>3. CASE CancelTx(r) \/ RerunRead(r) \/ \E j \in Job : RerunJob(r, j) \/ AbandonJob(r, j)
    BY <1>1, <1>2, <2>3 DEF CancelTx, RerunRead, RerunJob, AbandonJob
  <2>4. CASE PreviousStop(r) \/ PreviousReload(r) \/ PreviousTask(r) \/ \E j \in Job : PreviousJob(r, j)
    BY <1>2, <2>4 DEF PreviousStop, PreviousReload, PreviousTask, PreviousJob
  <2> QED BY <1>5, <2>1, <2>2, <2>3, <2>4 DEF RequestStep
<1>6. ASSUME NEW r \in Req, RequestBegins(r) PROVE Goes
  BY <1>2, <1>6 DEF RequestBegins, CancelRead, ApproveRead, RerunStart, AbandonFind, PreviousRead
<1> QED BY <1>2, <1>3, <1>4, <1>5, <1>6 DEF Next, Crash, vars

LEMMA ApprovalGoes ==
  ASSUME TypeInv, [Next]_vars, run'.needApproval
  PROVE  run.needApproval
BY ApprovedBy

LEMMA UntouchedNext ==
  ASSUME TypeInv, NoReruns, CurIsJob, Untouched, [Next]_vars
  PROVE  Untouched'
<1> SUFFICES ASSUME run'.needApproval
             PROVE  /\ \A t \in TaskId : tasks'[t] = NoTask /\ report'[t] = "none"
                    /\ ~queued' /\ \A w \in Worker : worker'[w].pc = "idle"
                    /\ \A j \in Job : jobs'[j].status \in {"blocked", "cancelled"} /\ jobs'[j].task = 0
                    /\ \A r \in Req : \A j \in Job : req'[r].snap[j].task = 0
  BY DEF Untouched
<1>0. /\ TypeOK /\ \A r \in Req : req[r].op # "rerun"
      /\ jobs \in [Job -> JobRow] /\ req \in [Req -> ReqRow]
      /\ tasks \in [TaskId -> [job : Job \cup {0}, status : Final \cup {"running", Unknown}]]
  BY DEF TypeInv, TypeOK, NoReruns, ReqRow
<1>1. /\ \A t \in TaskId : tasks[t] = NoTask /\ report[t] = "none" /\ tasks[t].status # "running"
      /\ ~queued /\ \A w \in Worker : worker[w].pc = "idle"
      /\ \A j \in Job : jobs[j].status \in {"blocked", "cancelled"} /\ jobs[j].task = 0
      /\ \A r \in Req : \A j \in Job : req[r].snap[j].task = 0
  <2>1. run.needApproval
    BY ApprovalGoes
  <2> QED BY <2>1 DEF Untouched, NoTask, Unknown
<1>2. \A t \in TaskId : ~TaskStep(t)
  BY <1>1 DEF TaskStep, CreateTask, ReportResult, EmitJobsIfReady, EmitFails, StopZombie
<1>3. \A w \in Worker : ~WorkerStep(w)
  BY <1>1 DEF WorkerStep, EmitterPop, EmitterRead, EmitterResolve, EmitterUpdate
<1> DEFINE OnlyCancelled == \A j \in Job : jobs'[j].status \in {jobs[j].status, "cancelled"}
<1>4. ASSUME NEW S, jobs' = [j \in Job |-> IF j \in S THEN [jobs[j] EXCEPT !.status = "cancelled"] ELSE jobs[j]]
      PROVE  OnlyCancelled
  BY <1>0, <1>4 DEF JobRow
<1>5. ASSUME NEW k, jobs' = [jobs EXCEPT ![k].status = "cancelled"]
      PROVE  OnlyCancelled
  BY <1>0, <1>5 DEF JobRow
<1>6. UNCHANGED jobs => OnlyCancelled
  OBVIOUS
<1> HIDE DEF OnlyCancelled
<1>7. ASSUME NEW r \in Req, RequestStep(r) PROVE UNCHANGED <<queued, worker, report, tasks>> /\ OnlyCancelled
  <2>1. CASE CancelTx(r)
    <3>1. \A S : StillRunning(S) = {}
      BY <1>1 DEF StillRunning
    <3>2. StoppedTasks({}, "cancelled") = tasks
      BY <1>0 DEF StoppedTasks
    <3>3. UNCHANGED <<queued, worker, report, tasks>>
      BY <2>1, <3>1, <3>2 DEF CancelTx
    <3>4. PICK hit :
             \/ UpdateRunJobs([j \in Job |-> IF j \in hit THEN [jobs[j] EXCEPT !.status = "cancelled"] ELSE jobs[j]])
             \/ UNCHANGED jobs
      BY <2>1 DEF CancelTx
    <3> QED BY <1>4, <1>6, <3>3, <3>4 DEF UpdateRunJobs
  <2>2. CASE ApproveTx(r)
    <3>1. UNCHANGED <<queued, worker, report, tasks>>
      BY <2>2 DEF ApproveTx
    <3>2. UNCHANGED jobs
      <4>1. CASE VersionMatches(r)
        <5>1. run'.needApproval = FALSE
          BY <2>2, <4>1 DEF ApproveTx
        <5> QED BY <5>1
      <4> QED BY <2>2, <4>1 DEF ApproveTx
    <3> QED BY <1>6, <3>1, <3>2
  <2>3. CASE RerunRead(r) \/ PreviousReload(r) \/ PreviousSave(r)
    BY <1>6, <2>3 DEF RerunRead, PreviousReload, PreviousSave
  <2>4. ASSUME NEW j \in Job, AbandonJob(r, j) PROVE UNCHANGED <<queued, worker, report, tasks>> /\ OnlyCancelled
    BY <1>5, <2>4 DEF AbandonJob, UpdateRunJobs
  <2>5. ASSUME NEW j \in Job, PreviousJob(r, j) PROVE UNCHANGED <<queued, worker, report, tasks>> /\ OnlyCancelled
    <3>1. (UNCHANGED jobs \/ jobs' = [jobs EXCEPT ![j].status = "cancelled"]) /\ UNCHANGED <<queued, worker, report, tasks>>
      BY <2>5, Zenon DEF PreviousJob
    <3> QED BY <1>5, <1>6, <3>1
  <2>6. CASE PreviousStop(r)
    BY <1>5, <2>6 DEF PreviousStop
  <2>7. CASE PreviousTask(r)
    <3>1. req[r].cur \in Job
      BY <2>7 DEF PreviousTask, CurIsJob
    <3>2. req[r].snap[req[r].cur].task = 0
      BY <1>1, <3>1
    <3>3. tasks' = [tasks EXCEPT ![0].status = "cancelled"]
      BY <2>7, <3>2 DEF PreviousTask
    <3>4. 0 \notin TaskId
      BY DEF TaskId
    <3>5. UNCHANGED tasks
      BY <1>0, <3>3, <3>4
    <3> QED BY <1>6, <2>7, <3>5 DEF PreviousTask
  <2>8. \A j \in Job : ~RerunJob(r, j)
    BY <1>0 DEF RerunJob
  <2> QED BY <1>7, <2>1, <2>2, <2>3, <2>4, <2>5, <2>6, <2>7, <2>8 DEF RequestStep
<1>8. ASSUME NEW r \in Req, RequestBegins(r) PROVE UNCHANGED <<queued, worker, report, tasks>> /\ OnlyCancelled
  BY <1>6, <1>8 DEF RequestBegins, CancelRead, ApproveRead, RerunStart, AbandonFind, PreviousRead
<1>9. /\ \A t \in TaskId : tasks'[t] = NoTask /\ report'[t] = "none"
      /\ ~queued' /\ \A w \in Worker : worker'[w].pc = "idle"
      /\ \A j \in Job : jobs'[j].status \in {"blocked", "cancelled"}
  <2>1. CASE UNCHANGED <<queued, worker, report, tasks>> /\ OnlyCancelled
    BY <1>1, <2>1 DEF OnlyCancelled
  <2>2. CASE Crash
    BY <1>1, <2>2 DEF Crash, IdleWorker
  <2> QED BY <1>2, <1>3, <1>6, <1>7, <1>8, <2>1, <2>2 DEF Next, vars
<1>10. \A j \in Job : jobs'[j].task = 0
  <2>1. \A j \in Job, t \in TaskId : ~CreateTask(j, t)
    BY <1>1 DEF CreateTask
  <2> QED BY <1>1, <2>1, RowsKept
<1>11. ASSUME NEW r \in Req, NEW j \in Job PROVE req'[r].snap[j].task = 0
  <2>1. req'[r].snap \in {req[r].snap, jobs, IdleReq.snap}
    BY HeldNext
  <2>2. IdleReq.snap[j].task = 0
    BY DEF IdleReq
  <2> QED BY <1>1, <2>1, <2>2
<1> QED BY <1>9, <1>10, <1>11

LEMMA UntouchedInit ==
  ASSUME Init
  PROVE  Untouched /\ CurIsJob /\ PointsBack
<1>1. PICK approval \in BOOLEAN : jobs = InsertedJobs(approval) /\ run.needApproval = approval
  BY WorkflowAssumption DEF WorkflowAssumption, Init
<1>2. \A j \in Job : jobs[j].task = 0 /\ (approval => jobs[j].status = "blocked")
  BY <1>1 DEF InsertedJobs, InitialJob
<1>3. \A w \in Worker : worker[w].pc = "idle"
  BY DEF Init, IdleWorker
<1>4. \A r \in Req : req[r].pc = "idle" /\ \A j \in Job : req[r].snap[j].task = 0
  BY DEF Init, IdleReq
<1>5. ~queued /\ \A t \in TaskId : tasks[t] = NoTask /\ report[t] = "none"
  BY DEF Init
<1>6. Untouched
  BY <1>1, <1>2, <1>3, <1>4, <1>5 DEF Untouched
<1>7. PointsBack
  BY <1>5 DEF PointsBack, NoTask, Unknown
<1> QED BY <1>4, <1>6, <1>7 DEF CurIsJob

(* The behaviors in which nobody cancels jobs: those of a run that waits   *)
(* for approval stay blocked, and Rerun resets none of them.               *)
Cancellers == {"cancel", "abandon", "previous"}
NoCancels == \A op \in Cancellers : left[op] = 0 /\ \A r \in Req : req[r].op # op
AllBlocked == run.needApproval => \A j \in Job : jobs[j].status = "blocked"

LEMMA NoCancelsNext ==
  ASSUME TypeInv, NoCancels, [Next]_vars
  PROVE  NoCancels'
<1> SUFFICES ASSUME NEW op \in Cancellers
             PROVE  left'[op] = 0 /\ \A r \in Req : req'[r].op # op
  BY DEF NoCancels
<1>0. TypeOK /\ left[op] = 0 /\ op \in Op /\ op # "idle" /\ \A r \in Req : req[r].op # op
  BY DEF TypeInv, NoCancels, Cancellers, Op
<1>1. left'[op] = 0 /\ ~Spend(op)
  BY <1>0, LeftFalls DEF TypeOK
<1>2. ASSUME NEW r \in Req PROVE req'[r].op # op
  BY <1>0, <1>1, OpChange DEF Stays, Begins
<1> QED BY <1>1, <1>2

LEMMA AllBlockedNext ==
  ASSUME TypeInv, CurIsJob, NoCancels, Untouched, AllBlocked, [Next]_vars
  PROVE  Untouched' /\ AllBlocked'
<1> SUFFICES ASSUME run'.needApproval
             PROVE  /\ \A t \in TaskId : tasks'[t] = NoTask /\ report'[t] = "none"
                    /\ ~queued' /\ \A w \in Worker : worker'[w].pc = "idle"
                    /\ \A j \in Job : jobs'[j].status = "blocked" /\ jobs'[j].task = 0
                    /\ \A r \in Req : \A j \in Job : req'[r].snap[j].task = 0
  BY DEF Untouched, AllBlocked
<1>0. \A r \in Req : req[r].op \notin {"cancel", "abandon", "previous"}
  BY DEF NoCancels, Cancellers
<1>1. /\ \A t \in TaskId : tasks[t] = NoTask /\ report[t] = "none" /\ tasks[t].status # "running"
      /\ ~queued /\ \A w \in Worker : worker[w].pc = "idle"
      /\ \A j \in Job : jobs[j].status = "blocked" /\ jobs[j].task = 0
      /\ \A r \in Req : \A j \in Job : req[r].snap[j].task = 0
  <2>1. run.needApproval
    BY ApprovalGoes
  <2> QED BY <2>1 DEF Untouched, AllBlocked, NoTask, Unknown
<1>2. \A t \in TaskId : ~TaskStep(t)
  BY <1>1 DEF TaskStep, CreateTask, ReportResult, EmitJobsIfReady, EmitFails, StopZombie
<1>3. \A w \in Worker : ~WorkerStep(w)
  BY <1>1 DEF WorkerStep, EmitterPop, EmitterRead, EmitterResolve, EmitterUpdate
<1>4. ASSUME NEW r \in Req, RequestStep(r) PROVE UNCHANGED <<jobs, tasks, queued, worker, report>>
  <2>1. CASE ApproveTx(r)
    <3>1. ~VersionMatches(r)
      <4>1. ASSUME VersionMatches(r) PROVE run'.needApproval = FALSE
        BY <2>1, <4>1 DEF ApproveTx
      <4> QED BY <4>1
    <3> QED BY <2>1, <3>1 DEF ApproveTx
  <2>2. CASE RerunRead(r)
    BY <2>2 DEF RerunRead
  <2>3. ASSUME NEW j \in Job, RerunJob(r, j) PROVE UNCHANGED <<jobs, tasks, queued, worker, report>>
    <3>1. ~Resets(req[r].snap[j].status, j)
      BY <1>1, Statuses DEF Resets, IsDone
    <3> QED BY <2>3, <3>1 DEF RerunJob
  <2>4. ~CancelTx(r) /\ \A j \in Job : ~AbandonJob(r, j) /\ ~PreviousJob(r, j)
    BY <1>0 DEF CancelTx, AbandonJob, PreviousJob
  <2>5. ~PreviousStop(r) /\ ~PreviousReload(r) /\ ~PreviousSave(r) /\ ~PreviousTask(r)
    BY <1>0 DEF PreviousStop, PreviousReload, PreviousSave, PreviousTask
  <2> QED BY <1>4, <2>1, <2>2, <2>3, <2>4, <2>5 DEF RequestStep
<1>5. ASSUME NEW r \in Req, RequestBegins(r) PROVE UNCHANGED <<jobs, tasks, queued, worker, report>>
  BY <1>5 DEF RequestBegins, CancelRead, ApproveRead, RerunStart, AbandonFind, PreviousRead
<1>6. /\ \A t \in TaskId : tasks'[t] = NoTask /\ report'[t] = "none"
      /\ ~queued' /\ \A w \in Worker : worker'[w].pc = "idle"
      /\ \A j \in Job : jobs'[j].status = "blocked" /\ jobs'[j].task = 0
  <2>1. CASE UNCHANGED <<jobs, tasks, queued, worker, report>>
    BY <1>1, <2>1
  <2>2. CASE Crash
    BY <1>1, <2>2 DEF Crash, IdleWorker
  <2> QED BY <1>2, <1>3, <1>4, <1>5, <2>1, <2>2 DEF Next, vars
<1>7. ASSUME NEW r \in Req, NEW j \in Job PROVE req'[r].snap[j].task = 0
  <2>1. req'[r].snap \in {req[r].snap, jobs, IdleReq.snap}
    BY HeldNext
  <2>2. IdleReq.snap[j].task = 0
    BY DEF IdleReq
  <2> QED BY <1>1, <2>1, <2>2
<1> QED BY <1>6, <1>7

(* No job of a run that waits for approval is given to a runner, whatever  *)
(* is approved, cancelled, abandoned or superseded meanwhile, and whatever *)
(* is rerun when nothing is cancelled.  A rerun resets a cancelled job of  *)
(* such a run to "waiting".                                                *)
RerunsUncancelled ==
  \A b \in Budgets : b["rerun"] = 0 \/ \A op \in Cancellers : b[op] = 0

THEOREM ApprovalRespectedHolds == RerunsUncancelled => (Spec => []ApprovalRespected)
<1> DEFINE Inv == CurIsJob /\ Untouched /\ (NoReruns \/ (NoCancels /\ AllBlocked))
<1> SUFFICES ASSUME RerunsUncancelled PROVE Spec => []ApprovalRespected
  OBVIOUS
<1>1. Init => Inv
  <2> SUFFICES ASSUME Init PROVE Inv
    OBVIOUS
  <2>1. CASE left["rerun"] = 0
    BY <2>1, UntouchedInit, NoRerunsInit
  <2>2. CASE \A op \in Cancellers : left[op] = 0
    <3>1. NoCancels
      BY <2>2 DEF NoCancels, Cancellers, Init, IdleReq
    <3>2. AllBlocked
      BY DEF AllBlocked, Init, InsertedJobs, InitialJob
    <3> QED BY <3>1, <3>2, UntouchedInit
  <2> QED BY <2>1, <2>2 DEF RerunsUncancelled, Init
<1>2. TypeInv /\ Inv /\ [Next]_vars => Inv'
  BY NoRerunsNext, CurIsJobNext, UntouchedNext, NoCancelsNext, AllBlockedNext
<1>3. Inv => ApprovalRespected
  BY DEF Untouched, ApprovalRespected
<1> QED BY <1>1, <1>2, <1>3, TypeCorrect, PTL DEF Spec

-----------------------------------------------------------------------------
(* A job without a task has not run.                                       *)
TaskLess == \A j \in Job : jobs[j].task = 0 => jobs[j].status \in {"blocked", "waiting", "skipped", "cancelled"}

NeededJobs(j) == {k \in Job : JobID[k] \in Needs[j]}
GoAhead(j, st) == \A k \in NeededJobs(j) : st[k] \in Final /\ (j \in Always \/ st[k] = "success")
Refused(j, st) ==
  /\ j \notin Always /\ \A k \in NeededJobs(j) : st[k] \in Final
  /\ \E k \in NeededJobs(j) : st[k] # "success"

(* What st says of the job follows from what it says of its needs.         *)
Justified(j, st) == (st[j] = "waiting" => GoAhead(j, st)) /\ (st[j] = "skipped" => Refused(j, st))

(* Who waits for a runner or was given to one had the go-ahead of its      *)
(* needs, and has it still.                                                *)
Ready == \A j \in Job : jobs[j].task # 0 \/ jobs[j].status = "waiting" => GoAhead(j, StatusOf(jobs))

(* An outcome that a job had when it was read; Cancel may change "skipped".*)
Since(seen, now) == now = seen \/ (seen = "skipped" /\ now = "cancelled")

(* What an emitter worker saw done is done, and it releases or skips a job *)
(* only on what it saw done or has skipped itself.                         *)
ViewsHold ==
  \A w \in Worker : worker[w].pc = "resolving" =>
    /\ \A k \in Job \ worker[w].updates : worker[w].view[k] \in Final => Since(worker[w].view[k], jobs[k].status)
    /\ \A j \in worker[w].updates : Justified(j, worker[w].view)

OutcomeInv == SafetyInv /\ NoReruns /\ TaskLess /\ Ready /\ ViewsHold
-----------------------------------------------------------------------------
(* How a step may move a job.                                              *)
Picked(j) == jobs[j].status = "waiting" /\ jobs'[j].status = "running"
Ended(j) == /\ jobs[j].status = "running" /\ jobs'[j].status \in Final
            /\ jobs'[j].task = jobs[j].task /\ jobs[j].task # 0
Resolved(j) == \E w \in Worker :
  /\ EmitterUpdate(w) /\ j \in worker[w].updates /\ jobs[j].status = "blocked"
  /\ \A k \in Job : IF k \in worker[w].updates THEN jobs'[k].status = worker[w].view[k] ELSE jobs'[k] = jobs[k]
  /\ worker[w].view[j] \in {"waiting", "skipped"} /\ jobs'[j].task = jobs[j].task
Dropped(j) == jobs[j].task = 0 /\ jobs'[j].task = 0 /\ jobs'[j].status = "cancelled"
Approved(j) == /\ jobs[j].status = "blocked" /\ jobs'[j].status = "waiting" /\ Needs[j] = {}
               /\ jobs'[j].task = jobs[j].task
Moves(j) == jobs'[j] = jobs[j] \/ Picked(j) \/ Ended(j) \/ Resolved(j) \/ Dropped(j) \/ Approved(j)
Reset(j) == /\ \E r \in Req : req[r].op = "rerun" /\ RerunJob(r, j)
            /\ jobs'[j].status \in {"blocked", "waiting"} /\ jobs'[j].task = 0

LEMMA TaskMoves ==
  ASSUME SafetyInv, NEW t \in TaskId, TaskStep(t)
  PROVE  \A j \in Job : Moves(j)
<1>0. TypeOK /\ RunningTaskOwnsJob /\ TasksBegun /\ jobs \in [Job -> JobRow]
  BY DEF SafetyInv, TypeInv, TypeOK
<1>1. ASSUME NEW s \in Final, tasks[t].status = "running", jobs' = [jobs EXCEPT ![tasks[t].job].status = s]
      PROVE  \A j \in Job : Moves(j)
  <2>1. /\ tasks[t].job \in Job /\ jobs[tasks[t].job].status = "running"
        /\ jobs[tasks[t].job].task = t /\ t # 0
    BY <1>0, <1>1, RunningTask DEF TaskId
  <2>2. \A j \in Job : j # tasks[t].job => jobs'[j] = jobs[j]
    BY <1>0, <1>1
  <2>3. Ended(tasks[t].job)
    BY <1>0, <1>1, <2>1 DEF Ended, JobRow
  <2> QED BY <2>2, <2>3 DEF Moves
<1>2. ASSUME NEW j \in Job, CreateTask(j, t) PROVE \A k \in Job : Moves(k)
  BY <1>0, <1>2 DEF CreateTask, UpdateRunJobs, Moves, Picked
<1>3. ASSUME NEW result \in Results, ReportResult(t, result) PROVE \A j \in Job : Moves(j)
  <2>1. result \in Final
    BY WorkflowAssumption DEF WorkflowAssumption
  <2>2. CASE IsDone(tasks[t].status)
    BY <1>3, <2>2 DEF ReportResult, Moves
  <2>3. CASE ~IsDone(tasks[t].status)
    <3>1. tasks[t].status = "running"
      BY <1>0, <1>3, <2>3 DEF ReportResult, TasksBegun, IsDone
    <3> QED BY <1>1, <1>3, <2>1, <2>3, <3>1 DEF ReportResult, UpdateRunJobs
  <2> QED BY <2>2, <2>3
<1>4. CASE EmitJobsIfReady(t) \/ EmitFails(t)
  BY <1>4 DEF EmitJobsIfReady, EmitFails, Moves
<1>5. CASE StopZombie(t)
  BY <1>1, <1>5 DEF StopZombie, UpdateRunJobs, Final
<1> QED BY <1>2, <1>3, <1>4, <1>5 DEF TaskStep

LEMMA WorkerMoves ==
  ASSUME SafetyInv, NEW w \in Worker, WorkerStep(w)
  PROVE  \A j \in Job : Moves(j)
<1>0. TypeOK /\ UpdatesDecided /\ jobs \in [Job -> JobRow]
  BY DEF SafetyInv, TypeInv, TypeOK
<1> DEFINE upd == worker[w].updates
<1>1. CASE EmitterUpdate(w) /\ ~UNCHANGED jobs
  <2>1. /\ \A j \in upd : jobs[j].status = "blocked"
        /\ jobs' = [j \in Job |-> IF j \in upd THEN [jobs[j] EXCEPT !.status = worker[w].view[j]] ELSE jobs[j]]
    BY <1>1 DEF EmitterUpdate, UpdateRunJobs
  <2>2. \A k \in Job : /\ IF k \in upd THEN jobs'[k].status = worker[w].view[k] ELSE jobs'[k] = jobs[k]
                       /\ jobs'[k].task = jobs[k].task
    BY <1>0, <2>1 DEF JobRow
  <2>3. ASSUME NEW j \in Job, j \in upd PROVE Resolved(j)
    BY <1>0, <1>1, <2>1, <2>2, <2>3 DEF Resolved, UpdatesDecided
  <2> QED BY <2>2, <2>3 DEF Moves
<1>2. CASE UNCHANGED jobs
  BY <1>2 DEF Moves
<1> QED BY <1>1, <1>2 DEF WorkerStep, EmitterPop, EmitterRead, EmitterResolve

LEMMA RequestMoves ==
  ASSUME SafetyInv, NEW r \in Req, RequestStep(r)
  PROVE  \A j \in Job : Moves(j) \/ Reset(j)
<1>0. /\ TypeOK /\ SnapIsFresh /\ RunningTaskOwnsJob /\ jobs \in [Job -> JobRow]
      /\ req[r].op \notin {"abandon", "previous"}
  BY DEF SafetyInv, QuietInv, TypeInv, TypeOK
<1>1. CASE CancelTx(r)
  <2> DEFINE snap == req[r].snap
             direct == {j \in LiveIn(snap) : snap[j].task = 0}
             stopped == StillRunning({snap[j].task : j \in LiveIn(snap)})
             hit == direct \cup {tasks[t].job : t \in stopped}
  <2>1. \/ UNCHANGED jobs
        \/ /\ Unpicked(direct)
           /\ jobs' = [j \in Job |-> IF j \in hit THEN [jobs[j] EXCEPT !.status = "cancelled"] ELSE jobs[j]]
    BY <1>1 DEF CancelTx, UpdateRunJobs
  <2>2. CASE UNCHANGED jobs
    BY <2>2 DEF Moves
  <2>3. CASE /\ Unpicked(direct)
             /\ jobs' = [j \in Job |-> IF j \in hit THEN [jobs[j] EXCEPT !.status = "cancelled"] ELSE jobs[j]]
    <3>1. ASSUME NEW t \in stopped
          PROVE  jobs[tasks[t].job].status = "running" /\ jobs[tasks[t].job].task # 0
      BY <1>0, RunningTask DEF StillRunning, TaskId
    <3>2. \A j \in direct : jobs[j].task = 0
      BY <2>3 DEF Unpicked
    <3> HIDE DEF direct, stopped
    <3>3. ASSUME NEW j \in Job PROVE Moves(j)
      <4>1. CASE j \notin hit
        BY <2>3, <4>1 DEF Moves
      <4>2. CASE j \in hit
        <5>1. jobs'[j].status = "cancelled" /\ jobs'[j].task = jobs[j].task
          BY <1>0, <2>3, <4>2 DEF JobRow
        <5> QED BY <3>1, <3>2, <4>2, <5>1 DEF Moves, Ended, Dropped, Final
      <4> QED BY <4>1, <4>2
    <3> QED BY <3>3
  <2> QED BY <2>1, <2>2, <2>3
<1>2. CASE ApproveTx(r)
  <2>1. CASE ~VersionMatches(r)
    BY <1>2, <2>1 DEF ApproveTx, Moves
  <2>2. CASE VersionMatches(r)
    <3> DEFINE start == {j \in Job : Needs[j] = {} /\ req[r].snap[j].status = "blocked"}
    <3>1. req[r].snap = jobs
      BY <1>0, <1>2, <2>2 DEF VersionMatches, SnapIsFresh, ApproveTx
    <3>2. /\ jobs' = [j \in Job |-> IF j \in start THEN [jobs[j] EXCEPT !.status = "waiting"] ELSE jobs[j]]
          /\ run'.needApproval = FALSE
      BY <1>2, <2>2 DEF ApproveTx
    <3>3. ASSUME NEW j \in Job PROVE Moves(j)
      <4>1. CASE j \in start
        BY <1>0, <3>1, <3>2, <4>1 DEF Moves, Approved, JobRow
      <4>2. CASE j \notin start
        BY <3>2, <4>2 DEF Moves
      <4> QED BY <4>1, <4>2
    <3> QED BY <3>3
  <2> QED BY <2>1, <2>2
<1>3. CASE RerunRead(r)
  BY <1>3 DEF RerunRead, Moves
<1>4. ASSUME NEW k \in Job, RerunJob(r, k) PROVE \A j \in Job : Moves(j) \/ Reset(j)
  <2>1. CASE UNCHANGED jobs
    BY <2>1 DEF Moves
  <2>2. ASSUME NEW s \in {"blocked", "waiting"}, jobs' = [jobs EXCEPT ![k] = [status |-> s, task |-> 0]]
        PROVE  \A j \in Job : Moves(j) \/ Reset(j)
    <3>1. \A j \in Job : j # k => jobs'[j] = jobs[j]
      BY <1>0, <2>2
    <3>2. jobs'[k] = [status |-> s, task |-> 0]
      BY <1>0, <2>2
    <3>3. req[r].op = "rerun"
      BY <1>4 DEF RerunJob
    <3>4. jobs'[k].status \in {"blocked", "waiting"} /\ jobs'[k].task = 0
      BY <3>2
    <3>5. Reset(k)
      BY <1>4, <3>3, <3>4 DEF Reset
    <3> QED BY <3>1, <3>5 DEF Moves
  <2>3. \/ UNCHANGED jobs
        \/ \E s \in {"blocked", "waiting"} : jobs' = [jobs EXCEPT ![k] = [status |-> s, task |-> 0]]
    BY <1>4 DEF RerunJob, UpdateRunJobs
  <2> QED BY <2>1, <2>2, <2>3
<1>5. ~\E j \in Job : AbandonJob(r, j) \/ PreviousJob(r, j)
  BY <1>0 DEF AbandonJob, PreviousJob
<1>6. ~(PreviousStop(r) \/ PreviousReload(r) \/ PreviousSave(r) \/ PreviousTask(r))
  BY <1>0 DEF PreviousStop, PreviousReload, PreviousSave, PreviousTask
<1> QED BY <1>1, <1>2, <1>3, <1>4, <1>5, <1>6 DEF RequestStep

LEMMA StepMovesOrResets ==
  ASSUME SafetyInv, [Next]_vars
  PROVE  \A j \in Job : Moves(j) \/ Reset(j)
<1>1. ASSUME NEW r \in Req, RequestBegins(r) PROVE UNCHANGED jobs
  BY <1>1 DEF RequestBegins, CancelRead, ApproveRead, RerunStart, AbandonFind, PreviousRead
<1>2. CASE Crash \/ UNCHANGED vars
  BY <1>2 DEF Crash, vars, Moves
<1>3. CASE UNCHANGED jobs
  BY <1>3 DEF Moves
<1> QED BY <1>1, <1>2, <1>3, TaskMoves, WorkerMoves, RequestMoves DEF Next

LEMMA StepMoves ==
  ASSUME SafetyInv, NoReruns, [Next]_vars
  PROVE  \A j \in Job : Moves(j)
<1>1. \A j \in Job : ~Reset(j)
  BY DEF NoReruns, Reset
<1> QED BY <1>1, StepMovesOrResets
-----------------------------------------------------------------------------
LEMMA TaskLessNext ==
  ASSUME SafetyInv, TaskLess, [Next]_vars
  PROVE  TaskLess'
<1>0. TypeOK /\ RunningTaskOwnsJob
  BY DEF SafetyInv, TypeInv
<1>1. RunningTaskOwnsJob'
  BY SafetyNext DEF SafetyInv
<1>2. ASSUME NEW j \in Job, jobs'[j].task = 0
      PROVE  jobs'[j].status \in {"blocked", "waiting", "skipped", "cancelled"}
  <2>1. CASE Picked(j)
    <3>1. PICK t \in TaskId : tasks'[t] = [job |-> j, status |-> "running"]
      BY <1>1, <2>1 DEF RunningTaskOwnsJob, Picked
    <3>2. tasks'[t].status = "running" /\ tasks'[t].job = j
      BY <3>1
    <3>3. jobs'[j] = [status |-> "running", task |-> t]
      BY <1>1, <3>2 DEF RunningTaskOwnsJob
    <3>4. t # 0
      BY DEF TaskId
    <3> QED BY <1>2, <3>3, <3>4
  <2>2. CASE jobs'[j] = jobs[j]
    BY <1>2, <2>2 DEF TaskLess
  <2>3. CASE Ended(j)
    BY <1>2, <2>3 DEF Ended
  <2>4. CASE Resolved(j)
    BY <2>4 DEF Resolved
  <2>5. CASE Dropped(j) \/ Approved(j) \/ Reset(j)
    BY <2>5 DEF Dropped, Approved, Reset
  <2> QED BY <2>1, <2>2, <2>3, <2>4, <2>5, StepMovesOrResets DEF Moves
<1> QED BY <1>2 DEF TaskLess

(* What is done stays as it is, or turns from skipped to cancelled, or is  *)
(* reset by a rerun.                                                       *)
LEMMA OutcomesStayOrReset ==
  ASSUME SafetyInv, TaskLess, [Next]_vars, NEW j \in Job, jobs[j].status \in Final
  PROVE  Since(jobs[j].status, jobs'[j].status) \/ Reset(j)
<1>1. jobs[j].status \notin {"waiting", "running", "blocked"}
  BY Statuses
<1>2. CASE Dropped(j)
  BY <1>1, <1>2 DEF Dropped, TaskLess, Since
<1>3. CASE jobs'[j] = jobs[j]
  BY <1>3 DEF Since
<1> QED BY <1>1, <1>2, <1>3, StepMovesOrResets DEF Moves, Picked, Ended, Resolved, Approved

LEMMA OutcomesStay ==
  ASSUME SafetyInv, NoReruns, TaskLess, [Next]_vars, NEW j \in Job, jobs[j].status \in Final
  PROVE  Since(jobs[j].status, jobs'[j].status)
BY OutcomesStayOrReset DEF NoReruns, Reset

(* A go-ahead is not taken back.                                           *)
LEMMA GoAheadStays ==
  ASSUME SafetyInv, NoReruns, TaskLess, [Next]_vars, NEW j \in Job, GoAhead(j, StatusOf(jobs))
  PROVE  GoAhead(j, StatusOf(jobs'))
<1>1. ASSUME NEW k \in NeededJobs(j)
      PROVE  jobs'[k].status \in Final /\ (j \in Always \/ jobs'[k].status = "success")
  <2>1. k \in Job
    BY DEF NeededJobs
  <2>2. jobs[k].status \in Final /\ (j \in Always \/ jobs[k].status = "success")
    BY <1>1, <2>1 DEF GoAhead, StatusOf
  <2> QED BY <2>1, <2>2, OutcomesStay DEF Since, Final
<1> QED BY <1>1 DEF GoAhead, StatusOf, NeededJobs

(* A verdict stays justified when its job and what was done of its needs   *)
(* stay, but for skipped needs that are cancelled.                         *)
LEMMA VerdictStays ==
  ASSUME NEW j \in Job, NEW st, NEW now, Justified(j, st), st[j] \in {"waiting", "skipped"},
         now[j] = st[j], \A k \in NeededJobs(j) : st[k] \in Final => Since(st[k], now[k])
  PROVE  Justified(j, now)
<1>1. CASE st[j] = "waiting"
  BY <1>1 DEF Justified, GoAhead, Since, Final
<1>2. CASE st[j] = "skipped"
  <2>1. /\ j \notin Always /\ \A k \in NeededJobs(j) : now[k] \in Final
        /\ \A k \in NeededJobs(j) : st[k] # "success" => now[k] # "success"
    BY <1>2 DEF Justified, Refused, Since, Final
  <2>2. Refused(j, now)
    BY <1>2, <2>1 DEF Justified, Refused
  <2> QED BY <1>2, <2>2 DEF Justified
<1> QED BY <1>1, <1>2

(* What an emitter makes of a job is justified by the rows: what the       *)
(* worker saw done still is, and what it has skipped it skips now.         *)
LEMMA ResolvedJustified ==
  ASSUME SafetyInv, ViewsHold, NEW j \in Job, Resolved(j)
  PROVE  Justified(j, StatusOf(jobs'))
<1>1. PICK w \in Worker :
        /\ EmitterUpdate(w) /\ j \in worker[w].updates
        /\ \A k \in Job : IF k \in worker[w].updates THEN jobs'[k].status = worker[w].view[k] ELSE jobs'[k] = jobs[k]
        /\ worker[w].view[j] \in {"waiting", "skipped"}
  BY DEF Resolved
<1>2. worker[w].pc = "resolving"
  BY <1>1 DEF EmitterUpdate
<1>3. Justified(j, worker[w].view)
  BY <1>1, <1>2 DEF ViewsHold
<1>4. ASSUME NEW k \in NeededJobs(j), worker[w].view[k] \in Final
      PROVE  Since(worker[w].view[k], StatusOf(jobs')[k])
  <2>1. k \in Job
    BY DEF NeededJobs
  <2>2. CASE k \in worker[w].updates
    BY <1>1, <2>1, <2>2 DEF Since, StatusOf
  <2>3. CASE k \notin worker[w].updates
    BY <1>1, <1>2, <1>4, <2>1, <2>3 DEF ViewsHold, StatusOf
  <2> QED BY <2>2, <2>3
<1>5. StatusOf(jobs')[j] = worker[w].view[j]
  BY <1>1 DEF StatusOf
<1> QED BY <1>1, <1>3, <1>4, <1>5, VerdictStays

LEMMA ReadyNext ==
  ASSUME SafetyInv, NoReruns, TaskLess, ViewsHold, Ready, [Next]_vars
  PROVE  Ready'
<1>1. ASSUME NEW j \in Job, jobs'[j].task # 0 \/ jobs'[j].status = "waiting"
      PROVE  GoAhead(j, StatusOf(jobs'))
  <2>1. CASE jobs'[j] = jobs[j] \/ Picked(j) \/ Ended(j)
    BY <1>1, <2>1, GoAheadStays DEF Ready, Picked, Ended
  <2>2. CASE Resolved(j)
    <3>1. CASE jobs'[j].status = "waiting"
      BY <2>2, <3>1, ResolvedJustified DEF Justified, StatusOf
    <3>2. CASE jobs'[j].status # "waiting"
      BY <1>1, <2>2, <3>2, GoAheadStays DEF Resolved, Ready
    <3> QED BY <3>1, <3>2
  <2>3. CASE Dropped(j)
    BY <1>1, <2>3 DEF Dropped
  <2>4. CASE Approved(j)
    BY <2>4 DEF Approved, GoAhead, NeededJobs
  <2> QED BY <2>1, <2>2, <2>3, <2>4, StepMoves DEF Moves
<1> QED BY <1>1 DEF Ready

LEMMA FinalKept ==
  ASSUME NEW st \in [Job -> Status \cup {Unknown}], NEW k \in Job, st[k] # "blocked"
  PROVE  Resolve(JobID, Needs, Always, st)[k] = st[k] /\ k \notin Decided(JobID, Needs, st)
BY WorkflowAssumption DEF WorkflowAssumption, Resolve, Decided

(* One pass of the resolver keeps what was seen done and decides on        *)
(* nothing else.                                                           *)
LEMMA PassHolds ==
  ASSUME NEW st \in [Job -> Status \cup {Unknown}], NEW j \in Decided(JobID, Needs, st)
  PROVE  Justified(j, Resolve(JobID, Needs, Always, st))
<1> DEFINE S == NeedStatuses(JobID, Needs, st, j)
           now == Resolve(JobID, Needs, Always, st)
<1>0. DOMAIN JobID = Job
  BY WorkflowAssumption DEF WorkflowAssumption
<1>1. j \in Job /\ AllNeedsDone(S)
  BY <1>0 DEF Decided
<1>2. now[j] = IF Released(S, j \in Always) THEN "waiting" ELSE "skipped"
  BY <1>0, <1>1 DEF Resolve
<1>3. S = {st[k] : k \in NeededJobs(j)}
  BY <1>0 DEF NeededJobs, NeedStatuses, NeededBy
<1>4. ASSUME NEW k \in NeededJobs(j) PROVE st[k] \in Final /\ now[k] = st[k]
  <2>1. k \in Job /\ st[k] \in Final
    BY <1>1, <1>3 DEF AllNeedsDone, NeededJobs
  <2> QED BY <2>1, FinalKept, Statuses
<1> HIDE DEF now, S
<1>5. CASE now[j] = "waiting"
  <2>1. j \in Always \/ AllNeedsSucceed(S)
    BY <1>2, <1>5 DEF Released
  <2>2. \A k \in NeededJobs(j) : j \in Always \/ st[k] = "success"
    BY <1>3, <1>4, <2>1 DEF AllNeedsSucceed, Final
  <2> QED BY <1>4, <1>5, <2>2 DEF Justified, GoAhead, now
<1>6. CASE now[j] = "skipped"
  <2>1. j \notin Always /\ ~AllNeedsSucceed(S)
    BY <1>1, <1>2, <1>6 DEF Released
  <2>2. \E k \in NeededJobs(j) : st[k] # "success"
    BY <1>3, <2>1 DEF AllNeedsSucceed
  <2> QED BY <1>4, <1>6, <2>1, <2>2 DEF Justified, Refused, now
<1> QED BY <1>2, <1>5, <1>6 DEF now

LEMMA ViewsHoldNext ==
  ASSUME SafetyInv, NoReruns, TaskLess, ViewsHold, [Next]_vars
  PROVE  ViewsHold'
<1> DEFINE Holds(w) ==
      worker'[w].pc = "resolving" =>
        /\ \A k \in Job \ worker'[w].updates :
             worker'[w].view[k] \in Final => Since(worker'[w].view[k], jobs'[k].status)
        /\ \A j \in worker'[w].updates : Justified(j, worker'[w].view)
<1>0. TypeOK /\ UpdatesDecided
  BY DEF SafetyInv, TypeInv
<1>1. ASSUME NEW w \in Worker, worker'[w] = worker[w] PROVE Holds(w)
  <2>1. SUFFICES ASSUME worker[w].pc = "resolving", NEW k \in Job \ worker[w].updates, worker[w].view[k] \in Final
                 PROVE  Since(worker[w].view[k], jobs'[k].status)
    BY <1>1 DEF ViewsHold
  <2>2. Since(worker[w].view[k], jobs[k].status)
    BY <2>1 DEF ViewsHold
  <2>3. jobs[k].status \in Final
    BY <2>1, <2>2 DEF Since, Final
  <2> QED BY <2>2, <2>3, OutcomesStay DEF Since
<1>2. ASSUME NEW v \in Worker, WorkerStep(v), NEW w \in Worker PROVE Holds(w)
  <2>0. w # v => worker'[w] = worker[w]
    BY <1>0, <1>2 DEF WorkerStep, EmitterPop, EmitterRead, EmitterResolve, EmitterUpdate, TypeOK
  <2>1. CASE w # v
    BY <1>1, <2>0, <2>1
  <2>2. CASE w = v /\ (EmitterPop(w) \/ EmitterUpdate(w))
    <3>1. worker'[w].pc # "resolving"
      BY <1>0, <2>2 DEF EmitterPop, EmitterUpdate, IdleWorker, TypeOK
    <3> QED BY <3>1
  <2>3. CASE w = v /\ EmitterRead(w)
    <3>1. worker'[w] = [pc |-> "resolving", view |-> StatusOf(jobs), updates |-> {}] /\ UNCHANGED jobs
      BY <1>0, <2>3 DEF EmitterRead, TypeOK
    <3> QED BY <3>1 DEF StatusOf, Since
  <2>4. CASE w = v /\ EmitterResolve(w)
    <3> DEFINE st == worker[w].view
    <3>1. st \in [Job -> Status \cup {Unknown}] /\ worker[w].updates \subseteq Job
      BY <1>0 DEF TypeOK
    <3>2. /\ worker'[w].view = Resolve(JobID, Needs, Always, st)
          /\ worker'[w].updates = worker[w].updates \cup Decided(JobID, Needs, st)
          /\ worker[w].pc = "resolving" /\ UNCHANGED jobs
      BY <1>0, <2>4 DEF EmitterResolve, TypeOK
    <3>3. ASSUME NEW k \in Job \ worker'[w].updates, worker'[w].view[k] \in Final
          PROVE  Since(worker'[w].view[k], jobs'[k].status)
      <4>1. worker'[w].view[k] = st[k] /\ k \notin worker[w].updates
        BY <3>2, <3>3, WorkflowAssumption DEF WorkflowAssumption, Resolve
      <4> QED BY <3>2, <3>3, <4>1 DEF ViewsHold
    <3>4. ASSUME NEW j \in worker'[w].updates PROVE Justified(j, worker'[w].view)
      <4>1. CASE j \in Decided(JobID, Needs, st)
        BY <3>1, <3>2, <4>1, PassHolds
      <4>2. CASE j \notin Decided(JobID, Needs, st)
        <5>1. j \in worker[w].updates /\ j \in Job /\ st[j] \in {"waiting", "skipped"}
          BY <1>0, <3>1, <3>2, <4>2 DEF UpdatesDecided
        <5>2. Justified(j, st)
          BY <3>2, <5>1 DEF ViewsHold
        <5>3. \A k \in Job : st[k] # "blocked" => worker'[w].view[k] = st[k]
          BY <3>1, <3>2, FinalKept
        <5>4. \A k \in NeededJobs(j) : st[k] \in Final => Since(st[k], worker'[w].view[k])
          BY <5>3, Statuses DEF NeededJobs, Since
        <5>5. worker'[w].view[j] = st[j]
          BY <5>1, <5>3
        <5> QED BY <5>1, <5>2, <5>4, <5>5, VerdictStays
      <4> QED BY <4>1, <4>2
    <3> QED BY <3>3, <3>4
  <2> QED BY <1>2, <2>1, <2>2, <2>3, <2>4 DEF WorkerStep
<1>3. ASSUME Crash, NEW w \in Worker PROVE Holds(w)
  BY <1>3 DEF Crash, IdleWorker
<1>4. \A w \in Worker : Holds(w)
  BY <1>1, <1>2, <1>3, WorkersOnly
<1> QED BY <1>4 DEF ViewsHold
-----------------------------------------------------------------------------
LEMMA OutcomeInit ==
  ASSUME Quiet, Once, Init
  PROVE  OutcomeInv
<1>1. SafetyInv
  BY SafetyInit DEF Quiet, Init
<1>2. NoReruns
  BY DEF Once, NoReruns, Init, IdleReq
<1>3. PICK approval \in BOOLEAN : jobs = InsertedJobs(approval) /\ run.needApproval = approval
  BY WorkflowAssumption DEF WorkflowAssumption, Init
<1>4. \A j \in Job : jobs[j].task = 0 /\ jobs[j].status = IF Needs[j] # {} \/ approval THEN "blocked" ELSE "waiting"
  BY <1>3 DEF InsertedJobs, InitialJob
<1>5. TaskLess
  BY <1>4 DEF TaskLess
<1>6. Ready
  BY <1>4 DEF Ready, GoAhead, NeededJobs
<1>7. ViewsHold
  BY DEF Init, IdleWorker, ViewsHold
<1> QED BY <1>1, <1>2, <1>5, <1>6, <1>7 DEF OutcomeInv

LEMMA OutcomeInductive == Quiet /\ Once => (Spec => []OutcomeInv)
<1> SUFFICES ASSUME Quiet, Once PROVE Spec => []OutcomeInv
  OBVIOUS
<1>1. Init => OutcomeInv
  BY OutcomeInit
<1>2. OutcomeInv /\ [Next]_vars => OutcomeInv'
  BY SafetyNext, NoRerunsNext, TaskLessNext, ReadyNext, ViewsHoldNext DEF OutcomeInv, SafetyInv
<1> QED BY <1>1, <1>2, PTL DEF Spec

(* No runner gets a job whose needs are not done, or have failed unless it *)
(* is always(), although the emitter reads the needs before its            *)
(* transaction.                                                            *)
THEOREM NeedsRespectedHolds == Quiet /\ Once => (Spec => []NeedsRespected)
<1> SUFFICES ASSUME Quiet, Once PROVE Spec => []NeedsRespected
  OBVIOUS
<1>1. OutcomeInv => NeedsRespected
  BY DEF OutcomeInv, Ready, GoAhead, StatusOf, NeededJobs, NeedsRespected
<1> QED BY <1>1, OutcomeInductive, PTL
-----------------------------------------------------------------------------
(* Once the run is approved, the jobs without needs have been released.    *)
StartsAtOnce == ~run.needApproval => \A j \in Job : Needs[j] = {} => jobs[j].status # "blocked"

PromiseInv == OutcomeInv /\ CurIsJob /\ Untouched /\ StartsAtOnce

(* What Approve does when its copy is current, which makes it the jobs.    *)
LEMMA ApproveReleases ==
  ASSUME OutcomeInv, NEW r \in Req, ApproveTx(r), VersionMatches(r)
  PROVE  /\ \A j \in Job : jobs'[j] = IF Needs[j] = {} /\ jobs[j].status = "blocked"
                                      THEN [jobs[j] EXCEPT !.status = "waiting"] ELSE jobs[j]
         /\ run'.needApproval = FALSE
<1>1. r \in fresh /\ req[r].op = "approve" /\ SnapIsFresh
  BY DEF OutcomeInv, SafetyInv, ApproveTx, VersionMatches
<1>2. req[r].snap = jobs
  BY <1>1 DEF SnapIsFresh
<1> QED BY <1>2 DEF ApproveTx

LEMMA StartsAtOnceNext ==
  ASSUME PromiseInv, [Next]_vars
  PROVE  StartsAtOnce'
<1> SUFFICES ASSUME ~run'.needApproval, NEW j \in Job, Needs[j] = {}, jobs'[j].status = "blocked"
             PROVE  FALSE
  BY DEF StartsAtOnce
<1>0. OutcomeInv /\ SafetyInv /\ NoReruns /\ TypeInv /\ jobs \in [Job -> JobRow]
  BY DEF PromiseInv, OutcomeInv, SafetyInv, TypeInv, TypeOK
<1>1. jobs'[j] = jobs[j]
  BY <1>0, StepMoves, Statuses DEF Moves, Picked, Ended, Resolved, Dropped, Approved
<1>2. jobs[j].status = "blocked"
  BY <1>1
<1>3. run.needApproval
  BY <1>2 DEF PromiseInv, StartsAtOnce
<1>4. PICK r \in Req : ApproveTx(r) /\ VersionMatches(r)
  BY <1>0, <1>3, ApprovedBy
<1>5. jobs'[j] = [jobs[j] EXCEPT !.status = "waiting"]
  BY <1>0, <1>2, <1>4, ApproveReleases
<1>6. jobs'[j].status = "waiting"
  BY <1>0, <1>5 DEF JobRow
<1> QED BY <1>6

LEMMA SameJobs ==
  /\ Promise!Job = Job /\ Promise!Final = Final /\ Promise!Status = Status
  /\ \A j : Promise!NeededJobs(j) = NeededJobs(j)
  /\ \A j, st : Promise!GoAhead(j, st) <=> GoAhead(j, st)
  /\ \A j, st : Promise!Refused(j, st) <=> Refused(j, st)
<1>1. Promise!Job = Job /\ Promise!Final = Final /\ Promise!Status = Status
  BY DEF Promise!Job, Job, Promise!Final, Final, Promise!Status, Status
<1>2. \A j : Promise!NeededJobs(j) = NeededJobs(j)
  BY <1>1 DEF Promise!NeededJobs, NeededJobs
<1>3. \A j, st : Promise!GoAhead(j, st) <=> GoAhead(j, st)
  BY <1>1, <1>2 DEF Promise!GoAhead, GoAhead
<1>4. \A j, st : Promise!Refused(j, st) <=> Refused(j, st)
  BY <1>1, <1>2 DEF Promise!Refused, Refused
<1> QED BY <1>1, <1>2, <1>3, <1>4

(* The author of the workflow sees nothing of the step.                    *)
Unseen == StatusOf(jobs)' = StatusOf(jobs) /\ run'.needApproval = run.needApproval

LEMMA Unmoved ==
  ASSUME UNCHANGED jobs, run'.needApproval = run.needApproval
  PROVE  Unseen
BY DEF Unseen, StatusOf

LEMMA JobChanges ==
  ASSUME TypeInv, NEW j \in Job, NEW s, jobs' = [jobs EXCEPT ![j].status = s] \/ \E t : jobs' = [jobs EXCEPT ![j] = [status |-> s, task |-> t]]
  PROVE  StatusOf(jobs)' = [StatusOf(jobs) EXCEPT ![j] = s]
<1>0. jobs \in [Job -> JobRow]
  BY DEF TypeInv, TypeOK
<1>1. \A k \in Job : jobs'[k].status = IF k = j THEN s ELSE jobs[k].status
  BY <1>0 DEF JobRow
<1> QED BY <1>1 DEF StatusOf

LEMMA TaskPromise ==
  ASSUME PromiseInv, NEW t \in TaskId, TaskStep(t)
  PROVE  Promise!Next \/ Unseen
<1>0. /\ TypeInv /\ SafetyInv /\ run \in [status : Status, needApproval : BOOLEAN]
      /\ Untouched /\ Ready /\ RunningTaskOwnsJob
  BY DEF PromiseInv, OutcomeInv, SafetyInv, TypeInv, TypeOK
<1>1. ASSUME NEW js, UpdateRunJobs(js) PROVE run'.needApproval = run.needApproval
  BY <1>0, <1>1 DEF UpdateRunJobs
<1>2. ASSUME NEW s \in Final, tasks[t].status = "running", UpdateRunJobs([jobs EXCEPT ![tasks[t].job].status = s])
      PROVE  Promise!Next
  <2> DEFINE j == tasks[t].job
  <2>1. j \in Job /\ jobs[j].status = "running"
    BY <1>0, <1>2, RunningTask
  <2>2. ~run.needApproval
    BY <1>0, <2>1, Statuses DEF Untouched
  <2>3. StatusOf(jobs)' = [StatusOf(jobs) EXCEPT ![j] = s]
    BY <1>0, <1>2, <2>1, JobChanges DEF UpdateRunJobs
  <2>4. StatusOf(jobs)[j] = "running"
    BY <2>1 DEF StatusOf
  <2>5. run'.needApproval = run.needApproval
    BY <1>1, <1>2
  <2> HIDE DEF j
  <2>6. Promise!End(j, s)
    BY <2>2, <2>3, <2>4, <2>5 DEF Promise!End
  <2> QED BY <2>1, <2>6, SameJobs DEF Promise!Next
<1>3. ASSUME NEW j \in Job, CreateTask(j, t) PROVE Promise!Next
  <2>1. jobs[j].status = "waiting"
    BY <1>3 DEF CreateTask
  <2>2. ~run.needApproval
    BY <1>0, <2>1 DEF Untouched
  <2>3. StatusOf(jobs)' = [StatusOf(jobs) EXCEPT ![j] = "running"]
    BY <1>0, <1>3, JobChanges DEF CreateTask, UpdateRunJobs
  <2>4. StatusOf(jobs)[j] = "waiting" /\ Promise!GoAhead(j, StatusOf(jobs))
    BY <1>0, <2>1, SameJobs DEF StatusOf, Ready
  <2>5. run'.needApproval = run.needApproval
    BY <1>1, <1>3 DEF CreateTask
  <2>6. Promise!Start(j)
    BY <2>2, <2>3, <2>4, <2>5 DEF Promise!Start
  <2> QED BY <2>6, SameJobs DEF Promise!Next
<1>4. ASSUME NEW result \in Results, ReportResult(t, result) PROVE Promise!Next \/ Unseen
  <2>1. result \in Final
    BY WorkflowAssumption DEF WorkflowAssumption
  <2>2. CASE IsDone(tasks[t].status)
    BY <1>4, <2>2, Unmoved DEF ReportResult
  <2>3. CASE ~IsDone(tasks[t].status)
    <3>1. tasks[t].status = "running"
      BY <1>0, <1>4, <2>3 DEF ReportResult, SafetyInv, TasksBegun, IsDone
    <3> QED BY <1>2, <1>4, <2>1, <2>3, <3>1 DEF ReportResult
  <2> QED BY <2>2, <2>3
<1>5. CASE EmitJobsIfReady(t) \/ EmitFails(t)
  BY <1>5, Unmoved DEF EmitJobsIfReady, EmitFails
<1>6. CASE StopZombie(t)
  BY <1>2, <1>6 DEF StopZombie, Final
<1> QED BY <1>3, <1>4, <1>5, <1>6 DEF TaskStep

LEMMA WorkerPromise ==
  ASSUME PromiseInv, NEW w \in Worker, WorkerStep(w)
  PROVE  Promise!Next \/ Unseen
<1>0. /\ TypeInv /\ SafetyInv /\ run \in [status : Status, needApproval : BOOLEAN] /\ jobs \in [Job -> JobRow]
      /\ Untouched /\ ViewsHold /\ UpdatesDecided
  BY DEF PromiseInv, OutcomeInv, SafetyInv, TypeInv, TypeOK
<1> DEFINE upd == worker[w].updates
           js == [j \in Job |-> IF j \in upd THEN [jobs[j] EXCEPT !.status = worker[w].view[j]] ELSE jobs[j]]
<1>1. CASE EmitterUpdate(w) /\ (\A j \in upd : jobs[j].status = "blocked") /\ UpdateRunJobs(js)
  <2>1. ~run.needApproval
    BY <1>0, <1>1 DEF EmitterUpdate, Untouched
  <2>2. run'.needApproval = run.needApproval
    BY <1>0, <1>1 DEF UpdateRunJobs
  <2>3. \A k \in Job : /\ IF k \in upd THEN jobs'[k].status = worker[w].view[k] ELSE jobs'[k] = jobs[k]
                       /\ jobs'[k].task = jobs[k].task
    BY <1>0, <1>1 DEF UpdateRunJobs, JobRow
  <2>4. ASSUME NEW j \in Job, j \in upd
        PROVE  /\ Resolved(j) /\ jobs[j].status = "blocked"
               /\ jobs'[j].status \in {"waiting", "skipped"}
    <3>1. worker[w].view[j] \in {"waiting", "skipped"}
      BY <1>0, <1>1, <2>4 DEF UpdatesDecided, EmitterUpdate
    <3> QED BY <1>1, <2>3, <2>4, <3>1 DEF Resolved
  <2>5. ASSUME NEW j \in Job, StatusOf(jobs)'[j] # StatusOf(jobs)[j]
        PROVE  /\ StatusOf(jobs)[j] = "blocked"
               /\ \/ StatusOf(jobs)'[j] = "waiting" /\ Promise!GoAhead(j, StatusOf(jobs)')
                  \/ StatusOf(jobs)'[j] = "skipped" /\ Promise!Refused(j, StatusOf(jobs)')
    <3>1. j \in upd
      BY <2>3, <2>5 DEF StatusOf
    <3>2. StatusOf(jobs)[j] = "blocked" /\ StatusOf(jobs)'[j] \in {"waiting", "skipped"}
      BY <2>4, <3>1 DEF StatusOf
    <3>3. Justified(j, StatusOf(jobs'))
      BY <1>0, <2>4, <3>1, ResolvedJustified
    <3>4. StatusOf(jobs') = StatusOf(jobs)'
      BY DEF StatusOf
    <3> QED BY <3>2, <3>3, <3>4, SameJobs DEF Justified
  <2>6. StatusOf(jobs)' \in [Job -> Status]
    <3>1. ASSUME NEW j \in Job PROVE jobs'[j].status \in Status
      <4>1. jobs[j].status \in Status
        BY <1>0 DEF JobRow
      <4>2. CASE j \in upd
        BY <2>4, <4>2 DEF Status, Final
      <4>3. CASE j \notin upd
        <5>1. jobs'[j] = jobs[j]
          BY <2>3, <4>3
        <5> QED BY <4>1, <5>1
      <4> QED BY <4>2, <4>3
    <3> QED BY <3>1 DEF StatusOf
  <2> HIDE DEF upd, js
  <2>7. Promise!Decide
    BY <2>1, <2>2, <2>5, <2>6, SameJobs DEF Promise!Decide
  <2> QED BY <2>7 DEF Promise!Next
<1>2. CASE UNCHANGED <<jobs, run>>
  BY <1>2, Unmoved
<1> QED BY <1>1, <1>2 DEF WorkerStep, EmitterPop, EmitterRead, EmitterResolve, EmitterUpdate

LEMMA CancelPromise ==
  ASSUME PromiseInv, NEW r \in Req, CancelTx(r)
  PROVE  Promise!Next \/ Unseen
<1>0. /\ TypeInv /\ SafetyInv /\ NoReruns /\ TaskLess
      /\ run \in [status : Status, needApproval : BOOLEAN] /\ jobs \in [Job -> JobRow]
  BY DEF PromiseInv, OutcomeInv, SafetyInv, TypeInv, TypeOK
<1>1. \/ UNCHANGED <<jobs, run>>
      \/ \E hit : UpdateRunJobs([j \in Job |-> IF j \in hit THEN [jobs[j] EXCEPT !.status = "cancelled"] ELSE jobs[j]])
  BY DEF CancelTx
<1>2. ASSUME NEW hit,
             UpdateRunJobs([j \in Job |-> IF j \in hit THEN [jobs[j] EXCEPT !.status = "cancelled"] ELSE jobs[j]])
      PROVE  Promise!Next
  <2>1. run'.needApproval = run.needApproval
    BY <1>0, <1>2 DEF UpdateRunJobs
  <2>2. \A j \in Job : jobs'[j].status = IF j \in hit THEN "cancelled" ELSE jobs[j].status
    BY <1>0, <1>2 DEF UpdateRunJobs, JobRow
  <2>3. [Next]_vars
    BY DEF Next, RequestStep
  <2>4. \A j \in Job : jobs[j].status \in {"success", "failure"} => jobs'[j].status = jobs[j].status
    BY <1>0, <2>3, OutcomesStay DEF Since, Final
  <2>5. ASSUME NEW j \in Job, StatusOf(jobs)'[j] # StatusOf(jobs)[j]
        PROVE  StatusOf(jobs)'[j] = "cancelled" /\ StatusOf(jobs)[j] \notin {"success", "failure"}
    BY <2>2, <2>4, <2>5 DEF StatusOf
  <2>6. StatusOf(jobs)' \in [Job -> Status]
    BY <1>0, <2>2 DEF StatusOf, JobRow, Status, Final
  <2>7. Promise!Cancel
    BY <2>1, <2>5, <2>6, SameJobs DEF Promise!Cancel
  <2> QED BY <2>7 DEF Promise!Next
<1> QED BY <1>1, <1>2, Unmoved

LEMMA ApprovePromise ==
  ASSUME PromiseInv, NEW r \in Req, ApproveTx(r)
  PROVE  Promise!Next \/ Unseen
<1>0. OutcomeInv /\ StartsAtOnce /\ run \in [status : Status, needApproval : BOOLEAN] /\ jobs \in [Job -> JobRow]
  BY DEF PromiseInv, OutcomeInv, SafetyInv, TypeInv, TypeOK
<1>1. CASE ~VersionMatches(r)
  BY <1>1, Unmoved DEF ApproveTx
<1>2. CASE VersionMatches(r)
  <2>1. /\ \A j \in Job : jobs'[j] = IF Needs[j] = {} /\ jobs[j].status = "blocked"
                                      THEN [jobs[j] EXCEPT !.status = "waiting"] ELSE jobs[j]
        /\ run'.needApproval = FALSE
    BY <1>0, <1>2, ApproveReleases
  <2>2. \A j \in Job : jobs'[j].status = IF Needs[j] = {} /\ jobs[j].status = "blocked"
                                         THEN "waiting" ELSE jobs[j].status
    BY <1>0, <2>1 DEF JobRow
  <2>3. CASE run.needApproval
    <3>1. StatusOf(jobs)' = [j \in Job |-> IF Needs[j] = {} /\ StatusOf(jobs)[j] = "blocked"
                                           THEN "waiting" ELSE StatusOf(jobs)[j]]
      BY <2>2 DEF StatusOf
    <3>2. Promise!Approve
      BY <2>1, <2>3, <3>1, SameJobs DEF Promise!Approve
    <3> QED BY <3>2 DEF Promise!Next
  <2>4. CASE ~run.needApproval
    <3>1. \A j \in Job : jobs'[j].status = jobs[j].status
      BY <1>0, <2>2, <2>4 DEF StartsAtOnce
    <3>2. StatusOf(jobs)' = StatusOf(jobs)
      BY <3>1 DEF StatusOf
    <3>3. run.needApproval = FALSE
      BY <1>0, <2>4
    <3> QED BY <2>1, <3>2, <3>3 DEF Unseen
  <2> QED BY <2>3, <2>4
<1> QED BY <1>1, <1>2

LEMMA StepKeepsPromise ==
  ASSUME PromiseInv, [Next]_vars
  PROVE  Promise!Next \/ Unseen
<1>1. ASSUME NEW r \in Req, RequestStep(r) PROVE Promise!Next \/ Unseen
  <2>0. req[r].op \notin {"abandon", "previous", "rerun"}
    BY DEF PromiseInv, OutcomeInv, SafetyInv, QuietInv, NoReruns
  <2>1. ~RerunRead(r) /\ ~\E j \in Job : RerunJob(r, j) \/ AbandonJob(r, j) \/ PreviousJob(r, j)
    BY <2>0 DEF RerunRead, RerunJob, AbandonJob, PreviousJob
  <2>2. ~(PreviousStop(r) \/ PreviousReload(r) \/ PreviousSave(r) \/ PreviousTask(r))
    BY <2>0 DEF PreviousStop, PreviousReload, PreviousSave, PreviousTask
  <2> QED BY <1>1, <2>1, <2>2, CancelPromise, ApprovePromise DEF RequestStep
<1>2. ASSUME NEW r \in Req, RequestBegins(r) PROVE UNCHANGED <<jobs, run>>
  BY <1>2 DEF RequestBegins, CancelRead, ApproveRead, RerunStart, AbandonFind, PreviousRead
<1>3. CASE Crash \/ UNCHANGED vars
  BY <1>3, Unmoved DEF Crash, vars
<1> QED BY <1>1, <1>2, <1>3, TaskPromise, WorkerPromise, Unmoved DEF Next

LEMMA PromiseInit ==
  ASSUME Quiet, Once, Init
  PROVE  PromiseInv /\ Promise!Init
<1>1. OutcomeInv /\ CurIsJob /\ Untouched
  BY OutcomeInit, UntouchedInit
<1>2. PICK approval \in BOOLEAN : jobs = InsertedJobs(approval) /\ run.needApproval = approval
  BY WorkflowAssumption DEF WorkflowAssumption, Init
<1>3. \A j \in Job : jobs[j].status = IF Needs[j] # {} \/ approval THEN "blocked" ELSE "waiting"
  BY <1>2 DEF InsertedJobs, InitialJob
<1>4. StartsAtOnce
  BY <1>2, <1>3 DEF StartsAtOnce
<1>5. StatusOf(jobs) = [j \in Job |-> IF Needs[j] = {} /\ ~run.needApproval THEN "waiting" ELSE "blocked"]
  BY <1>2, <1>3 DEF StatusOf
<1>6. (~run.needApproval) \in BOOLEAN
  OBVIOUS
<1>7. Promise!Init
  BY <1>5, <1>6, SameJobs DEF Promise!Init
<1> QED BY <1>1, <1>4, <1>7 DEF PromiseInv

(* The engine implements RunPromise: reports that come late, emitters that *)
(* decide on old readings, handlers with old copies, sweeps of tasks and   *)
(* crashes are steps of it, or of nothing.                                 *)
THEOREM EngineKeepsPromise == Quiet /\ Once => (Spec => KeepsPromise)
<1> SUFFICES ASSUME Quiet, Once PROVE Spec => KeepsPromise
  OBVIOUS
<1>1. Init => PromiseInv /\ Promise!Init
  BY PromiseInit
<1>2. PromiseInv /\ [Next]_vars => PromiseInv'
  <2> SUFFICES ASSUME PromiseInv, [Next]_vars PROVE PromiseInv'
    OBVIOUS
  <2>1. OutcomeInv'
    BY SafetyNext, NoRerunsNext, TaskLessNext, ReadyNext, ViewsHoldNext DEF PromiseInv, OutcomeInv, SafetyInv
  <2>2. CurIsJob' /\ Untouched'
    BY CurIsJobNext, UntouchedNext DEF PromiseInv, OutcomeInv, SafetyInv
  <2> QED BY <2>1, <2>2, StartsAtOnceNext DEF PromiseInv
<1>3. PromiseInv /\ [Next]_vars => [Promise!Next]_<<StatusOf(jobs), ~run.needApproval>>
  BY StepKeepsPromise DEF Unseen
<1> QED BY <1>1, <1>2, <1>3, PTL DEF Spec, KeepsPromise, Promise!Spec
-----------------------------------------------------------------------------
(*                       The sweeps, without reruns                        *)

(* A job given to a runner points to its task for good, and the copies     *)
(* that handlers hold of it name no other.                                 *)
Given == \A j \in Job : jobs[j].task # 0 =>
  /\ jobs[j].task \in TaskId /\ tasks[jobs[j].task].job = j
  /\ jobs[j].status \notin {"blocked", "waiting"}
Held == \A r \in Req : \A j \in Job :
  /\ req[r].snap[j].task # 0 => req[r].snap[j].task = jobs[j].task
  /\ req[r].snap[j].status \in {"blocked", "waiting"} => req[r].snap[j].task = 0

(* CancelPreviousJobs ends a job before it ends the task.                  *)
StoppedFirst == \A r \in Req :
  /\ req[r].pc \in {"reload", "save", "task"} /\ req[r].snap[req[r].cur].task # 0
       => jobs[req[r].cur].status \in Final
  /\ req[r].pc = "task" => req[r].snap[req[r].cur].task # 0

(* Only the sweep of abandoned jobs and CancelPreviousJobs part a running  *)
(* task from its job.                                                      *)
Stray ==
  /\ \A t \in TaskId : tasks[t].status = "running" => jobs[tasks[t].job].status \in {"running", "cancelled"}
  /\ \A j \in Job : jobs[j].status = "running" => tasks[jobs[j].task].status = "running"

(* Under the version that Approve has read, jobs have been cancelled by    *)
(* CancelPreviousJobs at most.                                             *)
ApproveReads == \A r \in fresh : req[r].op = "approve" => \A j \in Job :
  /\ jobs[j].task = req[r].snap[j].task
  /\ jobs[j].status \in {req[r].snap[j].status, "cancelled"}
  /\ ~run.needApproval /\ Needs[j] = {} => req[r].snap[j].status # "blocked"

(* What an emitter worker saw done is done, and it decides on no job whose *)
(* needs it did not see done.                                              *)
SawDone(j, st) == \A k \in NeededJobs(j) : st[k] \in Final
ViewsDone ==
  \A w \in Worker : worker[w].pc = "resolving" =>
    /\ \A k \in Job \ worker[w].updates : worker[w].view[k] \in Final => jobs[k].status \in Final
    /\ \A j \in worker[w].updates : SawDone(j, worker[w].view)
ReadyDone == \A j \in Job : jobs[j].task # 0 \/ jobs[j].status = "waiting" => SawDone(j, StatusOf(jobs))

LateBase == TypeInv /\ NoReruns /\ CurIsJob /\ Untouched /\ PointsBack /\ TasksBegun
LateRows == TaskLess /\ StartsAtOnce /\ Given /\ Held /\ StoppedFirst /\ Stray /\ ApproveReads
LateInv == LateBase /\ LateRows /\ ViewsDone /\ ReadyDone

(* How a step may move a job, and a task.                                  *)
Taken(j) == \E t \in TaskId :
  CreateTask(j, t) /\ jobs[j].status = "waiting" /\ jobs[j].task = 0 /\ jobs'[j] = [status |-> "running", task |-> t]
Reported(j) == /\ \E t \in TaskId : /\ tasks[t].job = j /\ tasks[t].status = "running"
                                    /\ tasks'[t].status \in Final
               /\ jobs'[j].status \in Final /\ jobs'[j].task = jobs[j].task
Revoked(j) ==
  /\ jobs'[j].status = "cancelled" /\ jobs'[j].task = jobs[j].task
  /\ jobs[j].task = 0 \/ \E r \in Req : AbandonJob(r, j) \/ (PreviousStop(r) /\ req[r].cur = j)
LetGo(j) ==
  /\ \E r \in Req : ApproveTx(r) /\ VersionMatches(r) /\ req[r].snap[j].status = "blocked"
  /\ Needs[j] = {} /\ jobs'[j].status = "waiting" /\ jobs'[j].task = jobs[j].task
LateMoves(j) == jobs'[j] = jobs[j] \/ Taken(j) \/ Reported(j) \/ Resolved(j) \/ Revoked(j) \/ LetGo(j)

TaskEnds(t) ==
  /\ tasks[t].status = "running" /\ tasks'[t].status \in Final /\ tasks'[t].job = tasks[t].job
  /\ jobs'[tasks[t].job].status \in Final
TaskCancelled(t) ==
  /\ \E r \in Req : PreviousTask(r) /\ t = req[r].snap[req[r].cur].task
  /\ tasks'[t].status = "cancelled" /\ tasks'[t].job = tasks[t].job
LateTaskMoves(t) ==
  tasks'[t] = tasks[t] \/ (\E j \in Job : CreateTask(j, t) /\ tasks'[t] = [job |-> j, status |-> "running"])
    \/ TaskEnds(t) \/ TaskCancelled(t)

LEMMA RunningTaskJob ==
  ASSUME LateBase, NEW t \in TaskId, tasks[t].status = "running"
  PROVE  tasks[t].job \in Job /\ jobs[tasks[t].job].task = t /\ t # 0
<1>1. tasks[t].job \in Job \cup {0}
  BY DEF LateBase, TypeInv, TypeOK
<1> QED BY <1>1 DEF LateBase, PointsBack, TaskId

(* A task that ends together with its job.                                 *)
LEMMA TogetherMoves ==
  ASSUME LateBase, NEW t \in TaskId, tasks[t].status = "running", NEW s \in Final,
         tasks' = [tasks EXCEPT ![t].status = s], jobs' = [jobs EXCEPT ![tasks[t].job].status = s]
  PROVE  (\A j \in Job : LateMoves(j)) /\ (\A u \in TaskId : LateTaskMoves(u))
<1>0. /\ jobs \in [Job -> JobRow]
      /\ tasks \in [TaskId -> [job : Job \cup {0}, status : Final \cup {"running", Unknown}]]
  BY DEF LateBase, TypeInv, TypeOK
<1>1. tasks[t].job \in Job
  BY RunningTaskJob
<1>2. \A j \in Job : j # tasks[t].job => jobs'[j] = jobs[j]
  BY <1>0
<1>3. jobs'[tasks[t].job].status = s /\ jobs'[tasks[t].job].task = jobs[tasks[t].job].task
  BY <1>0, <1>1 DEF JobRow
<1>4. tasks'[t].status = s /\ tasks'[t].job = tasks[t].job
  BY <1>0
<1>5. \A u \in TaskId : u # t => tasks'[u] = tasks[u]
  BY <1>0
<1>6. Reported(tasks[t].job) /\ TaskEnds(t)
  BY <1>3, <1>4 DEF Reported, TaskEnds
<1> QED BY <1>2, <1>5, <1>6 DEF LateMoves, LateTaskMoves

LEMMA LateTaskStep ==
  ASSUME LateBase, NEW t \in TaskId, TaskStep(t)
  PROVE  (\A j \in Job : LateMoves(j)) /\ (\A u \in TaskId : LateTaskMoves(u))
<1> DEFINE Goal == (\A j \in Job : LateMoves(j)) /\ (\A u \in TaskId : LateTaskMoves(u))
<1>0. /\ jobs \in [Job -> JobRow] /\ TasksBegun
      /\ tasks \in [TaskId -> [job : Job \cup {0}, status : Final \cup {"running", Unknown}]]
  BY DEF LateBase, TypeInv, TypeOK
<1>1. CASE UNCHANGED <<jobs, tasks>>
  BY <1>1 DEF LateMoves, LateTaskMoves
<1>2. ASSUME NEW j \in Job, CreateTask(j, t) PROVE Goal
  <2>1. /\ tasks' = [tasks EXCEPT ![t] = [job |-> j, status |-> "running"]]
        /\ jobs' = [jobs EXCEPT ![j] = [status |-> "running", task |-> t]]
        /\ jobs[j].status = "waiting" /\ jobs[j].task = 0
    BY <1>2 DEF CreateTask, UpdateRunJobs
  <2>2. /\ jobs'[j] = [status |-> "running", task |-> t]
        /\ tasks'[t] = [job |-> j, status |-> "running"]
        /\ \A k \in Job : k # j => jobs'[k] = jobs[k]
        /\ \A u \in TaskId : u # t => tasks'[u] = tasks[u]
    BY <1>0, <2>1
  <2>3. Taken(j)
    BY <1>2, <2>1, <2>2 DEF Taken
  <2> QED BY <1>2, <2>2, <2>3 DEF LateMoves, LateTaskMoves
<1>3. ASSUME NEW result \in Results, ReportResult(t, result) PROVE Goal
  <2>1. result \in Final
    BY WorkflowAssumption DEF WorkflowAssumption
  <2>2. CASE IsDone(tasks[t].status)
    BY <1>1, <1>3, <2>2 DEF ReportResult
  <2>3. CASE ~IsDone(tasks[t].status)
    <3>1. tasks[t].status = "running"
      BY <1>0, <1>3, <2>3 DEF ReportResult, TasksBegun, IsDone
    <3>2. tasks' = [tasks EXCEPT ![t].status = result] /\ jobs' = [jobs EXCEPT ![tasks[t].job].status = result]
      BY <1>3, <2>3 DEF ReportResult, UpdateRunJobs
    <3> QED BY <2>1, <3>1, <3>2, TogetherMoves
  <2> QED BY <2>2, <2>3
<1>4. CASE EmitJobsIfReady(t) \/ EmitFails(t)
  BY <1>1, <1>4 DEF EmitJobsIfReady, EmitFails
<1>5. CASE StopZombie(t)
  <2>1. /\ tasks[t].status = "running" /\ tasks' = StoppedTasks({t}, "failure")
        /\ jobs' = [jobs EXCEPT ![tasks[t].job].status = "failure"]
    BY <1>5 DEF StopZombie, UpdateRunJobs
  <2>2. tasks' = [tasks EXCEPT ![t].status = "failure"]
    BY <1>0, <2>1 DEF StoppedTasks
  <2>3. "failure" \in Final
    BY DEF Final
  <2> QED BY <2>1, <2>2, <2>3, TogetherMoves
<1> QED BY <1>2, <1>3, <1>4, <1>5 DEF TaskStep

LEMMA LateWorkerStep ==
  ASSUME LateBase, NEW w \in Worker, WorkerStep(w)
  PROVE  (\A j \in Job : LateMoves(j)) /\ UNCHANGED tasks
<1>0. TypeOK /\ UpdatesDecided /\ jobs \in [Job -> JobRow]
  BY DEF LateBase, TypeInv, TypeOK
<1> DEFINE upd == worker[w].updates
<1>1. UNCHANGED tasks
  BY DEF WorkerStep, EmitterPop, EmitterRead, EmitterResolve, EmitterUpdate
<1>2. CASE EmitterUpdate(w) /\ ~UNCHANGED jobs
  <2>1. /\ \A j \in upd : jobs[j].status = "blocked"
        /\ jobs' = [j \in Job |-> IF j \in upd THEN [jobs[j] EXCEPT !.status = worker[w].view[j]] ELSE jobs[j]]
    BY <1>2 DEF EmitterUpdate, UpdateRunJobs
  <2>2. \A k \in Job : /\ IF k \in upd THEN jobs'[k].status = worker[w].view[k] ELSE jobs'[k] = jobs[k]
                       /\ jobs'[k].task = jobs[k].task
    BY <1>0, <2>1 DEF JobRow
  <2>3. ASSUME NEW j \in Job, j \in upd PROVE Resolved(j)
    BY <1>0, <1>2, <2>1, <2>2, <2>3 DEF Resolved, UpdatesDecided
  <2> QED BY <1>1, <2>2, <2>3 DEF LateMoves
<1>3. CASE UNCHANGED jobs
  BY <1>1, <1>3 DEF LateMoves
<1> QED BY <1>2, <1>3 DEF WorkerStep, EmitterPop, EmitterRead, EmitterResolve

LEMMA LateCancel ==
  ASSUME LateBase, Held, NEW r \in Req, CancelTx(r)
  PROVE  (\A j \in Job : LateMoves(j)) /\ (\A u \in TaskId : LateTaskMoves(u))
<1>0. /\ jobs \in [Job -> JobRow]
      /\ tasks \in [TaskId -> [job : Job \cup {0}, status : Final \cup {"running", Unknown}]]
  BY DEF LateBase, TypeInv, TypeOK
<1> DEFINE snap == req[r].snap
           direct == {j \in LiveIn(snap) : snap[j].task = 0}
           stopped == StillRunning({snap[j].task : j \in LiveIn(snap)})
           hit == direct \cup {tasks[t].job : t \in stopped}
<1>1. \/ UNCHANGED <<jobs, tasks>>
      \/ /\ Unpicked(direct)
         /\ tasks' = StoppedTasks(stopped, "cancelled")
         /\ jobs' = [j \in Job |-> IF j \in hit THEN [jobs[j] EXCEPT !.status = "cancelled"] ELSE jobs[j]]
  BY DEF CancelTx, UpdateRunJobs
<1>2. CASE UNCHANGED <<jobs, tasks>>
  BY <1>2 DEF LateMoves, LateTaskMoves
<1>3. CASE /\ Unpicked(direct)
           /\ tasks' = StoppedTasks(stopped, "cancelled")
           /\ jobs' = [j \in Job |-> IF j \in hit THEN [jobs[j] EXCEPT !.status = "cancelled"] ELSE jobs[j]]
  <2>1. \A t \in stopped : t \in TaskId /\ tasks[t].status = "running"
    BY DEF StillRunning
  <2>2. \A j \in direct : jobs[j].task = 0
    BY <1>3 DEF Unpicked
  <2> HIDE DEF direct, stopped
  <2>3. "cancelled" \in Final
    BY DEF Final
  <2>4. \A j \in Job : IF j \in hit THEN jobs'[j].status = "cancelled" /\ jobs'[j].task = jobs[j].task
                                    ELSE jobs'[j] = jobs[j]
    BY <1>0, <1>3 DEF JobRow
  <2>5. \A t \in TaskId : IF t \in stopped THEN tasks'[t].status = "cancelled" /\ tasks'[t].job = tasks[t].job
                                           ELSE tasks'[t] = tasks[t]
    BY <1>0, <1>3 DEF StoppedTasks
  <2>6. ASSUME NEW t \in stopped PROVE TaskEnds(t) /\ Reported(tasks[t].job)
    <3>1. tasks[t].job \in Job /\ tasks[t].job \in hit /\ t \in TaskId /\ tasks[t].status = "running"
      BY <2>1, RunningTaskJob
    <3> QED BY <2>3, <2>4, <2>5, <3>1 DEF TaskEnds, Reported
  <2>7. ASSUME NEW j \in Job PROVE LateMoves(j)
    BY <2>2, <2>4, <2>6 DEF LateMoves, Revoked
  <2> QED BY <2>5, <2>6, <2>7 DEF LateTaskMoves
<1> QED BY <1>1, <1>2, <1>3

LEMMA LateRequestStep ==
  ASSUME LateBase, Held, NEW r \in Req, RequestStep(r)
  PROVE  (\A j \in Job : LateMoves(j)) /\ (\A u \in TaskId : LateTaskMoves(u))
<1> DEFINE Goal == (\A j \in Job : LateMoves(j)) /\ (\A u \in TaskId : LateTaskMoves(u))
<1>0. /\ jobs \in [Job -> JobRow] /\ req[r].op # "rerun" /\ CurIsJob
      /\ tasks \in [TaskId -> [job : Job \cup {0}, status : Final \cup {"running", Unknown}]]
  BY DEF LateBase, TypeInv, TypeOK, NoReruns
<1>1. CASE UNCHANGED <<jobs, tasks>>
  BY <1>1 DEF LateMoves, LateTaskMoves
<1>2. ASSUME NEW k \in Job, jobs' = [jobs EXCEPT ![k].status = "cancelled"], UNCHANGED tasks,
             jobs[k].task = 0 \/ AbandonJob(r, k) \/ (PreviousStop(r) /\ req[r].cur = k)
      PROVE  Goal
  <2>1. jobs'[k].status = "cancelled" /\ jobs'[k].task = jobs[k].task /\ \A j \in Job : j # k => jobs'[j] = jobs[j]
    BY <1>0, <1>2 DEF JobRow
  <2>2. Revoked(k)
    BY <1>2, <2>1 DEF Revoked
  <2> QED BY <1>2, <2>1, <2>2 DEF LateMoves, LateTaskMoves
<1>3. CASE CancelTx(r)
  BY <1>3, LateCancel
<1>4. CASE ApproveTx(r)
  <2>1. CASE ~VersionMatches(r)
    BY <1>1, <1>4, <2>1 DEF ApproveTx
  <2>2. CASE VersionMatches(r)
    <3> DEFINE start == {j \in Job : Needs[j] = {} /\ req[r].snap[j].status = "blocked"}
    <3>1. /\ jobs' = [j \in Job |-> IF j \in start THEN [jobs[j] EXCEPT !.status = "waiting"] ELSE jobs[j]]
          /\ UNCHANGED tasks
      BY <1>4, <2>2 DEF ApproveTx
    <3>2. \A j \in Job : IF j \in start THEN jobs'[j].status = "waiting" /\ jobs'[j].task = jobs[j].task
                                        ELSE jobs'[j] = jobs[j]
      BY <1>0, <3>1 DEF JobRow
    <3>3. \A j \in start : LetGo(j)
      BY <1>4, <2>2, <3>2 DEF LetGo
    <3> QED BY <3>1, <3>2, <3>3 DEF LateMoves, LateTaskMoves
  <2> QED BY <2>1, <2>2
<1>5. ASSUME NEW j \in Job, AbandonJob(r, j) PROVE Goal
  <2>1. jobs' = [jobs EXCEPT ![j].status = "cancelled"] /\ UNCHANGED tasks
    BY <1>5 DEF AbandonJob, UpdateRunJobs
  <2> QED BY <1>2, <1>5, <2>1
<1>6. ASSUME NEW j \in Job, PreviousJob(r, j) PROVE Goal
  <2>1. \/ UNCHANGED <<jobs, tasks>>
        \/ jobs[j].task = 0 /\ jobs' = [jobs EXCEPT ![j].status = "cancelled"] /\ UNCHANGED tasks
    BY <1>6, Zenon DEF PreviousJob
  <2> QED BY <1>1, <1>2, <2>1
<1>7. CASE PreviousStop(r)
  <2>1. jobs' = [jobs EXCEPT ![req[r].cur].status = "cancelled"] /\ UNCHANGED tasks
    BY <1>7 DEF PreviousStop
  <2>2. req[r].cur \in Job
    BY <1>0, <1>7 DEF PreviousStop, CurIsJob
  <2> QED BY <1>2, <1>7, <2>1, <2>2
<1>8. CASE PreviousTask(r)
  <2>1. tasks' = [tasks EXCEPT ![req[r].snap[req[r].cur].task].status = "cancelled"] /\ UNCHANGED jobs
    BY <1>8 DEF PreviousTask
  <2>2. \A t \in TaskId : IF t = req[r].snap[req[r].cur].task
                            THEN tasks'[t].status = "cancelled" /\ tasks'[t].job = tasks[t].job
                            ELSE tasks'[t] = tasks[t]
    BY <1>0, <2>1
  <2> QED BY <1>8, <2>1, <2>2 DEF LateMoves, LateTaskMoves, TaskCancelled
<1>9. CASE RerunRead(r) \/ PreviousReload(r) \/ PreviousSave(r)
  BY <1>1, <1>9 DEF RerunRead, PreviousReload, PreviousSave
<1>10. \A j \in Job : ~RerunJob(r, j)
  BY <1>0 DEF RerunJob
<1> QED BY <1>3, <1>4, <1>5, <1>6, <1>7, <1>8, <1>9, <1>10 DEF RequestStep

LEMMA LateStep ==
  ASSUME LateBase, Held, [Next]_vars
  PROVE  (\A j \in Job : LateMoves(j)) /\ (\A u \in TaskId : LateTaskMoves(u))
<1>1. CASE UNCHANGED <<jobs, tasks>>
  BY <1>1 DEF LateMoves, LateTaskMoves
<1>2. ASSUME NEW r \in Req, RequestBegins(r) PROVE UNCHANGED <<jobs, tasks>>
  BY <1>2 DEF RequestBegins, CancelRead, ApproveRead, RerunStart, AbandonFind, PreviousRead
<1>3. CASE Crash \/ UNCHANGED vars
  BY <1>1, <1>3 DEF Crash, vars
<1>4. ASSUME NEW w \in Worker, WorkerStep(w)
      PROVE  (\A j \in Job : LateMoves(j)) /\ (\A u \in TaskId : LateTaskMoves(u))
  BY <1>4, LateWorkerStep DEF LateTaskMoves
<1> QED BY <1>1, <1>2, <1>3, <1>4, LateTaskStep, LateRequestStep DEF Next

(* What a step keeps of a job that has a task, and of one that is done;    *)
(* the approval, which may release a job just cancelled by                 *)
(* CancelPreviousJobs, finds everything else untouched.                    *)
LEMMA TaskKept ==
  ASSUME LateBase, LateRows, [Next]_vars, NEW j \in Job, jobs[j].task # 0
  PROVE  jobs'[j].task = jobs[j].task
BY LateStep DEF LateRows, LateMoves, Taken, Reported, Resolved, Revoked, LetGo

LEMMA LetGoApproves ==
  ASSUME LateBase, LateRows, NEW j \in Job, LetGo(j)
  PROVE  /\ jobs[j].task = 0 /\ run.needApproval /\ run'.needApproval = FALSE
         /\ \E r \in Req : ApproveTx(r) /\ VersionMatches(r)
<1>1. PICK r \in Req : ApproveTx(r) /\ VersionMatches(r) /\ req[r].snap[j].status = "blocked"
  BY DEF LetGo
<1>2. r \in fresh /\ req[r].op = "approve" /\ Needs[j] = {}
  BY <1>1 DEF VersionMatches, ApproveTx, LetGo
<1>3. run.needApproval /\ jobs[j].task = req[r].snap[j].task
  <2>1. run.needApproval \in BOOLEAN
    BY DEF LateBase, TypeInv, TypeOK
  <2> QED BY <1>1, <1>2, <2>1 DEF LateRows, ApproveReads
<1>4. req[r].snap[j].task = 0
  BY <1>1 DEF LateRows, Held
<1>5. run'.needApproval = FALSE
  BY <1>1 DEF ApproveTx
<1> QED BY <1>1, <1>3, <1>4, <1>5

LEMMA DoneStays ==
  ASSUME LateBase, LateRows, [Next]_vars, NEW j \in Job, jobs[j].status \in Final
  PROVE  jobs'[j].status \in Final \/ LetGo(j)
<1>1. jobs[j].status \notin {"waiting", "running", "blocked"} /\ "cancelled" \in Final
  BY Statuses DEF Final
<1> QED BY <1>1, LateStep DEF LateRows, LateMoves, Taken, Reported, Resolved, Revoked

(* A task that CancelPreviousJobs ends belongs to a job that has ended.    *)
LEMMA CancelledLast ==
  ASSUME LateBase, LateRows, NEW t \in TaskId, TaskCancelled(t)
  PROVE  /\ tasks[t].job \in Job /\ jobs[tasks[t].job].status \in Final
         /\ UNCHANGED jobs
<1>1. PICK r \in Req : PreviousTask(r) /\ t = req[r].snap[req[r].cur].task
  BY DEF TaskCancelled
<1>2. req[r].pc = "task" /\ req[r].cur \in Job /\ UNCHANGED jobs
  BY <1>1 DEF PreviousTask, LateBase, CurIsJob
<1>3. t # 0 /\ jobs[req[r].cur].status \in Final
  BY <1>1, <1>2 DEF LateRows, StoppedFirst
<1>4. jobs[req[r].cur].task = t
  BY <1>1, <1>2, <1>3 DEF LateRows, Held
<1>5. tasks[t].job = req[r].cur
  BY <1>2, <1>3, <1>4 DEF LateRows, Given
<1> QED BY <1>2, <1>3, <1>5

LEMMA LateBaseNext ==
  ASSUME LateBase, LateRows, [Next]_vars
  PROVE  LateBase'
<1>0. TypeInv /\ NoReruns /\ CurIsJob /\ Untouched /\ PointsBack /\ TasksBegun
  BY DEF LateBase
<1>1. TypeInv'
  BY <1>0, TypeNext, UpdatesDecidedNext, SavesStatusNext DEF TypeInv
<1>2. NoReruns' /\ CurIsJob' /\ Untouched' /\ PointsBack'
  BY <1>0, NoRerunsNext, CurIsJobNext, UntouchedNext, PointsBackNext
<1>3. ASSUME NEW t \in TaskId, tasks'[t] # NoTask
      PROVE  tasks'[t].job \in Job /\ tasks'[t].status \in Final \cup {"running"}
  <2>1. CASE tasks'[t] = tasks[t]
    BY <1>0, <1>3, <2>1 DEF TasksBegun
  <2>2. CASE \E j \in Job : tasks'[t] = [job |-> j, status |-> "running"]
    BY <2>2
  <2>3. CASE TaskEnds(t)
    BY <2>3, RunningTaskJob DEF TaskEnds
  <2>4. CASE TaskCancelled(t)
    BY <2>4, CancelledLast DEF TaskCancelled, Final
  <2> QED BY <2>1, <2>2, <2>3, <2>4, LateStep DEF LateRows, LateTaskMoves
<1> QED BY <1>1, <1>2, <1>3 DEF LateBase, TasksBegun

LEMMA StrayNext ==
  ASSUME LateBase, LateRows, [Next]_vars
  PROVE  Stray' /\ TaskLess' /\ Given'
<1>0. Stray /\ TaskLess /\ Given /\ Held /\ PointsBack /\ TypeOK
  BY DEF LateBase, LateRows, TypeInv
<1>1. /\ \A j \in Job : LateMoves(j)
      /\ \A u \in TaskId : LateTaskMoves(u)
  BY <1>0, LateStep
<1>2. \A t \in TaskId : t # 0
  BY DEF TaskId
<1>3. ASSUME NEW t \in TaskId, tasks'[t].status = "running"
      PROVE  jobs'[tasks'[t].job].status \in {"running", "cancelled"}
  <2>1. tasks'[t] = tasks[t] \/ \E j \in Job : CreateTask(j, t) /\ tasks'[t] = [job |-> j, status |-> "running"]
    BY <1>1, <1>3, Statuses DEF LateTaskMoves, TaskEnds, TaskCancelled
  <2>2. ASSUME NEW j \in Job, CreateTask(j, t), tasks'[t] = [job |-> j, status |-> "running"]
        PROVE  jobs'[tasks'[t].job].status \in {"running", "cancelled"}
    BY <1>0, <2>2 DEF CreateTask, UpdateRunJobs, TypeOK
  <2>3. CASE tasks'[t] = tasks[t]
    <3> DEFINE j == tasks[t].job
    <3>1. j \in Job /\ jobs[j].task = t /\ t # 0 /\ jobs[j].status \in {"running", "cancelled"}
      BY <1>0, <1>3, <2>3, RunningTaskJob DEF Stray
    <3> HIDE DEF j
    <3>2. jobs[j].status # "blocked" /\ ~Taken(j) /\ ~Resolved(j)
      BY <3>1 DEF Taken, Resolved
    <3>3. ~LetGo(j)
      BY <3>1, LetGoApproves
    <3>4. ~Reported(j)
      <4>1. ASSUME NEW u \in TaskId, tasks[u].job = j, tasks[u].status = "running", tasks'[u].status \in Final
            PROVE  FALSE
        <5>1. u = t
          BY <3>1, <4>1, RunningTaskJob
        <5> QED BY <1>3, <4>1, <5>1, Statuses
      <4> QED BY <4>1 DEF Reported
    <3>5. jobs'[j] = jobs[j] \/ jobs'[j].status = "cancelled"
      BY <1>1, <3>1, <3>2, <3>3, <3>4 DEF LateMoves, Revoked
    <3> QED BY <2>3, <3>1, <3>5 DEF j
  <2> QED BY <2>1, <2>2, <2>3
<1>4. ASSUME NEW j \in Job, jobs'[j].status = "running" PROVE tasks'[jobs'[j].task].status = "running"
  <2>1. jobs'[j] = jobs[j] \/ Taken(j)
    BY <1>1, <1>4, Statuses DEF LateMoves, Reported, Resolved, Revoked, LetGo
  <2>2. CASE Taken(j)
    BY <1>0, <2>2 DEF Taken, CreateTask, TypeOK
  <2>3. CASE jobs'[j] = jobs[j]
    <3>1. PICK u \in TaskId : u = jobs[j].task /\ tasks[u].status = "running" /\ tasks[u].job = j
      BY <1>0, <1>4, <2>3 DEF TaskLess, Given, Stray
    <3>2. ~TaskEnds(u)
      BY <1>4, <3>1, Statuses DEF TaskEnds
    <3>3. ~TaskCancelled(u)
      BY <1>4, <2>3, <3>1, CancelledLast, Statuses
    <3>4. tasks'[u] = tasks[u] \/ \E k \in Job : tasks'[u] = [job |-> k, status |-> "running"]
      BY <1>1, <3>1, <3>2, <3>3 DEF LateTaskMoves
    <3>5. tasks'[u].status = "running"
      <4>1. CASE tasks'[u] = tasks[u]
        BY <3>1, <4>1
      <4>2. ASSUME NEW k \in Job, tasks'[u] = [job |-> k, status |-> "running"] PROVE tasks'[u].status = "running"
        BY <4>2
      <4> QED BY <3>4, <4>1, <4>2
    <3> QED BY <2>3, <3>1, <3>5
  <2> QED BY <2>1, <2>2, <2>3
<1>5. ASSUME NEW j \in Job, jobs'[j].task = 0
      PROVE  jobs'[j].status \in {"blocked", "waiting", "skipped", "cancelled"}
  <2>1. ~Taken(j)
    <3>1. ASSUME NEW t \in TaskId, jobs'[j] = [status |-> "running", task |-> t] PROVE FALSE
      BY <1>2, <1>5, <3>1
    <3> QED BY <3>1 DEF Taken
  <2>2. ~Reported(j)
    <3>1. ASSUME NEW t \in TaskId, tasks[t].job = j, tasks[t].status = "running", jobs'[j].task = jobs[j].task PROVE FALSE
      BY <1>5, <3>1, RunningTaskJob
    <3> QED BY <3>1 DEF Reported
  <2>3. jobs'[j] = jobs[j] => jobs'[j].status \in {"blocked", "waiting", "skipped", "cancelled"}
    BY <1>0, <1>5 DEF TaskLess
  <2> QED BY <1>1, <2>1, <2>2, <2>3 DEF LateMoves, Resolved, Revoked, LetGo
<1>6. ASSUME NEW j \in Job, jobs'[j].task # 0
      PROVE  /\ jobs'[j].task \in TaskId /\ tasks'[jobs'[j].task].job = j
             /\ jobs'[j].status \notin {"blocked", "waiting"}
  <2>1. CASE Taken(j)
    BY <1>0, <2>1 DEF Taken, CreateTask, TypeOK
  <2>2. CASE ~Taken(j)
    <3>1. jobs'[j].task = jobs[j].task
      BY <1>1, <2>2 DEF LateMoves, Reported, Resolved, Revoked, LetGo
    <3>2. jobs[j].task \in TaskId /\ tasks[jobs[j].task].job = j /\ jobs[j].status \notin {"blocked", "waiting"}
      BY <1>0, <1>6, <3>1 DEF Given
    <3>3. tasks'[jobs[j].task].job = j
      <4>1. ASSUME NEW k \in Job, CreateTask(k, jobs[j].task) PROVE FALSE
        <5>1. tasks[jobs[j].task] = NoTask /\ j # 0
          BY <4>1 DEF CreateTask, Job
        <5> QED BY <3>2, <5>1 DEF NoTask
      <4> QED BY <1>1, <3>2, <4>1 DEF LateTaskMoves, TaskEnds, TaskCancelled
    <3>4. ~LetGo(j)
      BY <1>6, <3>1, LetGoApproves
    <3>5. jobs'[j].status \notin {"blocked", "waiting"}
      BY <1>1, <2>2, <3>2, <3>4, Statuses DEF LateMoves, Reported, Resolved, Revoked
    <3> QED BY <3>1, <3>2, <3>3, <3>5
  <2> QED BY <2>1, <2>2
<1> QED BY <1>3, <1>4, <1>5, <1>6 DEF Stray, TaskLess, Given

LEMMA HeldStays ==
  ASSUME LateBase, LateRows, [Next]_vars
  PROVE  Held'
<1> SUFFICES ASSUME NEW r \in Req, NEW j \in Job
             PROVE  /\ req'[r].snap[j].task # 0 => req'[r].snap[j].task = jobs'[j].task
                    /\ req'[r].snap[j].status \in {"blocked", "waiting"} => req'[r].snap[j].task = 0
  BY DEF Held
<1>1. req'[r].snap \in {req[r].snap, jobs, IdleReq.snap}
  BY HeldNext DEF LateBase
<1>2. CASE req'[r].snap = IdleReq.snap
  BY <1>2 DEF IdleReq
<1>3. CASE req'[r].snap = jobs
  BY <1>3, TaskKept DEF LateRows, Given
<1>4. CASE req'[r].snap = req[r].snap
  BY <1>4, TaskKept DEF LateRows, Held
<1> QED BY <1>1, <1>2, <1>3, <1>4

(* How a request comes to where it has ended a job.                        *)
LEMMA EndsJob ==
  ASSUME TypeInv, [Next]_vars, NEW q \in Req, req'[q].pc \in {"reload", "save", "task"}
  PROVE  \/ req'[q] = req[q]
         \/ req'[q].pc = "reload" /\ req'[q].snap[req'[q].cur].task = 0
         \/ /\ req'[q].cur = req[q].cur /\ req'[q].snap = req[q].snap
            /\ req'[q].pc = "task" => req[q].snap[req[q].cur].task # 0
            /\ PreviousStop(q) \/ (req[q].pc \in {"reload", "save"} /\ UNCHANGED jobs)
<1> DEFINE Goal ==
         \/ req'[q] = req[q]
         \/ req'[q].pc = "reload" /\ req'[q].snap[req'[q].cur].task = 0
         \/ /\ req'[q].cur = req[q].cur /\ req'[q].snap = req[q].snap
            /\ req'[q].pc = "task" => req[q].snap[req[q].cur].task # 0
            /\ PreviousStop(q) \/ (req[q].pc \in {"reload", "save"} /\ UNCHANGED jobs)
<1>0. req \in [Req -> ReqRow] /\ req[q] \in ReqRow
  BY DEF TypeInv, TypeOK, ReqRow
<1>1. ASSUME NEW t \in TaskId, TaskStep(t) PROVE UNCHANGED req
  BY <1>1 DEF TaskStep, CreateTask, ReportResult, EmitJobsIfReady, EmitFails, StopZombie
<1>2. ASSUME NEW w \in Worker, WorkerStep(w) PROVE UNCHANGED req
  BY <1>2 DEF WorkerStep, EmitterPop, EmitterRead, EmitterResolve, EmitterUpdate
<1>3. ASSUME RequestStep(q) PROVE Goal
  <2>1. ASSUME NEW S, Finish(q) \/ Continue(q, S) PROVE FALSE
    <3>1. CASE Finish(q)
      BY <1>0, <3>1 DEF Finish, IdleReq
    <3>2. CASE S = {} /\ Continue(q, S)
      BY <1>0, <3>2 DEF Continue, IdleReq
    <3>3. CASE S # {} /\ Continue(q, S)
      BY <1>0, <3>3 DEF Continue, ReqRow
    <3> QED BY <2>1, <3>1, <3>2, <3>3
  <2>2. ~CancelTx(q) /\ ~ApproveTx(q)
    BY <2>1 DEF CancelTx, ApproveTx
  <2>3. ~RerunRead(q)
    BY <1>0 DEF RerunRead, ReqRow
  <2>4. ASSUME NEW j \in Job, RerunJob(q, j) \/ AbandonJob(q, j) PROVE FALSE
    BY <1>0, <2>4 DEF RerunJob, AbandonJob, IdleReq, ReqRow
  <2>5. ASSUME NEW j \in Job, PreviousJob(q, j) PROVE Goal
    <3>1. CASE req[q].snap[j].task = 0 /\ req' = [req EXCEPT ![q].pc = "reload", ![q].cur = j, ![q].todo = @ \ {j}]
      BY <1>0, <3>1 DEF ReqRow
    <3>2. ~(req' = [req EXCEPT ![q].pc = "stop", ![q].cur = j, ![q].todo = @ \ {j}])
      BY <1>0 DEF ReqRow
    <3>3. \/ req[q].snap[j].task = 0 /\ req' = [req EXCEPT ![q].pc = "reload", ![q].cur = j, ![q].todo = @ \ {j}]
          \/ req' = [req EXCEPT ![q].pc = "stop", ![q].cur = j, ![q].todo = @ \ {j}]
          \/ Finish(q) \/ Continue(q, req[q].todo \ {j})
      BY <2>5, Zenon DEF PreviousJob
    <3> QED BY <2>1, <3>1, <3>2, <3>3
  <2>6. CASE PreviousStop(q)
    BY <1>0, <2>6 DEF PreviousStop, ReqRow
  <2>7. CASE PreviousReload(q)
    BY <1>0, <2>7 DEF PreviousReload, ReqRow
  <2>8. CASE PreviousSave(q)
    <3>1. /\ req[q].pc = "save" /\ UNCHANGED jobs
          /\ \/ Finish(q) \/ Continue(q, req[q].todo)
             \/ req[q].snap[req[q].cur].task # 0 /\ req' = [req EXCEPT ![q].pc = "task"]
      BY <2>8, Zenon DEF PreviousSave
    <3>2. req[q].snap[req[q].cur].task # 0 /\ req' = [req EXCEPT ![q].pc = "task"]
      BY <2>1, <3>1
    <3> QED BY <1>0, <3>1, <3>2 DEF ReqRow
  <2>9. ~PreviousTask(q)
    BY <2>1 DEF PreviousTask
  <2> QED BY <1>3, <2>2, <2>3, <2>4, <2>5, <2>6, <2>7, <2>8, <2>9 DEF RequestStep
<1>4. ASSUME NEW r \in Req, RequestStep(r), r # q PROVE req'[q] = req[q]
  BY <1>4, StepOp
<1>5. ASSUME NEW r \in Req, RequestBegins(r) PROVE req'[q] = req[q]
  <2>1. CASE r # q
    BY <1>5, <2>1, BeginOp DEF Begins
  <2>2. CASE r = q
    <3>1. ~CancelRead(q) /\ ~ApproveRead(q)
      BY <1>0 DEF CancelRead, ApproveRead, ReadJobs, Enter, IdleReq
    <3>2. \A target \in 0 .. NumJobs : ~RerunStart(q, target)
      BY <1>0 DEF RerunStart, Enter, IdleReq
    <3>3. ~AbandonFind(q) /\ ~PreviousRead(q)
      BY <1>0 DEF AbandonFind, PreviousRead, Enter, IdleReq
    <3> QED BY <1>5, <2>2, <3>1, <3>2, <3>3 DEF RequestBegins
  <2> QED BY <2>1, <2>2
<1>6. ~Crash
  BY DEF Crash, IdleReq
<1> QED BY <1>1, <1>2, <1>3, <1>4, <1>5, <1>6 DEF Next, vars

LEMMA StoppedFirstNext ==
  ASSUME LateBase, LateRows, [Next]_vars
  PROVE  StoppedFirst'
<1> SUFFICES ASSUME NEW r \in Req, req'[r].pc \in {"reload", "save", "task"}
             PROVE  /\ req'[r].snap[req'[r].cur].task # 0 => jobs'[req'[r].cur].status \in Final
                    /\ req'[r].pc = "task" => req'[r].snap[req'[r].cur].task # 0
  BY DEF StoppedFirst
<1>0. StoppedFirst /\ TypeInv /\ Held /\ jobs \in [Job -> JobRow]
  BY DEF LateBase, LateRows, TypeInv, TypeOK
<1>1. ASSUME req'[r].cur = req[r].cur, req'[r].snap = req[r].snap, req[r].pc \in {"reload", "save", "task"}
      PROVE  req'[r].snap[req'[r].cur].task # 0 => jobs'[req'[r].cur].status \in Final
  <2> SUFFICES ASSUME req[r].snap[req[r].cur].task # 0
               PROVE  jobs'[req[r].cur].status \in Final
    BY <1>1
  <2>1. req[r].cur \in Job /\ jobs[req[r].cur].status \in Final
    BY <1>0, <1>1 DEF StoppedFirst, LateBase, CurIsJob
  <2>2. jobs[req[r].cur].task # 0
    BY <1>0, <2>1 DEF Held
  <2> QED BY <2>1, <2>2, DoneStays, LetGoApproves
<1>2. CASE req'[r] = req[r]
  BY <1>0, <1>1, <1>2 DEF StoppedFirst
<1>3. CASE PreviousStop(r) /\ req'[r].cur = req[r].cur /\ req'[r].snap = req[r].snap
  <2>1. req[r].cur \in Job /\ jobs' = [jobs EXCEPT ![req[r].cur].status = "cancelled"] /\ req[r].pc = "stop"
    BY <1>3 DEF PreviousStop, LateBase, CurIsJob
  <2>2. jobs'[req[r].cur].status \in Final
    BY <1>0, <2>1 DEF JobRow, Final
  <2>3. req'[r].pc = "reload"
    BY <1>0, <1>3 DEF PreviousStop, TypeInv, TypeOK
  <2> QED BY <1>3, <2>2, <2>3
<1> QED BY <1>0, <1>1, <1>2, <1>3, EndsJob

(* What becomes of the copies of the run: whatever changes a job makes     *)
(* them all out of date, but for CancelPreviousJobs, which cancels one.    *)
LEMMA FreshCopies ==
  ASSUME TypeInv, NoReruns, CurIsJob, [Next]_vars
  PROVE  \/ fresh' = {}
         \/ /\ run'.needApproval = run.needApproval
            /\ \A r \in fresh' : r \in fresh \/ ApproveRead(r) \/ PreviousReload(r)
            /\ \A j \in Job : jobs'[j].task = jobs[j].task /\ jobs'[j].status \in {jobs[j].status, "cancelled"}
            /\ UNCHANGED jobs \/ \E r \in Req : IsPrevious(r)
<1> DEFINE Goal ==
         \/ fresh' = {}
         \/ /\ run'.needApproval = run.needApproval
            /\ \A r \in fresh' : r \in fresh \/ ApproveRead(r) \/ PreviousReload(r)
            /\ \A j \in Job : jobs'[j].task = jobs[j].task /\ jobs'[j].status \in {jobs[j].status, "cancelled"}
            /\ UNCHANGED jobs \/ \E r \in Req : IsPrevious(r)
<1>0. jobs \in [Job -> JobRow] /\ \A r \in Req : req[r].op # "rerun"
  BY DEF TypeInv, TypeOK, NoReruns
<1>1. ASSUME UNCHANGED <<jobs, run>>, \A r \in fresh' : r \in fresh \/ ApproveRead(r) \/ PreviousReload(r)
      PROVE  Goal
  BY <1>1
<1>2. ASSUME NEW t \in TaskId, TaskStep(t) PROVE Goal
  BY <1>2 DEF TaskStep, CreateTask, ReportResult, EmitJobsIfReady, EmitFails, StopZombie, UpdateRunJobs
<1>3. ASSUME NEW w \in Worker, WorkerStep(w) PROVE Goal
  BY <1>3 DEF WorkerStep, EmitterPop, EmitterRead, EmitterResolve, EmitterUpdate, UpdateRunJobs
<1>4. ASSUME NEW r \in Req, RequestStep(r) PROVE Goal
  <2>1. ASSUME NEW j \in Job, jobs' = [jobs EXCEPT ![j].status = "cancelled"], UNCHANGED <<run, fresh>>, IsPrevious(r)
        PROVE  Goal
    BY <1>0, <2>1 DEF JobRow
  <2>2. ASSUME NEW j \in Job, PreviousJob(r, j) PROVE Goal
    <3>1. /\ UNCHANGED jobs \/ jobs' = [jobs EXCEPT ![j].status = "cancelled"]
          /\ UNCHANGED <<run, fresh>> /\ IsPrevious(r)
      BY <2>2, Zenon DEF PreviousJob, IsPrevious
    <3> QED BY <1>1, <2>1, <3>1
  <2>3. CASE PreviousStop(r)
    <3>1. req[r].cur \in Job /\ jobs' = [jobs EXCEPT ![req[r].cur].status = "cancelled"]
      BY <2>3 DEF PreviousStop, CurIsJob
    <3>2. UNCHANGED <<run, fresh>> /\ IsPrevious(r)
      BY <2>3 DEF PreviousStop, IsPrevious
    <3> QED BY <2>1, <3>1, <3>2
  <2>4. CASE CancelTx(r)
    BY <2>4 DEF CancelTx, UpdateRunJobs
  <2>5. CASE ApproveTx(r)
    BY <2>5 DEF ApproveTx
  <2>6. ASSUME NEW j \in Job, AbandonJob(r, j) PROVE fresh' = {}
    BY <2>6 DEF AbandonJob, UpdateRunJobs
  <2>7. CASE RerunRead(r) \/ PreviousReload(r) \/ PreviousTask(r)
    <3>1. UNCHANGED <<jobs, run>> /\ fresh' \in {fresh, fresh \cup {r}}
      BY <2>7 DEF RerunRead, PreviousReload, PreviousTask
    <3>2. UNCHANGED fresh \/ PreviousReload(r)
      BY <2>7 DEF RerunRead, PreviousTask
    <3> QED BY <1>1, <3>1, <3>2
  <2>8. CASE PreviousSave(r)
    BY <2>8 DEF PreviousSave
  <2>9. \A j \in Job : ~RerunJob(r, j)
    BY <1>0 DEF RerunJob
  <2> QED BY <1>4, <2>2, <2>3, <2>4, <2>5, <2>6, <2>7, <2>8, <2>9 DEF RequestStep
<1>5. ASSUME NEW r \in Req, RequestBegins(r) PROVE Goal
  BY <1>1, <1>5 DEF RequestBegins, CancelRead, ApproveRead, RerunStart, AbandonFind, PreviousRead
<1> QED BY <1>1, <1>2, <1>3, <1>4, <1>5 DEF Next, vars, Crash

(* A request that approves has just read, or is as it was.                 *)
LEMMA ApproveKept ==
  ASSUME TypeInv, [Next]_vars, NEW q \in Req, req'[q].op = "approve", ~ApproveRead(q)
  PROVE  req'[q] = req[q]
<1>0. req \in [Req -> ReqRow] /\ req[q] \in ReqRow
  BY DEF TypeInv, TypeOK, ReqRow
<1>1. ASSUME NEW t \in TaskId, TaskStep(t) PROVE UNCHANGED req
  BY <1>1 DEF TaskStep, CreateTask, ReportResult, EmitJobsIfReady, EmitFails, StopZombie
<1>2. ASSUME NEW w \in Worker, WorkerStep(w) PROVE UNCHANGED req
  BY <1>2 DEF WorkerStep, EmitterPop, EmitterRead, EmitterResolve, EmitterUpdate
<1>3. ASSUME RequestStep(q) PROVE FALSE
  <2>1. req[q].op = "approve"
    BY <1>3, StepOp DEF Stays
  <2>2. ApproveTx(q)
    BY <1>3, <2>1 DEF RequestStep, CancelTx, RerunRead, RerunJob, AbandonJob, PreviousJob,
                      PreviousStop, PreviousReload, PreviousSave, PreviousTask
  <2> QED BY <1>0, <2>2 DEF ApproveTx, Finish, IdleReq
<1>4. ASSUME NEW r \in Req, RequestStep(r), r # q PROVE req'[q] = req[q]
  BY <1>4, StepOp
<1>5. ASSUME NEW r \in Req, RequestBegins(r) PROVE req'[q] = req[q]
  <2>1. CASE r # q
    BY <1>5, <2>1, BeginOp DEF Begins
  <2>2. CASE r = q
    <3>1. ~CancelRead(q)
      BY <1>0 DEF CancelRead, ReadJobs, Enter, IdleReq
    <3>2. \A target \in 0 .. NumJobs : ~RerunStart(q, target)
      BY <1>0 DEF RerunStart, Enter, IdleReq
    <3>3. ~AbandonFind(q) /\ ~PreviousRead(q)
      BY <1>0 DEF AbandonFind, PreviousRead, Enter, IdleReq
    <3> QED BY <1>5, <2>2, <3>1, <3>2, <3>3 DEF RequestBegins
  <2> QED BY <2>1, <2>2
<1>6. ~Crash
  BY DEF Crash, IdleReq
<1> QED BY <1>1, <1>2, <1>3, <1>4, <1>5, <1>6 DEF Next, vars

LEMMA ApproveReadsNext ==
  ASSUME LateBase, LateRows, [Next]_vars
  PROVE  ApproveReads'
<1>0. /\ TypeInv /\ NoReruns /\ CurIsJob /\ ApproveReads /\ StartsAtOnce
      /\ req \in [Req -> ReqRow] /\ fresh \subseteq Req
  BY DEF LateBase, LateRows, TypeInv, TypeOK, ReqRow
<1>1. fresh' \subseteq Req
  BY LateBaseNext DEF LateBase, TypeInv, TypeOK
<1> SUFFICES ASSUME NEW r \in fresh', req'[r].op = "approve", NEW j \in Job
             PROVE  /\ jobs'[j].task = req'[r].snap[j].task
                    /\ jobs'[j].status \in {req'[r].snap[j].status, "cancelled"}
                    /\ ~run'.needApproval /\ Needs[j] = {} => req'[r].snap[j].status # "blocked"
  BY DEF ApproveReads
<1>2. /\ run'.needApproval = run.needApproval
      /\ r \in fresh \/ ApproveRead(r) \/ PreviousReload(r)
      /\ jobs'[j].task = jobs[j].task /\ jobs'[j].status \in {jobs[j].status, "cancelled"}
  BY <1>0, FreshCopies
<1>3. CASE ApproveRead(r)
  <2>1. req'[r].snap = jobs /\ jobs' = jobs
    BY <1>0, <1>1, <1>3 DEF ApproveRead, ReadJobs, Enter, IdleReq
  <2> QED BY <1>0, <1>2, <2>1 DEF StartsAtOnce
<1>4. CASE ~ApproveRead(r)
  <2>1. req'[r] = req[r]
    BY <1>0, <1>1, <1>4, ApproveKept
  <2>2. r \in fresh
    BY <1>2, <1>4, <2>1 DEF PreviousReload
  <2> QED BY <1>0, <1>2, <2>1, <2>2 DEF ApproveReads
<1> QED BY <1>3, <1>4

LEMMA StartsAtOnceStays ==
  ASSUME LateBase, LateRows, [Next]_vars
  PROVE  StartsAtOnce'
<1> SUFFICES ASSUME ~run'.needApproval, NEW j \in Job, Needs[j] = {}, jobs'[j].status = "blocked"
             PROVE  FALSE
  BY DEF StartsAtOnce
<1>0. TypeInv /\ jobs \in [Job -> JobRow] /\ Held
  BY DEF LateBase, LateRows, TypeInv, TypeOK
<1>1. jobs'[j] = jobs[j]
  <2>1. ~Taken(j)
    <3>1. ASSUME NEW t, jobs'[j] = [status |-> "running", task |-> t] PROVE FALSE
      BY <3>1
    <3> QED BY <3>1 DEF Taken
  <2> QED BY <1>0, <2>1, LateStep, Statuses DEF LateMoves, Reported, Resolved, Revoked, LetGo
<1>2. run.needApproval
  BY <1>1 DEF LateRows, StartsAtOnce
<1>3. PICK r \in Req : ApproveTx(r) /\ VersionMatches(r)
  BY <1>0, <1>2, ApprovedBy
<1>4. r \in fresh /\ req[r].op = "approve"
  BY <1>3 DEF VersionMatches, ApproveTx
<1>5. req[r].snap[j].status = "blocked"
  BY <1>1, <1>4 DEF LateRows, ApproveReads
<1>6. jobs' = [k \in Job |-> IF k \in {i \in Job : Needs[i] = {} /\ req[r].snap[i].status = "blocked"}
                              THEN [jobs[k] EXCEPT !.status = "waiting"] ELSE jobs[k]]
  BY <1>3 DEF ApproveTx
<1>7. jobs'[j] = [jobs[j] EXCEPT !.status = "waiting"]
  BY <1>5, <1>6
<1>8. jobs'[j].status = "waiting"
  BY <1>0, <1>7 DEF JobRow
<1> QED BY <1>8

(* A worker decides on a job only when it saw its needs done.              *)
LEMMA PassSawDone ==
  ASSUME NEW st \in [Job -> Status \cup {Unknown}], NEW j \in Job,
         j \in Decided(JobID, Needs, st) \/ SawDone(j, st)
  PROVE  SawDone(j, Resolve(JobID, Needs, Always, st))
<1>1. ASSUME NEW k \in NeededJobs(j) PROVE k \in Job /\ st[k] \in Final
  <2>1. DOMAIN JobID = Job /\ k \in Job
    BY <1>1, WorkflowAssumption DEF WorkflowAssumption, NeededJobs
  <2>2. j \in Decided(JobID, Needs, st) => st[k] \in Final
    BY <1>1, <2>1 DEF Decided, AllNeedsDone, NeedStatuses, NeededBy, NeededJobs
  <2> QED BY <1>1, <2>1, <2>2 DEF SawDone
<1> QED BY <1>1, FinalKept, Statuses DEF SawDone

LEMMA ViewsDoneNext ==
  ASSUME LateBase, LateRows, ViewsDone, [Next]_vars
  PROVE  ViewsDone'
<1> DEFINE Holds(w) ==
      worker'[w].pc = "resolving" =>
        /\ \A k \in Job \ worker'[w].updates : worker'[w].view[k] \in Final => jobs'[k].status \in Final
        /\ \A j \in worker'[w].updates : SawDone(j, worker'[w].view)
<1>0. TypeOK /\ UpdatesDecided /\ Untouched
  BY DEF LateBase, TypeInv
<1>1. ASSUME NEW w \in Worker, worker'[w] = worker[w] PROVE Holds(w)
  <2>1. SUFFICES ASSUME worker[w].pc = "resolving", NEW k \in Job \ worker[w].updates, worker[w].view[k] \in Final
                 PROVE  jobs'[k].status \in Final
    BY <1>1 DEF ViewsDone
  <2>2. ~run.needApproval
    BY <1>0, <2>1 DEF Untouched
  <2>3. jobs[k].status \in Final
    BY <2>1 DEF ViewsDone
  <2> QED BY <2>2, <2>3, DoneStays, LetGoApproves
<1>2. ASSUME NEW v \in Worker, WorkerStep(v), NEW w \in Worker PROVE Holds(w)
  <2>0. w # v => worker'[w] = worker[w]
    BY <1>0, <1>2 DEF WorkerStep, EmitterPop, EmitterRead, EmitterResolve, EmitterUpdate, TypeOK
  <2>1. CASE w # v
    BY <1>1, <2>0, <2>1
  <2>2. CASE w = v /\ (EmitterPop(w) \/ EmitterUpdate(w))
    <3>1. worker'[w].pc # "resolving"
      BY <1>0, <2>2 DEF EmitterPop, EmitterUpdate, IdleWorker, TypeOK
    <3> QED BY <3>1
  <2>3. CASE w = v /\ EmitterRead(w)
    <3>1. worker'[w] = [pc |-> "resolving", view |-> StatusOf(jobs), updates |-> {}] /\ UNCHANGED jobs
      BY <1>0, <2>3 DEF EmitterRead, TypeOK
    <3> QED BY <3>1 DEF StatusOf
  <2>4. CASE w = v /\ EmitterResolve(w)
    <3> DEFINE st == worker[w].view
    <3>1. st \in [Job -> Status \cup {Unknown}] /\ worker[w].updates \subseteq Job
      BY <1>0 DEF TypeOK
    <3>2. /\ worker'[w].view = Resolve(JobID, Needs, Always, st)
          /\ worker'[w].updates = worker[w].updates \cup Decided(JobID, Needs, st)
          /\ worker[w].pc = "resolving" /\ UNCHANGED jobs
      BY <1>0, <2>4 DEF EmitterResolve, TypeOK
    <3>3. ASSUME NEW k \in Job \ worker'[w].updates, worker'[w].view[k] \in Final
          PROVE  jobs'[k].status \in Final
      <4>1. worker'[w].view[k] = st[k] /\ k \notin worker[w].updates
        BY <3>2, <3>3, WorkflowAssumption DEF WorkflowAssumption, Resolve
      <4> QED BY <3>2, <3>3, <4>1 DEF ViewsDone
    <3>4. ASSUME NEW j \in worker'[w].updates PROVE SawDone(j, worker'[w].view)
      <4>1. j \in Job
        BY <3>1, <3>2, WorkflowAssumption DEF WorkflowAssumption, Decided
      <4>2. j \in Decided(JobID, Needs, st) \/ SawDone(j, st)
        BY <3>2 DEF ViewsDone
      <4> QED BY <3>1, <3>2, <4>1, <4>2, PassSawDone
    <3> QED BY <3>3, <3>4
  <2> QED BY <1>2, <2>1, <2>2, <2>3, <2>4 DEF WorkerStep
<1>3. ASSUME Crash, NEW w \in Worker PROVE Holds(w)
  BY <1>3 DEF Crash, IdleWorker
<1>4. \A w \in Worker : Holds(w)
  BY <1>1, <1>2, <1>3, WorkersOnly
<1> QED BY <1>4 DEF ViewsDone

LEMMA ReadyDoneNext ==
  ASSUME LateInv, [Next]_vars
  PROVE  ReadyDone'
<1>0. LateBase /\ LateRows /\ ViewsDone /\ ReadyDone /\ Held /\ Untouched
  BY DEF LateInv, LateBase, LateRows
<1> SUFFICES ASSUME NEW j \in Job, jobs'[j].task # 0 \/ jobs'[j].status = "waiting"
             PROVE  SawDone(j, StatusOf(jobs'))
  BY DEF ReadyDone
<1>1. CASE run.needApproval
  <2>1. /\ jobs[j].status \in {"blocked", "cancelled"} /\ jobs[j].task = 0
        /\ \A t \in TaskId : tasks[t].status # "running"
        /\ \A w \in Worker : worker[w].pc = "idle"
    BY <1>0, <1>1 DEF Untouched, NoTask, Unknown
  <2>2. ~Taken(j) /\ ~Reported(j) /\ ~(jobs'[j] = jobs[j])
    BY <2>1 DEF Taken, Reported
  <2>3. ~Resolved(j)
    BY <2>1 DEF Resolved, EmitterUpdate
  <2>4. ~Revoked(j)
    BY <2>1 DEF Revoked
  <2> QED BY <1>0, <2>2, <2>3, <2>4, LateStep DEF LateMoves, LetGo, SawDone, NeededJobs
<1>2. CASE ~run.needApproval
  <2>1. \A k \in Job : ~LetGo(k)
    BY <1>0, <1>2, LetGoApproves
  <2>2. \A k \in Job : jobs[k].status \in Final => jobs'[k].status \in Final
    BY <1>0, <2>1, DoneStays
  <2>3. SawDone(j, StatusOf(jobs)) => SawDone(j, StatusOf(jobs'))
    BY <2>2 DEF SawDone, StatusOf, NeededJobs
  <2>4. CASE jobs'[j] = jobs[j] \/ Taken(j) \/ Reported(j) \/ Revoked(j)
    <3>1. jobs[j].task # 0 \/ jobs[j].status = "waiting"
      BY <1>0, <2>4, RunningTaskJob DEF Taken, Reported, Revoked
    <3> QED BY <1>0, <2>3, <3>1 DEF ReadyDone
  <2>5. CASE Resolved(j)
    <3>1. PICK w \in Worker :
            /\ EmitterUpdate(w) /\ j \in worker[w].updates
            /\ \A k \in Job : IF k \in worker[w].updates THEN jobs'[k].status = worker[w].view[k] ELSE jobs'[k] = jobs[k]
      BY <2>5 DEF Resolved
    <3>2. worker[w].pc = "resolving"
      BY <3>1 DEF EmitterUpdate
    <3>3. SawDone(j, worker[w].view)
      BY <1>0, <3>1, <3>2 DEF ViewsDone
    <3>4. ASSUME NEW k \in NeededJobs(j) PROVE k \in Job /\ jobs'[k].status \in Final
      <4>1. k \in Job /\ worker[w].view[k] \in Final
        BY <3>3 DEF SawDone, NeededJobs
      <4>2. k \notin worker[w].updates => jobs[k].status \in Final
        BY <1>0, <3>2, <4>1 DEF ViewsDone
      <4> QED BY <3>1, <4>1, <4>2
    <3> QED BY <3>4 DEF SawDone, StatusOf
  <2> QED BY <1>0, <2>1, <2>4, <2>5, LateStep DEF LateMoves
<1> QED BY <1>1, <1>2

LEMMA LateNext ==
  ASSUME LateInv, [Next]_vars
  PROVE  LateInv'
<1>1. LateBase /\ LateRows /\ ViewsDone
  BY DEF LateInv
<1>2. LateBase' /\ LateRows'
  BY <1>1, LateBaseNext, StrayNext, HeldStays, StoppedFirstNext, ApproveReadsNext, StartsAtOnceStays DEF LateRows
<1> QED BY <1>1, <1>2, ViewsDoneNext, ReadyDoneNext DEF LateInv

LEMMA LateInit ==
  ASSUME Init, left["rerun"] = 0
  PROVE  LateInv
<1>1. LateBase
  <2>1. TypeInv
    BY TypeInit DEF TypeInv, Init, UpdatesDecided, SavesStatus, IdleWorker, IdleReq
  <2>2. TasksBegun
    BY DEF TasksBegun, Init
  <2> QED BY <2>1, <2>2, UntouchedInit, NoRerunsInit DEF LateBase
<1>2. PICK approval \in BOOLEAN : jobs = InsertedJobs(approval) /\ run.needApproval = approval
  BY WorkflowAssumption DEF WorkflowAssumption, Init
<1>3. \A j \in Job : jobs[j].task = 0 /\ jobs[j].status = IF Needs[j] # {} \/ approval THEN "blocked" ELSE "waiting"
  BY <1>2 DEF InsertedJobs, InitialJob
<1>4. \A r \in Req : req[r].pc = "idle" /\ \A j \in Job : req[r].snap[j].task = 0
  BY DEF Init, IdleReq
<1>5. TaskLess /\ StartsAtOnce /\ Given /\ Held /\ StoppedFirst
  BY <1>2, <1>3, <1>4 DEF TaskLess, StartsAtOnce, Given, Held, StoppedFirst
<1>6. Stray /\ ApproveReads
  BY <1>3 DEF Stray, ApproveReads, Init, NoTask, Unknown
<1>7. ViewsDone
  BY DEF ViewsDone, Init, IdleWorker
<1>8. ReadyDone
  BY <1>3 DEF ReadyDone, SawDone, NeededJobs
<1> QED BY <1>1, <1>5, <1>6, <1>7, <1>8 DEF LateInv, LateRows

LEMMA TaskLessInit == ASSUME Init PROVE TaskLess
<1>1. \A j \in Job : jobs[j].status \in {"blocked", "waiting"}
  BY DEF Init, InsertedJobs, InitialJob
<1> QED BY <1>1 DEF TaskLess

(* No job is given to a runner before its needs are done, although the     *)
(* emitter decides on what it read before and the sweep of abandoned jobs, *)
(* CancelPreviousJobs and Approve write rows they have not looked at.      *)
THEOREM NeedsDoneHolds == Once => (Spec => []NeedsDone)
<1> SUFFICES ASSUME Once PROVE Spec => []NeedsDone
  OBVIOUS
<1>1. Init => LateInv
  BY LateInit DEF Once, Init
<1>2. LateInv /\ [Next]_vars => LateInv'
  BY LateNext
<1>3. LateInv => NeedsDone
  BY DEF LateInv, ReadyDone, SawDone, StatusOf, NeededJobs, NeedsDone, IsDone
<1> QED BY <1>1, <1>2, <1>3, PTL DEF Spec

(* A behavior has reruns, or the two operations that end a job without its *)
(* task, but not both.                                                     *)
RerunsAlone == \A b \in Budgets : b["rerun"] = 0 \/ (b["abandon"] = 0 /\ b["previous"] = 0)

(* A running task is the one of its job, which runs or was cancelled: when *)
(* nobody reruns, whatever is swept and superseded, and with any number of *)
(* reruns when neither is.                                                 *)
THEOREM StrayTasksHolds == RerunsAlone => (Spec => []StrayTasksAreCancelled)
<1> DEFINE Inv == SafetyInv \/ LateInv
<1> SUFFICES ASSUME RerunsAlone PROVE Spec => []StrayTasksAreCancelled
  OBVIOUS
<1>1. Init => Inv
  <2> SUFFICES ASSUME Init PROVE Inv
    OBVIOUS
  <2>1. CASE left["abandon"] = 0 /\ left["previous"] = 0
    BY <2>1, SafetyInit
  <2>2. CASE left["rerun"] = 0
    BY <2>2, LateInit
  <2> QED BY <2>1, <2>2 DEF RerunsAlone, Init
<1>2. Inv /\ [Next]_vars => Inv'
  BY SafetyNext, LateNext
<1>3. Inv => StrayTasksAreCancelled
  <2>1. ASSUME RunningTaskOwnsJob PROVE StrayTasksAreCancelled
    BY <2>1, RunningTask DEF RunningTaskOwnsJob, StrayTasksAreCancelled
  <2>2. ASSUME LateInv PROVE StrayTasksAreCancelled
    <3>0. /\ LateBase /\ Stray /\ Given /\ TaskLess
          /\ tasks \in [TaskId -> [job : Job \cup {0}, status : Final \cup {"running", Unknown}]]
      BY <2>2 DEF LateInv, LateBase, LateRows, TypeInv, TypeOK
    <3>1. ASSUME NEW t \in TaskId, tasks[t].status = "running"
          PROVE  /\ tasks[t].job \in Job
                 /\ jobs[tasks[t].job].task = t /\ jobs[tasks[t].job].status \in {"running", "cancelled"}
      BY <3>0, <3>1, RunningTaskJob DEF Stray
    <3>2. ASSUME NEW j \in Job, jobs[j].status = "running"
          PROVE  \E t \in TaskId : tasks[t] = [job |-> j, status |-> "running"]
      <4>1. PICK t \in TaskId : t = jobs[j].task /\ tasks[t].job = j /\ tasks[t].status = "running"
        BY <3>0, <3>2 DEF Stray, Given, TaskLess
      <4>2. tasks[t] = [job |-> j, status |-> "running"]
        BY <3>0, <4>1
      <4> QED BY <4>2
    <3> QED BY <3>1, <3>2 DEF StrayTasksAreCancelled
  <2> QED BY <2>1, <2>2 DEF SafetyInv
<1> QED BY <1>1, <1>2, <1>3, PTL DEF Spec

(* CancelPreviousJobs and Approve do not meet in the behaviors of b.       *)
NotBoth(b) == b["previous"] = 0 \/ b["approve"] = 0
NoApprove == left["approve"] = 0 /\ \A r \in Req : req[r].op # "approve"

LEMMA NoApproveNext ==
  ASSUME TypeInv, NoApprove, [Next]_vars
  PROVE  NoApprove'
<1>0. TypeOK /\ left["approve"] = 0 /\ "approve" \in Op
  BY DEF TypeInv, NoApprove, Op
<1>1. left'["approve"] = 0 /\ ~Spend("approve")
  BY <1>0, LeftFalls DEF TypeOK
<1>2. ASSUME NEW r \in Req PROVE req'[r].op # "approve"
  BY <1>1, OpChange DEF NoApprove, Stays, Begins
<1> QED BY <1>1, <1>2 DEF NoApprove

LEMMA SnapStaysFresh ==
  ASSUME LateBase, NoPrevious, SnapIsFresh, [Next]_vars
  PROVE  SnapIsFresh'
<1>0. /\ TypeInv /\ NoReruns /\ CurIsJob /\ \A r \in Req : req[r].op # "previous"
      /\ req \in [Req -> ReqRow] /\ fresh \subseteq Req
  BY DEF LateBase, TypeInv, TypeOK, ReqRow, NoPrevious, IsPrevious
<1>1. fresh' \subseteq Req
  BY <1>0, TypeNext DEF TypeInv, TypeOK
<1> SUFFICES ASSUME NEW r \in fresh', req'[r].op = "approve"
             PROVE  req'[r].snap = jobs'
  BY DEF SnapIsFresh
<1>2. UNCHANGED jobs /\ (r \in fresh \/ ApproveRead(r) \/ PreviousReload(r))
  BY <1>0, FreshCopies DEF IsPrevious
<1>3. CASE ApproveRead(r)
  BY <1>0, <1>1, <1>2, <1>3 DEF ApproveRead, ReadJobs, Enter, IdleReq
<1>4. CASE ~ApproveRead(r)
  <2>1. req'[r] = req[r]
    BY <1>0, <1>1, <1>4, ApproveKept
  <2>2. r \in fresh
    BY <1>2, <1>4, <2>1 DEF PreviousReload
  <2> QED BY <1>2, <2>1, <2>2 DEF SnapIsFresh
<1> QED BY <1>3, <1>4

(* No late report, approval, cancellation, emitter or sweep of tasks       *)
(* changes an outcome, for every workflow and any number of each; Approve  *)
(* may bring back a job that CancelPreviousJobs has just cancelled, which  *)
(* is the one pair of operations left out.                                 *)
THEOREM OutcomeIsFinalHolds ==
  RerunsAlone /\ (\A b \in Budgets : NotBoth(b)) => (Spec => OutcomeIsFinal)
<1> DEFINE Alone == SafetyInv /\ TaskLess
           Swept == LateInv /\ (NoApprove \/ (NoPrevious /\ SnapIsFresh))
           Inv == Alone \/ Swept
           FinalStays == \A j \in Job : IsDone(jobs[j].status) /\ jobs'[j].status # jobs[j].status =>
             \/ \E r \in Req : RerunJob(r, j) \/ AbandonJob(r, j) \/ (PreviousStop(r) /\ req[r].cur = j)
             \/ jobs[j].status = "skipped" /\ jobs'[j].status = "cancelled"
             \/ jobs[j].status = "cancelled" /\ \E t \in TaskId : tasks[t] = [job |-> j, status |-> "running"]
<1> SUFFICES ASSUME RerunsAlone, \A b \in Budgets : NotBoth(b) PROVE Spec => OutcomeIsFinal
  OBVIOUS
<1>1. Init => Inv
  <2> SUFFICES ASSUME Init PROVE Inv
    OBVIOUS
  <2>1. CASE left["abandon"] = 0 /\ left["previous"] = 0
    BY <2>1, SafetyInit, TaskLessInit
  <2>2. CASE left["rerun"] = 0
    <3>1. NoApprove \/ NoPrevious
      BY DEF Init, NotBoth, NoApprove, NoPrevious, IsPrevious, IdleReq
    <3>2. SnapIsFresh
      BY DEF Init, SnapIsFresh
    <3> QED BY <2>2, <3>1, <3>2, LateInit
  <2> QED BY <2>1, <2>2 DEF RerunsAlone, Init
<1>2. Inv /\ [Next]_vars => Inv'
  <2>1. Alone /\ [Next]_vars => Alone'
    BY SafetyNext, TaskLessNext
  <2>2. Swept /\ [Next]_vars => Swept'
    BY LateNext, NoApproveNext, NoPreviousNext, SnapStaysFresh DEF LateInv, LateBase
  <2> QED BY <2>1, <2>2
<1>3. ASSUME Alone, [Next]_vars PROVE FinalStays
  BY <1>3, OutcomesStayOrReset DEF IsDone, Since, Reset
<1>4. ASSUME Swept, [Next]_vars PROVE FinalStays
  <2>0. /\ LateBase /\ Held /\ Stray /\ TaskLess
        /\ tasks \in [TaskId -> [job : Job \cup {0}, status : Final \cup {"running", Unknown}]]
    BY <1>4 DEF LateInv, LateBase, LateRows, TypeInv, TypeOK
  <2> SUFFICES ASSUME NEW j \in Job, jobs[j].status \in Final, jobs'[j].status # jobs[j].status
               PROVE  \/ \E r \in Req : AbandonJob(r, j) \/ (PreviousStop(r) /\ req[r].cur = j)
                      \/ jobs[j].status = "skipped" /\ jobs'[j].status = "cancelled"
                      \/ jobs[j].status = "cancelled" /\ \E t \in TaskId : tasks[t] = [job |-> j, status |-> "running"]
    BY DEF IsDone
  <2>1. jobs[j].status \notin {"waiting", "running", "blocked"}
    BY Statuses
  <2>2. ~Taken(j) /\ ~Resolved(j)
    BY <2>1 DEF Taken, Resolved
  <2>3. CASE Reported(j)
    <3>1. PICK t \in TaskId : tasks[t].job = j /\ tasks[t].status = "running"
      BY <2>3 DEF Reported
    <3>2. jobs[j].status = "cancelled"
      BY <2>0, <2>1, <3>1 DEF Stray
    <3>3. tasks[t] = [job |-> j, status |-> "running"]
      BY <2>0, <3>1
    <3> QED BY <3>2, <3>3
  <2>4. CASE Revoked(j)
    BY <2>0, <2>1, <2>4 DEF Revoked, TaskLess
  <2>5. ~LetGo(j)
    <3>1. ASSUME NEW r \in Req, ApproveTx(r), VersionMatches(r), req[r].snap[j].status = "blocked" PROVE FALSE
      <4>1. req[r].op = "approve" /\ r \in fresh
        BY <3>1 DEF ApproveTx, VersionMatches
      <4>2. req[r].snap = jobs
        BY <1>4, <4>1 DEF NoApprove, SnapIsFresh
      <4> QED BY <2>1, <3>1, <4>2
    <3> QED BY <3>1 DEF LetGo
  <2> QED BY <1>4, <2>0, <2>2, <2>3, <2>4, <2>5, LateStep DEF LateMoves
<1>5. Inv /\ [Next]_vars => [FinalStays]_vars
  BY <1>3, <1>4
<1> HIDE DEF FinalStays
<1>6. Spec => [][FinalStays]_vars
  BY <1>1, <1>2, <1>5, PTL DEF Spec
<1> QED BY <1>6 DEF FinalStays, OutcomeIsFinal
=============================================================================
