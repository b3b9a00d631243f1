------------------------ MODULE ActionsEngine_proofs ------------------------
(***************************************************************************)
(* Theorems about ActionsEngine, for every workflow, any number of tasks,  *)
(* queue workers and requests.                                             *)
(***************************************************************************)
EXTENDS ActionsEngine, TLAPS

LEMMA Statuses ==
  /\ Final \subseteq Status
  /\ \A s \in Final : s \notin {"waiting", "running", "blocked", Unknown}
  /\ {"waiting", "running", "blocked"} \subseteq Status
  /\ Unknown \notin Status
BY DEF Final, Status, Unknown

(* The aggregate of any statuses is the status of a run.                   *)
LEMMA AggregateType == \A st : AggregateJobStatus(st) \in Status
BY DEF AggregateJobStatus, Status, Final

LEMMA UpdateRunJobsType ==
  ASSUME TypeOK, NEW js \in [Job -> JobRow], UpdateRunJobs(js)
  PROVE  /\ jobs' \in [Job -> JobRow]
         /\ run' \in [status : Status, needApproval : BOOLEAN]
         /\ fresh' \subseteq Req
BY AggregateType DEF TypeOK, UpdateRunJobs

LEMMA ResolveType ==
  ASSUME NEW st \in [Job -> Status \cup {Unknown}]
  PROVE  /\ Decided(JobID, Needs, st) \subseteq Job
         /\ Resolve(JobID, Needs, Always, st) \in [Job -> Status \cup {Unknown}]
         /\ \A j \in Job : LET new == Resolve(JobID, Needs, Always, st)[j]
                           IN  IF j \in Decided(JobID, Needs, st)
                                 THEN new \in {"waiting", "skipped"} ELSE new = st[j]
<1>1. DOMAIN JobID = Job
  BY WorkflowAssumption DEF WorkflowAssumption
<1>2. {"waiting", "skipped"} \subseteq Status
  BY DEF Status, Final
<1>3. Decided(JobID, Needs, st) \subseteq Job
  BY <1>1 DEF Decided
<1> QED BY <1>1, <1>2, <1>3 DEF Resolve

LEMMA TypeInit == Init => TypeOK
<1> SUFFICES ASSUME Init PROVE TypeOK
  OBVIOUS
<1>1. PICK approval \in NeedApprovals :
        /\ jobs = InsertedJobs(approval)
        /\ run = [status |-> "waiting", needApproval |-> approval]
  BY DEF Init
<1>2. approval \in BOOLEAN
  BY WorkflowAssumption DEF WorkflowAssumption
<1>3. jobs \in [Job -> JobRow]
  BY <1>1 DEF InsertedJobs, InitialJob, JobRow, Status
<1>4. run \in [status : Status, needApproval : BOOLEAN]
  BY <1>1, <1>2 DEF Status
<1>5. tasks \in [TaskId -> [job : Job \cup {0}, status : Final \cup {"running", Unknown}]]
  BY DEF Init, NoTask
<1>6. worker \in [Worker -> [pc : {"idle", "popped", "resolving"},
                             view : [Job -> Status \cup {Unknown}], updates : SUBSET Job]]
  BY DEF Init, IdleWorker
<1>7. req \in [Req -> [op : Op \cup {"idle"},
                      pc : {"idle", "tx", "read", "jobs", "stop", "reload", "save", "task"},
                      snap : [Job -> SnapRow], todo : SUBSET Job, cur : 0 .. NumJobs,
                      run : Status \cup {Unknown}]]
  BY SizesAssumption DEF SizesAssumption, Init, IdleReq, SnapRow
<1>8. left \in [Op -> Nat]
  BY BudgetAssumption DEF BudgetAssumption, Init
<1>9. fresh \subseteq Req /\ queued \in BOOLEAN /\ report \in [TaskId -> {"none", "emit", "acked"}]
  BY DEF Init
<1> QED BY <1>3, <1>4, <1>5, <1>6, <1>7, <1>8, <1>9 DEF TypeOK

LEMMA SpendType ==
  ASSUME TypeOK, NEW op \in Op, Spend(op)
  PROVE  left' \in [Op -> Nat]
BY DEF Spend, TypeOK

(* What the request handlers hold.                                         *)
ReqRow == [op : Op \cup {"idle"},
           pc : {"idle", "tx", "read", "jobs", "stop", "reload", "save", "task"},
           snap : [Job -> SnapRow], todo : SUBSET Job, cur : 0 .. NumJobs,
           run : Status \cup {Unknown}]

LEMMA JobRange == Job \subseteq 0 .. NumJobs
BY SizesAssumption DEF SizesAssumption, Job

LEMMA IdleReqType == IdleReq \in ReqRow
BY SizesAssumption DEF SizesAssumption, IdleReq, ReqRow, SnapRow

LEMMA ReqType ==
  ASSUME TypeOK, NEW r \in Req
  PROVE  /\ req[r] \in ReqRow
         /\ \A rec \in ReqRow : [req EXCEPT ![r] = rec] \in [Req -> ReqRow]
         /\ \A S \in SUBSET Job : /\ [req[r] EXCEPT !.todo = S] \in ReqRow
                                 /\ [req[r] EXCEPT !.pc = "jobs", !.todo = S] \in ReqRow
<1>1. req[r] \in ReqRow
  BY DEF TypeOK, ReqRow
<1>2. \A rec \in ReqRow : [req EXCEPT ![r] = rec] \in [Req -> ReqRow]
  BY DEF TypeOK, ReqRow
<1> QED BY <1>1, <1>2 DEF ReqRow

LEMMA ContinueType ==
  ASSUME TypeOK, NEW r \in Req, NEW S \in SUBSET Job, Continue(r, S)
  PROVE  req' \in [Req -> ReqRow]
BY ReqType, IdleReqType DEF Continue

LEMMA PreviousJobReq ==
  ASSUME NEW r \in Req, NEW j \in Job, PreviousJob(r, j)
  PROVE  \/ req' = [req EXCEPT ![r].pc = "reload", ![r].cur = j, ![r].todo = @ \ {j}]
         \/ req' = [req EXCEPT ![r].pc = "stop", ![r].cur = j, ![r].todo = @ \ {j}]
         \/ Finish(r)
         \/ Continue(r, req[r].todo \ {j})
BY Zenon DEF PreviousJob

LEMMA LeavesSave ==
  ASSUME req \in [Req -> ReqRow], NEW r \in Req
  PROVE  /\ Finish(r) => req'[r].pc # "save"
         /\ \A S : Continue(r, S) => req'[r].pc # "save"
<1>1. Finish(r) => req'[r].pc # "save"
  BY DEF Finish, IdleReq
<1>2. ASSUME NEW S, Continue(r, S) PROVE req'[r].pc # "save"
  <2>1. CASE S = {}
    BY <1>2, <2>1 DEF Continue, IdleReq
  <2>2. CASE S # {}
    BY <1>2, <2>2 DEF Continue, ReqRow
  <2> QED BY <2>1, <2>2
<1> QED BY <1>1, <1>2

LEMMA FinishType ==
  ASSUME TypeOK, NEW r \in Req, Finish(r)
  PROVE  req' \in [Req -> ReqRow]
BY IdleReqType DEF Finish, TypeOK, ReqRow

LEMMA EnterType ==
  ASSUME TypeOK, NEW r \in Req, NEW op \in Op, NEW rec \in ReqRow, Enter(r, op, rec)
  PROVE  req' \in [Req -> ReqRow] /\ left' \in [Op -> Nat]
BY SpendType DEF Enter, TypeOK, ReqRow

(* A queue worker, with what it has read and decided.                      *)
WorkerRow == [pc : {"idle", "popped", "resolving"},
              view : [Job -> Status \cup {Unknown}], updates : SUBSET Job]

LEMMA SetStatusType ==
  ASSUME TypeOK, NEW k, NEW s \in Status
  PROVE  [jobs EXCEPT ![k].status = s] \in [Job -> JobRow]
<1>1. CASE k \in Job
  <2>1. jobs[k] \in JobRow
    BY <1>1 DEF TypeOK
  <2>2. [jobs[k] EXCEPT !.status = s] \in JobRow
    BY <2>1 DEF JobRow
  <2> QED BY <1>1, <2>2 DEF TypeOK
<1>2. CASE k \notin Job
  <2>1. [jobs EXCEPT ![k].status = s] = jobs
    BY <1>2 DEF TypeOK
  <2> QED BY <2>1 DEF TypeOK
<1> QED BY <1>1, <1>2

LEMMA TaskStatusType ==
  ASSUME TypeOK, NEW k, NEW s \in Final
  PROVE  [tasks EXCEPT ![k].status = s] \in [TaskId -> [job : Job \cup {0}, status : Final \cup {"running", Unknown}]]
<1>1. CASE k \in TaskId
  BY <1>1 DEF TypeOK
<1>2. CASE k \notin TaskId
  <2>1. [tasks EXCEPT ![k].status = s] = tasks
    BY <1>2 DEF TypeOK
  <2> QED BY <2>1 DEF TypeOK
<1> QED BY <1>1, <1>2

LEMMA JobsAreSnap == [Job -> JobRow] \subseteq [Job -> SnapRow]
BY DEF JobRow, SnapRow

LEMMA ReadJobsType ==
  ASSUME TypeOK, NEW r \in Req, NEW op \in Op, ReadJobs(r, op)
  PROVE  req' \in [Req -> ReqRow] /\ left' \in [Op -> Nat]
<1>1. jobs \in [Job -> SnapRow]
  BY JobsAreSnap DEF TypeOK
<1>2. [IdleReq EXCEPT !.op = op, !.pc = "tx", !.snap = jobs] \in ReqRow
  BY <1>1, IdleReqType DEF ReqRow
<1> QED BY <1>2, EnterType DEF ReadJobs

(* TypeOK is not inductive: it needs that what the emitter and the status  *)
(* saved by CancelPreviousJobs are going to write are statuses.            *)
UpdatesDecided == \A w \in Worker : \A j \in worker[w].updates : worker[w].view[j] \in {"waiting", "skipped"}
SavesStatus == \A r \in Req : req[r].pc = "save" => req[r].run \in Status
TypeInv == TypeOK /\ UpdatesDecided /\ SavesStatus

LEMMA TypeNext ==
  ASSUME TypeInv, [Next]_vars
  PROVE  TypeOK'
<1>0. TypeOK
  BY DEF TypeInv
<1>1. ASSUME NEW t \in TaskId, NEW j \in Job, CreateTask(j, t) PROVE TypeOK'
  <2>1. [jobs EXCEPT ![j] = [status |-> "running", task |-> t]] \in [Job -> JobRow]
    BY <1>0, <1>1 DEF TypeOK, JobRow, Status
  <2>2. tasks' \in [TaskId -> [job : Job \cup {0}, status : Final \cup {"running", Unknown}]]
    BY <1>0, <1>1 DEF TypeOK, CreateTask
  <2> QED BY <1>0, <1>1, <2>1, <2>2, UpdateRunJobsType DEF CreateTask, TypeOK
<1>2. ASSUME NEW t \in TaskId, NEW result \in Results, ReportResult(t, result) PROVE TypeOK'
  <2>1. result \in Final /\ result \in Status
    BY <1>0, WorkflowAssumption, Statuses DEF WorkflowAssumption
  <2>2. [jobs EXCEPT ![tasks[t].job].status = result] \in [Job -> JobRow]
    BY <1>0, <2>1, SetStatusType
  <2>3. report' \in [TaskId -> {"none", "emit", "acked"}]
    BY <1>0, <1>2 DEF TypeOK, ReportResult
  <2>4. CASE IsDone(tasks[t].status)
    BY <1>0, <1>2, <2>3, <2>4 DEF TypeOK, ReportResult
  <2>5. CASE ~IsDone(tasks[t].status)
    <3>1. tasks' \in [TaskId -> [job : Job \cup {0}, status : Final \cup {"running", Unknown}]]
      BY <1>0, <1>2, <2>1, <2>5 DEF TypeOK, ReportResult
    <3> QED BY <1>0, <1>2, <2>2, <2>3, <2>5, <3>1, UpdateRunJobsType DEF TypeOK, ReportResult
  <2> QED BY <1>0, <2>4, <2>5
<1>3. ASSUME NEW t \in TaskId, EmitJobsIfReady(t) PROVE TypeOK'
  BY <1>0, <1>3 DEF TypeOK, EmitJobsIfReady
<1>4. ASSUME NEW t \in TaskId, EmitFails(t) PROVE TypeOK'
  BY <1>0, <1>4, SpendType DEF TypeOK, EmitFails, Op
<1>5. ASSUME NEW t \in TaskId, StopZombie(t) PROVE TypeOK'
  <2>1. "failure" \in Final /\ "failure" \in Status
    BY <1>0 DEF Final, Status
  <2>2. [jobs EXCEPT ![tasks[t].job].status = "failure"] \in [Job -> JobRow]
    BY <1>0, <2>1, SetStatusType
  <2>3. tasks' \in [TaskId -> [job : Job \cup {0}, status : Final \cup {"running", Unknown}]]
    BY <1>0, <1>5, <2>1 DEF TypeOK, StopZombie, StoppedTasks
  <2>4. left' \in [Op -> Nat]
    BY <1>0, <1>5, SpendType DEF StopZombie, Op
  <2> QED BY <1>0, <1>5, <2>2, <2>3, <2>4, UpdateRunJobsType DEF TypeOK, StopZombie
<1>6. ASSUME NEW w \in Worker, WorkerStep(w) PROVE TypeOK'
  <2>1. CASE EmitterPop(w)
    <3>1. worker' \in [Worker -> WorkerRow]
      BY <1>0, <2>1 DEF TypeOK, EmitterPop, WorkerRow
    <3> QED BY <1>0, <2>1, <3>1 DEF TypeOK, EmitterPop, WorkerRow
  <2>2. CASE EmitterRead(w)
    <3>1. StatusOf(jobs) \in [Job -> Status \cup {Unknown}]
      BY <1>0 DEF TypeOK, StatusOf, JobRow
    <3> QED BY <1>0, <2>2, <3>1 DEF TypeOK, EmitterRead
  <2>3. CASE EmitterResolve(w)
    <3>1. worker[w] \in WorkerRow
      BY <1>0 DEF TypeOK, WorkerRow
    <3>2. /\ Resolve(JobID, Needs, Always, worker[w].view) \in [Job -> Status \cup {Unknown}]
          /\ Decided(JobID, Needs, worker[w].view) \subseteq Job
      BY <1>0, <3>1, ResolveType DEF WorkerRow
    <3>3. [worker[w] EXCEPT !.view = Resolve(JobID, Needs, Always, @),
                            !.updates = @ \cup Decided(JobID, Needs, worker[w].view)] \in WorkerRow
      BY <1>0, <3>1, <3>2 DEF WorkerRow
    <3>4. worker' \in [Worker -> WorkerRow]
      BY <1>0, <2>3, <3>3 DEF TypeOK, EmitterResolve, WorkerRow
    <3> QED BY <1>0, <2>3, <3>4 DEF TypeOK, EmitterResolve, WorkerRow
  <2>4. CASE EmitterUpdate(w)
    <3>1. worker' \in [Worker -> [pc : {"idle", "popped", "resolving"},
                                  view : [Job -> Status \cup {Unknown}], updates : SUBSET Job]]
      BY <1>0, <2>4 DEF TypeOK, EmitterUpdate, IdleWorker
    <3> DEFINE js == [j \in Job |-> IF j \in worker[w].updates
                                    THEN [jobs[j] EXCEPT !.status = worker[w].view[j]] ELSE jobs[j]]
    <3>2. CASE UpdateRunJobs(js) /\ UNCHANGED queued
      <4>1. \A j \in worker[w].updates : worker[w].view[j] \in Status
        BY DEF TypeInv, UpdatesDecided, Status, Final
      <4>2. ASSUME NEW j \in Job PROVE js[j] \in JobRow
        <5>1. jobs[j] \in JobRow
          BY <1>0 DEF TypeOK
        <5> QED BY <4>1, <5>1 DEF JobRow
      <4>3. js \in [Job -> JobRow]
        BY <4>2
      <4> HIDE DEF js
      <4> QED BY <1>0, <2>4, <3>1, <3>2, <4>3, UpdateRunJobsType DEF TypeOK, EmitterUpdate
    <3>3. CASE UNCHANGED <<jobs, run, fresh>> /\ queued' \in BOOLEAN
      BY <1>0, <2>4, <3>1, <3>3 DEF TypeOK, EmitterUpdate
    <3> QED BY <1>0, <2>4, <3>2, <3>3 DEF EmitterUpdate, TypeOK
  <2> QED BY <1>0, <1>6, <2>1, <2>2, <2>3, <2>4 DEF WorkerStep
<1>7. ASSUME NEW r \in Req, CancelTx(r) PROVE TypeOK'
  <2>1. PICK hit, stopped :
          \/ /\ tasks' = StoppedTasks(stopped, "cancelled")
             /\ UpdateRunJobs([j \in Job |-> IF j \in hit THEN [jobs[j] EXCEPT !.status = "cancelled"] ELSE jobs[j]])
          \/ UNCHANGED <<jobs, tasks, run, fresh>>
    BY <1>7 DEF CancelTx
  <2>2. req' \in [Req -> ReqRow]
    BY <1>0, <1>7, FinishType DEF CancelTx
  <2> DEFINE js == [j \in Job |-> IF j \in hit THEN [jobs[j] EXCEPT !.status = "cancelled"] ELSE jobs[j]]
  <2>3. js \in [Job -> JobRow]
    BY <1>0 DEF TypeOK, JobRow, Status, Final
  <2>4. StoppedTasks(stopped, "cancelled") \in [TaskId -> [job : Job \cup {0}, status : Final \cup {"running", Unknown}]]
    BY <1>0 DEF TypeOK, StoppedTasks, Final
  <2>5. CASE tasks' = StoppedTasks(stopped, "cancelled") /\ UpdateRunJobs(js)
    <3> HIDE DEF js
    <3> QED BY <1>0, <1>7, <2>2, <2>3, <2>4, <2>5, UpdateRunJobsType DEF CancelTx, TypeOK, ReqRow
  <2>6. CASE UNCHANGED <<jobs, tasks, run, fresh>>
    BY <1>0, <1>7, <2>2, <2>6 DEF CancelTx, TypeOK, ReqRow
  <2> QED BY <2>1, <2>5, <2>6
<1>8. ASSUME NEW r \in Req, ApproveTx(r) PROVE TypeOK'
  <2> DEFINE start == {j \in Job : Needs[j] = {} /\ req[r].snap[j].status = "blocked"}
             js == [j \in Job |-> IF j \in start THEN [jobs[j] EXCEPT !.status = "waiting"] ELSE jobs[j]]
  <2>1. req' \in [Req -> ReqRow]
    BY <1>0, <1>8, FinishType DEF ApproveTx
  <2>2. js \in [Job -> JobRow]
    BY <1>0 DEF TypeOK, JobRow, Status
  <2>3. CASE VersionMatches(r)
    <3>1. jobs' = js /\ fresh' = {}
      BY <1>8, <2>3 DEF ApproveTx, VersionMatches
    <3>2. run' \in [status : Status, needApproval : BOOLEAN]
      <4>1. run.status \in Status
        BY <1>0 DEF TypeOK
      <4>2. AggregateJobStatus(StatusOf(jobs')) \in Status
        BY AggregateType
      <4>3. PICK s \in Status : run' = [needApproval |-> FALSE, status |-> s]
        BY <1>8, <2>3, <4>1, <4>2 DEF ApproveTx, VersionMatches
      <4> QED BY <4>3
    <3> QED BY <1>0, <1>8, <2>1, <2>2, <3>1, <3>2 DEF ApproveTx, TypeOK, ReqRow
  <2>4. CASE ~VersionMatches(r)
    BY <1>0, <1>8, <2>1, <2>4 DEF ApproveTx, VersionMatches, TypeOK, ReqRow
  <2> QED BY <2>3, <2>4
<1>9. ASSUME NEW r \in Req, RerunRead(r) PROVE TypeOK'
  <2>1. jobs \in [Job -> SnapRow]
    BY <1>0, JobsAreSnap DEF TypeOK
  <2>2. req' \in [Req -> ReqRow]
    <3> DEFINE S == {j \in Job : j \in Range(RerunList(req[r].cur))}
    <3>1. [req[r] EXCEPT !.pc = "jobs", !.snap = jobs, !.todo = S] \in ReqRow
      <4>1. S \in SUBSET Job
        OBVIOUS
      <4> HIDE DEF S
      <4> QED BY <1>0, <2>1, <4>1, ReqType DEF ReqRow
    <3> HIDE DEF S
    <3>2. req' = [req EXCEPT ![r].pc = "jobs", ![r].snap = jobs, ![r].todo = S]
      BY <1>9 DEF RerunRead, S
    <3>3. req' = [req EXCEPT ![r] = [req[r] EXCEPT !.pc = "jobs", !.snap = jobs, !.todo = S]]
      BY <1>0, <3>2 DEF TypeOK
    <3> QED BY <1>0, <3>1, <3>3, ReqType
  <2> QED BY <1>0, <1>9, <2>2 DEF RerunRead, TypeOK, ReqRow
<1>10. ASSUME NEW r \in Req, NEW j \in Job, RerunJob(r, j) PROVE TypeOK'
  <2>1. req' \in [Req -> ReqRow]
    <3>1. req[r].todo \ {j} \in SUBSET Job
      BY <1>0, ReqType DEF ReqRow
    <3> QED BY <1>0, <1>10, <3>1, ReqType, IdleReqType DEF RerunJob
  <2> DEFINE row == [status |-> IF ShouldBlock(req[r].cur, j) THEN "blocked" ELSE "waiting", task |-> 0]
  <2>2. row \in JobRow
    BY DEF JobRow, Status
  <2>3. [jobs EXCEPT ![j] = row] \in [Job -> JobRow]
    <3> HIDE DEF row
    <3> QED BY <1>0, <2>2 DEF TypeOK
  <2>4. CASE UpdateRunJobs([jobs EXCEPT ![j] = row])
    <3> HIDE DEF row
    <3> QED BY <1>0, <1>10, <2>1, <2>3, <2>4, UpdateRunJobsType DEF RerunJob, TypeOK, ReqRow
  <2>5. CASE UNCHANGED <<jobs, run, fresh>>
    BY <1>0, <1>10, <2>1, <2>5 DEF RerunJob, TypeOK, ReqRow
  <2> QED BY <1>10, <2>4, <2>5 DEF RerunJob
<1>11. ASSUME NEW r \in Req, NEW j \in Job, AbandonJob(r, j) PROVE TypeOK'
  <2>1. req' \in [Req -> ReqRow]
    <3>1. req[r].todo \ {j} \in SUBSET Job
      BY <1>0, ReqType DEF ReqRow
    <3> QED BY <1>0, <1>11, <3>1, ReqType, IdleReqType DEF AbandonJob
  <2>2. [jobs EXCEPT ![j].status = "cancelled"] \in [Job -> JobRow]
    BY <1>0, SetStatusType DEF Status, Final
  <2> QED BY <1>0, <1>11, <2>1, <2>2, UpdateRunJobsType DEF AbandonJob, TypeOK, ReqRow
<1>12. ASSUME NEW r \in Req, NEW j \in Job, PreviousJob(r, j) PROVE TypeOK'
  <2>1. req' \in [Req -> ReqRow]
    <3> DEFINE S == req[r].todo \ {j}
    <3>1. S \in SUBSET Job /\ j \in 0 .. NumJobs
      <4>1. req[r].todo \subseteq Job
        BY <1>0, ReqType DEF ReqRow
      <4> QED BY <4>1, JobRange
    <3>2. [req[r] EXCEPT !.pc = "reload", !.cur = j, !.todo = S] \in ReqRow
      <4> HIDE DEF S
      <4> QED BY <1>0, <3>1, ReqType DEF ReqRow
    <3>3. [req[r] EXCEPT !.pc = "stop", !.cur = j, !.todo = S] \in ReqRow
      <4> HIDE DEF S
      <4> QED BY <1>0, <3>1, ReqType DEF ReqRow
    <3>4. \/ req' = [req EXCEPT ![r].pc = "reload", ![r].cur = j, ![r].todo = @ \ {j}]
          \/ req' = [req EXCEPT ![r].pc = "stop", ![r].cur = j, ![r].todo = @ \ {j}]
          \/ Finish(r)
          \/ Continue(r, S)
      BY <1>12, PreviousJobReq
    <3>5. CASE req' = [req EXCEPT ![r].pc = "reload", ![r].cur = j, ![r].todo = @ \ {j}]
      BY <1>0, <3>2, <3>5 DEF TypeOK, ReqRow
    <3>6. CASE req' = [req EXCEPT ![r].pc = "stop", ![r].cur = j, ![r].todo = @ \ {j}]
      BY <1>0, <3>3, <3>6 DEF TypeOK, ReqRow
    <3> QED BY <1>0, <3>1, <3>4, <3>5, <3>6, FinishType, ContinueType
  <2>2. [jobs EXCEPT ![j].status = "cancelled"] \in [Job -> JobRow]
    BY <1>0, SetStatusType DEF Status, Final
  <2>3. jobs' \in [Job -> JobRow]
    BY <1>0, <1>12, <2>2 DEF PreviousJob, TypeOK
  <2> QED BY <1>0, <1>12, <2>1, <2>3 DEF PreviousJob, TypeOK, ReqRow
<1>13. ASSUME NEW r \in Req, PreviousStop(r) PROVE TypeOK'
  <2>1. req' \in [Req -> ReqRow]
    <3>1. [req[r] EXCEPT !.pc = "reload"] \in ReqRow
      BY <1>0, ReqType DEF ReqRow
    <3> QED BY <1>0, <1>13, <3>1 DEF PreviousStop, TypeOK, ReqRow
  <2>2. [jobs EXCEPT ![req[r].cur].status = "cancelled"] \in [Job -> JobRow]
    BY <1>0, SetStatusType DEF Status, Final
  <2> QED BY <1>0, <1>13, <2>1, <2>2 DEF PreviousStop, TypeOK, ReqRow
<1>14. ASSUME NEW r \in Req, PreviousReload(r) PROVE TypeOK'
  <2>1. req' \in [Req -> ReqRow]
    <3> DEFINE s == AggregateJobStatus(StatusOf(jobs))
    <3>1. [req[r] EXCEPT !.pc = "save", !.run = s] \in ReqRow
      <4>1. s \in Status
        BY AggregateType
      <4> HIDE DEF s
      <4> QED BY <1>0, <4>1, ReqType DEF ReqRow
    <3>2. req' = [req EXCEPT ![r].pc = "save", ![r].run = s]
      BY <1>14 DEF PreviousReload
    <3> HIDE DEF s
    <3> QED BY <1>0, <3>1, <3>2 DEF TypeOK, ReqRow
  <2> QED BY <1>0, <1>14, <2>1 DEF PreviousReload, TypeOK, ReqRow
<1>15. ASSUME NEW r \in Req, PreviousSave(r) PROVE TypeOK'
  <2>1. req' \in [Req -> ReqRow]
    <3>1. [req[r] EXCEPT !.pc = "task"] \in ReqRow /\ req[r].todo \in SUBSET Job
      BY <1>0, ReqType DEF ReqRow
    <3>2. CASE req' = [req EXCEPT ![r].pc = "task"]
      BY <1>0, <3>1, <3>2 DEF TypeOK, ReqRow
    <3> QED BY <1>0, <1>15, <3>1, <3>2, FinishType, ContinueType DEF PreviousSave
  <2>2. run' \in [status : Status, needApproval : BOOLEAN]
    BY <1>0, <1>15 DEF PreviousSave, TypeOK, TypeInv, SavesStatus
  <2> QED BY <1>0, <1>15, <2>1, <2>2 DEF PreviousSave, TypeOK, ReqRow
<1>16. ASSUME NEW r \in Req, PreviousTask(r) PROVE TypeOK'
  <2>1. req' \in [Req -> ReqRow]
    <3>1. req[r].todo \in SUBSET Job
      BY <1>0, ReqType DEF ReqRow
    <3> QED BY <1>0, <1>16, <3>1, ContinueType DEF PreviousTask
  <2> DEFINE k == req[r].snap[req[r].cur].task
  <2>2. [tasks EXCEPT ![k].status = "cancelled"] \in [TaskId -> [job : Job \cup {0}, status : Final \cup {"running", Unknown}]]
    BY <1>0, TaskStatusType DEF Final
  <2> QED BY <1>0, <1>16, <2>1, <2>2 DEF PreviousTask, TypeOK, ReqRow
<1>17. ASSUME NEW r \in Req, RequestBegins(r) PROVE TypeOK'
  <2>1. CASE CancelRead(r) \/ ApproveRead(r)
    <3>1. req' \in [Req -> ReqRow] /\ left' \in [Op -> Nat]
      BY <1>0, <2>1, ReadJobsType DEF CancelRead, ApproveRead, Op
    <3> QED BY <1>0, <2>1, <3>1 DEF CancelRead, ApproveRead, TypeOK, ReqRow
  <2>2. ASSUME NEW target \in 0 .. NumJobs, RerunStart(r, target) PROVE TypeOK'
    <3>1. [IdleReq EXCEPT !.op = "rerun", !.pc = "read", !.cur = target] \in ReqRow
      BY IdleReqType DEF ReqRow, Op
    <3>2. req' \in [Req -> ReqRow] /\ left' \in [Op -> Nat]
      BY <1>0, <2>2, <3>1, EnterType DEF RerunStart, Op
    <3> QED BY <1>0, <2>2, <3>2 DEF RerunStart, TypeOK, ReqRow
  <2>3. CASE AbandonFind(r)
    <3>1. PICK old \in SUBSET Job :
             /\ Enter(r, "abandon", [IdleReq EXCEPT !.op = "abandon", !.pc = "jobs", !.todo = old])
             /\ UNCHANGED <<jobs, tasks, run, fresh, queued, worker, report>>
      BY <2>3 DEF AbandonFind, Abandonable
    <3>2. [IdleReq EXCEPT !.op = "abandon", !.pc = "jobs", !.todo = old] \in ReqRow
      BY IdleReqType DEF ReqRow, Op
    <3>3. req' \in [Req -> ReqRow] /\ left' \in [Op -> Nat]
      BY <1>0, <3>1, <3>2, EnterType DEF Op
    <3> QED BY <1>0, <3>1, <3>3 DEF TypeOK, ReqRow
  <2>4. CASE PreviousRead(r)
    <3>1. jobs \in [Job -> SnapRow] /\ LiveIn(jobs) \subseteq Job
      BY <1>0, JobsAreSnap DEF TypeOK, LiveIn
    <3>2. [IdleReq EXCEPT !.op = "previous", !.pc = "jobs", !.snap = jobs, !.todo = LiveIn(jobs)] \in ReqRow
      BY <3>1, IdleReqType DEF ReqRow, Op
    <3>3. req' \in [Req -> ReqRow] /\ left' \in [Op -> Nat]
      BY <1>0, <2>4, <3>2, EnterType DEF PreviousRead, Op
    <3> QED BY <1>0, <2>4, <3>3 DEF PreviousRead, TypeOK, ReqRow
  <2> QED BY <1>17, <2>1, <2>2, <2>3, <2>4 DEF RequestBegins
<1>18. ASSUME NEW t \in TaskId, TaskStep(t) PROVE TypeOK'
  BY <1>1, <1>2, <1>3, <1>4, <1>5, <1>18 DEF TaskStep
<1>19. ASSUME NEW r \in Req, RequestStep(r) PROVE TypeOK'
  BY <1>7, <1>8, <1>9, <1>10, <1>11, <1>12, <1>13, <1>14, <1>15, <1>16, <1>19 DEF RequestStep
<1>20. CASE Crash
  <2>1. left' \in [Op -> Nat]
    BY <1>0, <1>20, SpendType DEF Crash, Op
  <2>2. req' \in [Req -> ReqRow]
    BY <1>0, <1>20, IdleReqType DEF Crash
  <2>3. worker' \in [Worker -> [pc : {"idle", "popped", "resolving"},
                                view : [Job -> Status \cup {Unknown}], updates : SUBSET Job]]
    BY <1>0, <1>20 DEF Crash, IdleWorker
  <2>4. report' \in [TaskId -> {"none", "emit", "acked"}]
    BY <1>0, <1>20 DEF Crash, TypeOK
  <2> QED BY <1>0, <1>20, <2>1, <2>2, <2>3, <2>4 DEF Crash, TypeOK, ReqRow
<1>21. CASE UNCHANGED vars
  BY <1>0, <1>21 DEF vars, TypeOK
<1> QED
  BY <1>6, <1>17, <1>18, <1>19, <1>20, <1>21 DEF Next

(* Only the worker's own steps, and a crash, change what a worker holds.   *)
LEMMA WorkersOnly ==
  ASSUME [Next]_vars
  PROVE  (\E w \in Worker : WorkerStep(w)) \/ Crash \/ UNCHANGED worker
<1>1. ASSUME NEW t \in TaskId, TaskStep(t) PROVE UNCHANGED worker
  BY <1>1 DEF TaskStep, CreateTask, ReportResult, EmitJobsIfReady, EmitFails, StopZombie
<1>2. ASSUME NEW r \in Req, RequestStep(r) PROVE UNCHANGED worker
  BY <1>2 DEF RequestStep, CancelTx, ApproveTx, RerunRead, RerunJob, AbandonJob, PreviousJob,
              PreviousStop, PreviousReload, PreviousSave, PreviousTask
<1>3. ASSUME NEW r \in Req, RequestBegins(r) PROVE UNCHANGED worker
  BY <1>3 DEF RequestBegins, CancelRead, ApproveRead, RerunStart, AbandonFind, PreviousRead
<1> QED BY <1>1, <1>2, <1>3 DEF Next, vars

LEMMA UpdatesDecidedNext ==
  ASSUME TypeInv, [Next]_vars
  PROVE  UpdatesDecided'
<1>0. TypeOK /\ UpdatesDecided
  BY DEF TypeInv
<1>1. ASSUME NEW w \in Worker, WorkerStep(w) PROVE UpdatesDecided'
  <2>1. CASE EmitterPop(w)
    BY <1>0, <2>1 DEF EmitterPop, TypeOK, UpdatesDecided
  <2>2. CASE EmitterRead(w)
    BY <1>0, <2>2 DEF EmitterRead, TypeOK, UpdatesDecided
  <2>3. CASE EmitterResolve(w)
    <3> DEFINE view == worker[w].view
    <3>1. view \in [Job -> Status \cup {Unknown}] /\ worker[w].updates \subseteq Job
      BY <1>0 DEF TypeOK
    <3>2. /\ worker'[w].view = Resolve(JobID, Needs, Always, view)
          /\ worker'[w].updates = worker[w].updates \cup Decided(JobID, Needs, view)
          /\ \A v \in Worker : v # w => worker'[v] = worker[v]
      BY <1>0, <2>3 DEF EmitterResolve, TypeOK
    <3>3. ASSUME NEW j \in worker'[w].updates PROVE worker'[w].view[j] \in {"waiting", "skipped"}
      BY <1>0, <3>1, <3>2, <3>3, ResolveType DEF UpdatesDecided
    <3> QED BY <1>0, <3>2, <3>3 DEF UpdatesDecided
  <2>4. CASE EmitterUpdate(w)
    BY <1>0, <2>4 DEF EmitterUpdate, IdleWorker, TypeOK, UpdatesDecided
  <2> QED BY <1>1, <2>1, <2>2, <2>3, <2>4 DEF WorkerStep
<1>2. CASE Crash
  BY <1>2 DEF Crash, IdleWorker, UpdatesDecided
<1>3. CASE UNCHANGED worker
  BY <1>0, <1>3 DEF UpdatesDecided
<1> QED BY <1>1, <1>2, <1>3, WorkersOnly

LEMMA SavesStatusNext ==
  ASSUME TypeInv, [Next]_vars
  PROVE  SavesStatus'
<1>0. TypeOK /\ SavesStatus
  BY DEF TypeInv
<1>1. ASSUME NEW t \in TaskId, TaskStep(t) PROVE UNCHANGED req
  BY <1>1 DEF TaskStep, CreateTask, ReportResult, EmitJobsIfReady, EmitFails, StopZombie
<1>2. ASSUME NEW w \in Worker, WorkerStep(w) PROVE UNCHANGED req
  BY <1>2 DEF WorkerStep, EmitterPop, EmitterRead, EmitterResolve, EmitterUpdate
<1>3. ASSUME NEW r \in Req, RequestStep(r) \/ RequestBegins(r) PROVE SavesStatus'
  <2>0. req \in [Req -> ReqRow] /\ req[r] \in ReqRow
    BY <1>0 DEF TypeOK, ReqRow
  <2>1. req'[r].pc = "save" => req'[r].run \in Status
    <3>1. CASE PreviousReload(r)
      <4>1. req'[r].run = AggregateJobStatus(StatusOf(jobs))
        BY <2>0, <3>1 DEF PreviousReload, ReqRow
      <4> QED BY <4>1, AggregateType
    <3>2. ASSUME NEW j \in Job, RerunJob(r, j) \/ AbandonJob(r, j) PROVE req'[r].pc # "save"
      BY <2>0, <3>2 DEF RerunJob, AbandonJob, IdleReq, ReqRow
    <3>3. ASSUME NEW j \in Job, PreviousJob(r, j) PROVE req'[r].pc # "save"
      <4>1. CASE Finish(r) \/ Continue(r, req[r].todo \ {j})
        BY <2>0, <4>1, LeavesSave
      <4>2. CASE req' = [req EXCEPT ![r].pc = "reload", ![r].cur = j, ![r].todo = @ \ {j}]
        BY <2>0, <4>2 DEF ReqRow
      <4>3. CASE req' = [req EXCEPT ![r].pc = "stop", ![r].cur = j, ![r].todo = @ \ {j}]
        BY <2>0, <4>3 DEF ReqRow
      <4> QED BY <3>3, <4>1, <4>2, <4>3, PreviousJobReq
    <3>4. CASE CancelTx(r) \/ ApproveTx(r)
      BY <2>0, <3>4 DEF CancelTx, ApproveTx, Finish, IdleReq
    <3>5. CASE RerunRead(r) \/ PreviousStop(r)
      BY <2>0, <3>5 DEF RerunRead, PreviousStop, ReqRow
    <3>6. CASE PreviousSave(r) \/ PreviousTask(r)
      <4>1. \/ Finish(r) \/ Continue(r, req[r].todo)
            \/ req' = [req EXCEPT ![r].pc = "task"]
        BY <3>6, Zenon DEF PreviousSave, PreviousTask
      <4>2. CASE req' = [req EXCEPT ![r].pc = "task"]
        BY <2>0, <4>2 DEF ReqRow
      <4> QED BY <2>0, <4>1, <4>2, LeavesSave
    <3>7. CASE RequestBegins(r)
      BY <2>0, <3>7 DEF RequestBegins, CancelRead, ApproveRead, RerunStart, AbandonFind, PreviousRead, ReadJobs, Enter, IdleReq
    <3> QED BY <1>3, <3>1, <3>2, <3>3, <3>4, <3>5, <3>6, <3>7 DEF RequestStep
  <2>2. \A q \in Req : q # r => req'[q] = req[q]
    <3>1. CASE RequestBegins(r)
      BY <1>0, <3>1 DEF TypeOK, RequestBegins, CancelRead, ApproveRead, RerunStart, AbandonFind, PreviousRead, ReadJobs, Enter
    <3>2. CASE RequestStep(r)
      BY <1>0, <3>2 DEF TypeOK, RequestStep, CancelTx, ApproveTx, RerunRead, RerunJob, AbandonJob, PreviousJob,
                        PreviousStop, PreviousReload, PreviousSave, PreviousTask, Finish, Continue
    <3> QED BY <1>3, <3>1, <3>2
  <2> QED BY <1>0, <2>1, <2>2 DEF SavesStatus
<1>4. CASE Crash
  BY <1>4 DEF Crash, IdleReq, SavesStatus
<1> QED BY <1>0, <1>1, <1>2, <1>3, <1>4 DEF Next, vars, SavesStatus

(* Every row and every handler always has its shape; in particular the     *)
(* emitter and CancelPreviousJobs only ever write statuses.                *)
THEOREM TypeCorrect == Spec => []TypeInv
<1>1. Init => TypeInv
  <2> SUFFICES ASSUME Init PROVE TypeInv
    OBVIOUS
  <2>1. UpdatesDecided
    BY DEF Init, IdleWorker, UpdatesDecided
  <2>2. SavesStatus
    BY DEF Init, IdleReq, SavesStatus
  <2> QED BY <2>1, <2>2, TypeInit DEF TypeInv
<1>2. TypeInv /\ [Next]_vars => TypeInv'
  BY TypeNext, UpdatesDecidedNext, SavesStatusNext DEF TypeInv
<1> QED BY <1>1, <1>2, PTL DEF Spec

(* TypeOK of every reachable state.                                        *)
THEOREM TypeOKHolds == Spec => []TypeOK
<1>1. TypeInv => TypeOK
  BY DEF TypeInv
<1> QED BY <1>1, TypeCorrect, PTL

-----------------------------------------------------------------------------
(*                  What a step does to the requests                       *)

LEMMA LeftChange ==
  ASSUME [Next]_vars
  PROVE  left' = left \/ \E op \in Op : Spend(op)
<1>1. ASSUME NEW t \in TaskId, TaskStep(t) PROVE left' = left \/ \E op \in Op : Spend(op)
  BY <1>1 DEF TaskStep, CreateTask, ReportResult, EmitJobsIfReady, EmitFails, StopZombie, Op
<1>2. ASSUME NEW w \in Worker, WorkerStep(w) PROVE left' = left
  BY <1>2 DEF WorkerStep, EmitterPop, EmitterRead, EmitterResolve, EmitterUpdate
<1>3. ASSUME NEW r \in Req, RequestStep(r) PROVE left' = left
  BY <1>3 DEF RequestStep, CancelTx, ApproveTx, RerunRead, RerunJob, AbandonJob, PreviousJob,
              PreviousStop, PreviousReload, PreviousSave, PreviousTask
<1>4. ASSUME NEW r \in Req, RequestBegins(r) PROVE \E op \in Op : Spend(op)
  BY <1>4 DEF RequestBegins, CancelRead, ApproveRead, ReadJobs, RerunStart, AbandonFind, PreviousRead, Enter, Op
<1> QED BY <1>1, <1>2, <1>3, <1>4 DEF Next, vars, Crash, Op

(* The budget of an operation never grows, and one that is spent is not    *)
(* begun.                                                                  *)
LEMMA LeftFalls ==
  ASSUME TypeOK, [Next]_vars, NEW op \in Op
  PROVE  left'[op] \in Nat /\ left'[op] <= left[op] /\ (Spend(op) => left[op] > 0 /\ left'[op] = left[op] - 1)
<1>1. left \in [Op -> Nat]
  BY DEF TypeOK
<1>2. CASE left' = left
  BY <1>1, <1>2 DEF Spend
<1>3. ASSUME NEW o \in Op, Spend(o)
      PROVE  left'[op] \in Nat /\ left'[op] <= left[op] /\ (Spend(op) => left[op] > 0 /\ left'[op] = left[op] - 1)
  BY <1>1, <1>3 DEF Spend
<1> QED BY <1>2, <1>3, LeftChange

(* A request begins its operation out of the budget; until then it is      *)
(* idle, and it keeps its operation until it ends.                         *)
Begins(r) == /\ \E op \in Op : Spend(op) /\ req'[r].op = op
             /\ \A q \in Req \ {r} : req'[q] = req[q]
Stays(r) == req'[r].op \in {req[r].op, "idle"}

LEMMA StepOp ==
  ASSUME TypeInv, NEW r \in Req, RequestStep(r)
  PROVE  Stays(r) /\ \A q \in Req \ {r} : req'[q] = req[q]
<1>0. req \in [Req -> ReqRow] /\ req[r] \in ReqRow
  BY DEF TypeInv, TypeOK, ReqRow
<1>1. CASE CancelTx(r) \/ ApproveTx(r)
  BY <1>0, <1>1 DEF CancelTx, ApproveTx, Finish, IdleReq, Stays
<1>2. CASE RerunRead(r) \/ PreviousStop(r) \/ PreviousReload(r)
  BY <1>0, <1>2 DEF RerunRead, PreviousStop, PreviousReload, ReqRow, Stays
<1>3. ASSUME NEW S, Finish(r) \/ Continue(r, S) PROVE Stays(r) /\ \A q \in Req \ {r} : req'[q] = req[q]
  <2>1. CASE Finish(r)
    BY <1>0, <2>1 DEF Finish, IdleReq, Stays
  <2>2. CASE S = {} /\ Continue(r, S)
    BY <1>0, <2>2 DEF Continue, IdleReq, Stays
  <2>3. CASE S # {} /\ Continue(r, S)
    BY <1>0, <2>3 DEF Continue, ReqRow, Stays
  <2> QED BY <1>3, <2>1, <2>2, <2>3
<1>4. ASSUME NEW j \in Job, RerunJob(r, j) \/ AbandonJob(r, j)
      PROVE  Stays(r) /\ \A q \in Req \ {r} : req'[q] = req[q]
  BY <1>0, <1>4 DEF RerunJob, AbandonJob, IdleReq, ReqRow, Stays
<1>5. ASSUME NEW j \in Job, PreviousJob(r, j) PROVE Stays(r) /\ \A q \in Req \ {r} : req'[q] = req[q]
  <2>1. CASE req' = [req EXCEPT ![r].pc = "reload", ![r].cur = j, ![r].todo = @ \ {j}]
    BY <1>0, <2>1 DEF ReqRow, Stays
  <2>2. CASE req' = [req EXCEPT ![r].pc = "stop", ![r].cur = j, ![r].todo = @ \ {j}]
    BY <1>0, <2>2 DEF ReqRow, Stays
  <2> QED BY <1>3, <1>5, <2>1, <2>2, PreviousJobReq
<1>6. CASE PreviousSave(r) \/ PreviousTask(r)
  <2>1. \/ Finish(r) \/ Continue(r, req[r].todo)
        \/ req' = [req EXCEPT ![r].pc = "task"]
    BY <1>6, Zenon DEF PreviousSave, PreviousTask
  <2>2. CASE req' = [req EXCEPT ![r].pc = "task"]
    BY <1>0, <2>2 DEF ReqRow, Stays
  <2> QED BY <1>3, <2>1, <2>2
<1> QED BY <1>1, <1>2, <1>4, <1>5, <1>6 DEF RequestStep

LEMMA BeginOp ==
  ASSUME TypeInv, NEW r \in Req, RequestBegins(r)
  PROVE  Begins(r) /\ req[r] = IdleReq
<1>0. req \in [Req -> ReqRow] /\ req[r] \in ReqRow
  BY DEF TypeInv, TypeOK, ReqRow
<1>1. CASE CancelRead(r) \/ ApproveRead(r)
  BY <1>0, <1>1 DEF CancelRead, ApproveRead, ReadJobs, Enter, IdleReq, Begins, Op
<1>2. ASSUME NEW target \in 0 .. NumJobs, RerunStart(r, target) PROVE Begins(r) /\ req[r] = IdleReq
  BY <1>0, <1>2 DEF RerunStart, Enter, IdleReq, Begins, Op
<1>3. CASE AbandonFind(r) \/ PreviousRead(r)
  BY <1>0, <1>3 DEF AbandonFind, PreviousRead, Enter, IdleReq, Begins, Op
<1> QED BY <1>1, <1>2, <1>3 DEF RequestBegins

LEMMA OpChange ==
  ASSUME TypeInv, [Next]_vars, NEW q \in Req
  PROVE  Stays(q) \/ Begins(q)
<1>1. ASSUME NEW t \in TaskId, TaskStep(t) PROVE UNCHANGED req
  BY <1>1 DEF TaskStep, CreateTask, ReportResult, EmitJobsIfReady, EmitFails, StopZombie
<1>2. ASSUME NEW w \in Worker, WorkerStep(w) PROVE UNCHANGED req
  BY <1>2 DEF WorkerStep, EmitterPop, EmitterRead, EmitterResolve, EmitterUpdate
<1>3. ASSUME NEW r \in Req, RequestStep(r) \/ RequestBegins(r) PROVE Stays(q) \/ Begins(q)
  BY <1>3, StepOp, BeginOp DEF Stays, Begins
<1>4. CASE Crash
  BY <1>4 DEF Crash, IdleReq, Stays
<1>5. CASE UNCHANGED req
  BY <1>5 DEF Stays
<1> QED BY <1>1, <1>2, <1>3, <1>4, <1>5 DEF Next, vars

-----------------------------------------------------------------------------
(*                     The saved status of the run                         *)

PreviousStep(r) ==
  \/ \E j \in Job : PreviousJob(r, j)
  \/ PreviousStop(r) \/ PreviousReload(r) \/ PreviousSave(r) \/ PreviousTask(r)

IsPrevious(r) == req[r].op = "previous"

(* The behaviors in which CancelPreviousJobs does not occur, or occurs     *)
(* once and neither is the run's version bumped with no new status - by    *)
(* Approve or by Rerun - nor does the process die.                         *)
Undisturbed ==
  \A b \in Budgets : \/ b["previous"] = 0
                     \/ b["previous"] = 1 /\ b["approve"] = 0 /\ b["rerun"] = 0 /\ b["crash"] = 0

NoPrevious == left["previous"] = 0 /\ \A r \in Req : ~IsPrevious(r)
OnePrevious ==
  /\ left["previous"] <= 1 /\ left["approve"] = 0 /\ left["rerun"] = 0 /\ left["crash"] = 0
  /\ \A r \in Req : req[r].op \notin {"approve", "rerun"}
  /\ \A r, q \in Req : IsPrevious(r) /\ IsPrevious(q) => r = q
  /\ left["previous"] = 1 => \A r \in Req : ~IsPrevious(r)

(* The status that CancelPreviousJobs is about to save under the version   *)
(* it has read is the aggregate: whoever changed a job since has saved the *)
(* run.                                                                    *)
SavesAggregate ==
  \A r \in fresh : IsPrevious(r) /\ req[r].pc = "save" => req[r].run = AggregateJobStatus(StatusOf(jobs))

(* The saved status is the aggregate, or CancelPreviousJobs is going to    *)
(* save it.                                                                *)
Unsaved(r) == IsPrevious(r) /\ (req[r].pc = "reload" \/ (req[r].pc = "save" /\ r \in fresh))
Settling == RunStatusIsAggregate \/ \E r \in Req : Unsaved(r)

SettleInv == TypeInv /\ (NoPrevious \/ OnePrevious) /\ SavesAggregate /\ Settling

LEMMA NoPreviousNext ==
  ASSUME TypeInv, NoPrevious, [Next]_vars
  PROVE  NoPrevious'
<1>0. TypeOK /\ left["previous"] = 0 /\ "previous" \in Op
  BY DEF TypeInv, NoPrevious, Op
<1>1. left'["previous"] = 0 /\ ~Spend("previous")
  BY <1>0, LeftFalls DEF TypeOK
<1>2. ASSUME NEW r \in Req PROVE req'[r].op # "previous"
  <2>1. req[r].op # "previous"
    BY DEF NoPrevious, IsPrevious
  <2> QED BY <1>1, <2>1, OpChange DEF Stays, Begins
<1> QED BY <1>1, <1>2 DEF NoPrevious, IsPrevious

LEMMA OnePreviousNext ==
  ASSUME TypeInv, OnePrevious, [Next]_vars
  PROVE  OnePrevious'
<1>0. TypeOK /\ {"previous", "approve", "rerun", "crash"} \subseteq Op /\ left \in [Op -> Nat]
  BY DEF TypeInv, TypeOK, Op
<1>1. /\ left'["approve"] = 0 /\ left'["rerun"] = 0 /\ left'["crash"] = 0
      /\ ~Spend("approve") /\ ~Spend("rerun")
  BY <1>0, LeftFalls DEF OnePrevious
<1>2. left'["previous"] \in Nat /\ left'["previous"] <= left["previous"]
  BY <1>0, LeftFalls
<1>3. Spend("previous") => left["previous"] = 1 /\ left'["previous"] = 0
  BY <1>0, LeftFalls DEF OnePrevious
<1>4. ASSUME NEW r \in Req PROVE req'[r].op \notin {"approve", "rerun"}
  <2>1. req[r].op \notin {"approve", "rerun"}
    BY DEF OnePrevious
  <2> QED BY <1>1, <2>1, OpChange DEF Stays, Begins
<1>5. ASSUME NEW r \in Req, req'[r].op = "previous"
      PROVE  IsPrevious(r) \/ (Begins(r) /\ Spend("previous"))
  BY <1>5, OpChange DEF Stays, Begins, IsPrevious
<1>6. ASSUME NEW r \in Req, NEW q \in Req, req'[r].op = "previous", req'[q].op = "previous" PROVE r = q
  <2>1. CASE Spend("previous")
    <3>1. \A x \in Req : ~IsPrevious(x)
      BY <1>3, <2>1 DEF OnePrevious
    <3>2. Begins(r)
      BY <1>5, <1>6, <3>1
    <3>3. q # r => req'[q] = req[q]
      BY <3>2 DEF Begins
    <3> QED BY <1>6, <3>1, <3>3 DEF IsPrevious
  <2>2. CASE ~Spend("previous")
    BY <1>5, <1>6, <2>2 DEF OnePrevious
  <2> QED BY <2>1, <2>2
<1>7. ASSUME left'["previous"] = 1, NEW r \in Req PROVE req'[r].op # "previous"
  <2>1. left["previous"] = 1 /\ ~Spend("previous")
    BY <1>0, <1>2, <1>3, <1>7 DEF OnePrevious
  <2> QED BY <1>5, <2>1 DEF OnePrevious
<1>8. left'["previous"] <= 1
  BY <1>0, <1>2 DEF OnePrevious
<1> QED BY <1>1, <1>4, <1>6, <1>7, <1>8 DEF OnePrevious, IsPrevious

(* Every step but one of CancelPreviousJobs saves the aggregate of the     *)
(* jobs it leaves, or changes neither them nor the status; copies of the   *)
(* run get out of date without a save by Approve, Rerun and crashes alone. *)
Saves == run'.status = AggregateJobStatus(StatusOf(jobs')) /\ fresh' = {}
Keeps == /\ UNCHANGED jobs /\ run'.status = run.status
         /\ \A r \in fresh' : r \in fresh \/ req'[r].op = "approve"
         /\ \/ fresh \subseteq fresh'
            \/ left["rerun"] > 0 \/ left["crash"] > 0 \/ \E r \in Req : req[r].op = "approve"

LEMMA SavesOrKeeps ==
  ASSUME TypeInv, [Next]_vars
  PROVE  Saves \/ Keeps \/ \E r \in Req : PreviousStep(r)
<1>0. TypeOK /\ jobs \in [Job -> JobRow] /\ run \in [status : Status, needApproval : BOOLEAN]
  BY DEF TypeInv, TypeOK
<1>1. ASSUME NEW js, UpdateRunJobs(js) PROVE Saves
  BY <1>0, <1>1 DEF UpdateRunJobs, Saves
<1>2. ASSUME UNCHANGED <<jobs, run, fresh>> PROVE Keeps
  BY <1>2 DEF Keeps
<1>3. ASSUME NEW t \in TaskId, TaskStep(t) PROVE Saves \/ Keeps
  BY <1>1, <1>2, <1>3 DEF TaskStep, CreateTask, ReportResult, EmitJobsIfReady, EmitFails, StopZombie
<1>4. ASSUME NEW w \in Worker, WorkerStep(w) PROVE Saves \/ Keeps
  BY <1>1, <1>2, <1>4 DEF WorkerStep, EmitterPop, EmitterRead, EmitterResolve, EmitterUpdate
<1>5. ASSUME NEW r \in Req, ApproveTx(r) PROVE Saves \/ Keeps
  <2> DEFINE start == {j \in Job : Needs[j] = {} /\ req[r].snap[j].status = "blocked"}
  <2>1. CASE ~VersionMatches(r)
    BY <1>2, <1>5, <2>1 DEF ApproveTx
  <2>2. CASE VersionMatches(r)
    <3>1. /\ jobs' = [j \in Job |-> IF j \in start THEN [jobs[j] EXCEPT !.status = "waiting"] ELSE jobs[j]]
          /\ run' = [needApproval |-> FALSE,
                     status |-> IF start = {} THEN run.status ELSE AggregateJobStatus(StatusOf(jobs'))]
          /\ fresh' = {} /\ req[r].op = "approve"
      BY <1>5, <2>2 DEF ApproveTx
    <3> HIDE DEF start
    <3>2. CASE start = {}
      BY <1>0, <3>1, <3>2 DEF Keeps
    <3>3. CASE start # {}
      BY <3>1, <3>3 DEF Saves
    <3> QED BY <3>2, <3>3
  <2> QED BY <2>1, <2>2
<1>6. ASSUME NEW r \in Req, RequestStep(r) PROVE Saves \/ Keeps \/ PreviousStep(r)
  <2>1. CASE CancelTx(r) \/ RerunRead(r)
    BY <1>1, <1>2, <2>1 DEF CancelTx, RerunRead
  <2>2. ASSUME NEW j \in Job, RerunJob(r, j) \/ AbandonJob(r, j) PROVE Saves \/ Keeps
    BY <1>1, <1>2, <2>2 DEF RerunJob, AbandonJob
  <2> QED BY <1>5, <1>6, <2>1, <2>2 DEF RequestStep, PreviousStep
<1>7. ASSUME NEW r \in Req, RequestBegins(r) PROVE Keeps
  <2>1. CASE CancelRead(r) \/ AbandonFind(r) \/ PreviousRead(r)
    BY <1>2, <2>1 DEF CancelRead, AbandonFind, PreviousRead
  <2>2. CASE ApproveRead(r)
    <3>1. req'[r].op = "approve"
      BY <1>0, <2>2 DEF ApproveRead, ReadJobs, Enter, IdleReq, TypeOK
    <3> QED BY <2>2, <3>1 DEF ApproveRead, Keeps
  <2>3. ASSUME NEW target \in 0 .. NumJobs, RerunStart(r, target) PROVE Keeps
    BY <2>3 DEF RerunStart, Keeps, Enter, Spend
  <2> QED BY <1>7, <2>1, <2>2, <2>3 DEF RequestBegins
<1>8. CASE Crash
  BY <1>8 DEF Crash, Keeps, Spend
<1> QED BY <1>2, <1>3, <1>4, <1>6, <1>7, <1>8 DEF Next, vars

(* CancelPreviousJobs of a run goes on by its own steps only.              *)
LEMMA PreviousWaits ==
  ASSUME TypeInv, [Next]_vars, NEW q \in Req, IsPrevious(q), left["crash"] = 0
  PROVE  req'[q] = req[q] \/ PreviousStep(q)
<1>1. ASSUME NEW t \in TaskId, TaskStep(t) PROVE UNCHANGED req
  BY <1>1 DEF TaskStep, CreateTask, ReportResult, EmitJobsIfReady, EmitFails, StopZombie
<1>2. ASSUME NEW w \in Worker, WorkerStep(w) PROVE UNCHANGED req
  BY <1>2 DEF WorkerStep, EmitterPop, EmitterRead, EmitterResolve, EmitterUpdate
<1>3. ASSUME NEW r \in Req, RequestStep(r) PROVE req'[q] = req[q] \/ PreviousStep(q)
  <2>1. CASE r = q
    BY <1>3, <2>1 DEF RequestStep, PreviousStep, IsPrevious, CancelTx, ApproveTx, RerunRead, RerunJob, AbandonJob
  <2> QED BY <1>3, <2>1, StepOp
<1>4. ASSUME NEW r \in Req, RequestBegins(r) PROVE req'[q] = req[q]
  BY <1>4, BeginOp DEF Begins, IsPrevious, IdleReq
<1>5. ~Crash
  BY DEF Crash, Spend
<1> QED BY <1>1, <1>2, <1>3, <1>4, <1>5 DEF Next, vars

LEMMA PreviousSettles ==
  ASSUME SettleInv, OnePrevious, NEW r \in Req, PreviousStep(r)
  PROVE  SavesAggregate' /\ Settling'
<1>0. /\ TypeOK /\ req \in [Req -> ReqRow] /\ req[r] \in ReqRow /\ fresh \subseteq Req
      /\ run \in [status : Status, needApproval : BOOLEAN]
  BY DEF SettleInv, TypeInv, TypeOK, ReqRow
<1>1. IsPrevious(r) /\ \A q \in Req : IsPrevious(q) => q = r
  BY DEF PreviousStep, PreviousJob, PreviousStop, PreviousReload, PreviousSave, PreviousTask, IsPrevious, OnePrevious
<1>2. \A q \in Req \ {r} : req'[q] = req[q]
  BY StepOp DEF PreviousStep, RequestStep, SettleInv
<1>3. fresh' \subseteq Req
  BY <1>0 DEF PreviousStep, PreviousJob, PreviousStop, PreviousReload, PreviousSave, PreviousTask
<1>4. ASSUME req'[r].pc # "save" PROVE SavesAggregate'
  BY <1>1, <1>2, <1>3, <1>4 DEF SavesAggregate, IsPrevious
<1>5. ASSUME req'[r].op = "previous", req'[r].pc = "reload" PROVE SavesAggregate' /\ Settling'
  BY <1>4, <1>5 DEF Settling, Unsaved, IsPrevious
<1>6. ASSUME UNCHANGED jobs, run'.status = run.status, ~Unsaved(r) PROVE Settling'
  <2>1. RunStatusIsAggregate
    BY <1>1, <1>6 DEF SettleInv, Settling, Unsaved
  <2> QED BY <1>6, <2>1 DEF Settling, RunStatusIsAggregate
<1>7. ASSUME NEW j \in Job, PreviousJob(r, j) PROVE SavesAggregate' /\ Settling'
  <2>1. CASE req' = [req EXCEPT ![r].pc = "reload", ![r].cur = j, ![r].todo = @ \ {j}]
    <3>1. req'[r].op = "previous" /\ req'[r].pc = "reload"
      BY <1>0, <1>1, <2>1 DEF ReqRow, IsPrevious
    <3> QED BY <1>5, <3>1
  <2>2. CASE req' # [req EXCEPT ![r].pc = "reload", ![r].cur = j, ![r].todo = @ \ {j}]
    <3>1. UNCHANGED jobs /\ UNCHANGED run /\ ~Unsaved(r)
      BY <1>7, <2>2, Zenon DEF PreviousJob, Unsaved
    <3>2. req'[r].pc # "save"
      <4>1. CASE req' = [req EXCEPT ![r].pc = "stop", ![r].cur = j, ![r].todo = @ \ {j}]
        BY <1>0, <4>1 DEF ReqRow
      <4> QED BY <1>0, <1>7, <2>2, <4>1, PreviousJobReq, LeavesSave
    <3> QED BY <1>4, <1>6, <3>1, <3>2
  <2> QED BY <2>1, <2>2
<1>8. CASE PreviousStop(r)
  <2>1. req'[r].op = "previous" /\ req'[r].pc = "reload"
    BY <1>0, <1>1, <1>8 DEF PreviousStop, ReqRow, IsPrevious
  <2> QED BY <1>5, <2>1
<1>9. CASE PreviousReload(r)
  <2>1. /\ req'[r].op = "previous" /\ req'[r].pc = "save" /\ r \in fresh' /\ UNCHANGED jobs
        /\ req'[r].run = AggregateJobStatus(StatusOf(jobs'))
    BY <1>0, <1>1, <1>9 DEF PreviousReload, ReqRow, IsPrevious
  <2>2. SavesAggregate'
    BY <1>1, <1>2, <1>3, <2>1 DEF SavesAggregate, IsPrevious
  <2> QED BY <2>1, <2>2 DEF Settling, Unsaved, IsPrevious
<1>10. CASE PreviousSave(r)
  <2>1. req'[r].pc # "save"
    <3>1. Finish(r) \/ Continue(r, req[r].todo) \/ req' = [req EXCEPT ![r].pc = "task"]
      BY <1>10, Zenon DEF PreviousSave
    <3>2. CASE req' = [req EXCEPT ![r].pc = "task"]
      BY <1>0, <3>2 DEF ReqRow
    <3> QED BY <1>0, <3>1, <3>2, LeavesSave
  <2>2. CASE VersionMatches(r)
    <3>1. run'.status = req[r].run /\ UNCHANGED jobs
      BY <1>0, <1>10, <2>2 DEF PreviousSave
    <3>2. req[r].run = AggregateJobStatus(StatusOf(jobs))
      BY <1>1, <1>10, <2>2 DEF SettleInv, SavesAggregate, PreviousSave, VersionMatches
    <3>3. RunStatusIsAggregate'
      BY <3>1, <3>2 DEF RunStatusIsAggregate
    <3> QED BY <1>4, <2>1, <3>3 DEF Settling
  <2>3. CASE ~VersionMatches(r)
    <3>1. UNCHANGED jobs /\ run'.status = run.status /\ ~Unsaved(r)
      BY <1>10, <2>3 DEF PreviousSave, VersionMatches, Unsaved
    <3> QED BY <1>4, <1>6, <2>1, <3>1
  <2> QED BY <2>2, <2>3
<1>11. CASE PreviousTask(r)
  <2>1. req'[r].pc # "save"
    BY <1>0, <1>11, LeavesSave DEF PreviousTask
  <2>2. UNCHANGED jobs /\ run'.status = run.status /\ ~Unsaved(r)
    BY <1>11 DEF PreviousTask, Unsaved
  <2> QED BY <1>4, <1>6, <2>1, <2>2
<1> QED BY <1>7, <1>8, <1>9, <1>10, <1>11 DEF PreviousStep

(* CancelPreviousJobs begins with its list of jobs.                        *)
LEMMA EntersPrevious ==
  ASSUME TypeInv, [Next]_vars, NEW q \in Req, ~IsPrevious(q), req'[q].op = "previous"
  PROVE  req'[q].pc = "jobs"
<1>0. req \in [Req -> ReqRow]
  BY DEF TypeInv, TypeOK, ReqRow
<1>1. ASSUME NEW t \in TaskId, TaskStep(t) PROVE UNCHANGED req
  BY <1>1 DEF TaskStep, CreateTask, ReportResult, EmitJobsIfReady, EmitFails, StopZombie
<1>2. ASSUME NEW w \in Worker, WorkerStep(w) PROVE UNCHANGED req
  BY <1>2 DEF WorkerStep, EmitterPop, EmitterRead, EmitterResolve, EmitterUpdate
<1>3. ASSUME NEW r \in Req, RequestStep(r) PROVE FALSE
  BY <1>3, StepOp DEF Stays, IsPrevious
<1>4. ASSUME NEW r \in Req, RequestBegins(r) PROVE req'[q].pc = "jobs"
  <2>1. r = q
    BY <1>4, BeginOp DEF Begins, IsPrevious
  <2>2. CASE PreviousRead(q)
    BY <1>0, <2>2 DEF PreviousRead, Enter
  <2>3. CASE ~PreviousRead(q)
    BY <1>0, <1>4, <2>1, <2>3 DEF RequestBegins, CancelRead, ApproveRead, ReadJobs, RerunStart, AbandonFind, Enter, IdleReq
  <2> QED BY <2>2, <2>3
<1>5. ~Crash
  BY DEF Crash, IdleReq
<1> QED BY <1>1, <1>2, <1>3, <1>4, <1>5 DEF Next, vars, IsPrevious

LEMMA OthersSettle ==
  ASSUME SettleInv, [Next]_vars, Saves \/ Keeps, \A r \in Req : ~PreviousStep(r)
  PROVE  SavesAggregate' /\ Settling'
<1>0. TypeInv /\ TypeOK'
  BY TypeNext DEF SettleInv
<1>1. CASE Saves
  BY <1>1 DEF Saves, SavesAggregate, Settling, RunStatusIsAggregate
<1>2. CASE Keeps /\ NoPrevious
  <2>1. RunStatusIsAggregate
    BY <1>2 DEF SettleInv, Settling, Unsaved, NoPrevious
  <2>2. Settling'
    BY <1>2, <2>1 DEF Keeps, Settling, RunStatusIsAggregate
  <2>3. SavesAggregate'
    <3>1. NoPrevious' /\ fresh' \subseteq Req
      BY <1>0, <1>2, NoPreviousNext DEF TypeOK
    <3> QED BY <3>1 DEF NoPrevious, SavesAggregate, IsPrevious
  <2> QED BY <2>2, <2>3
<1>3. CASE Keeps /\ OnePrevious
  <2>1. /\ UNCHANGED jobs /\ run'.status = run.status
        /\ \A r \in fresh' : r \in fresh \/ req'[r].op = "approve"
        /\ fresh \subseteq fresh' /\ left["crash"] = 0
    BY <1>3 DEF Keeps, OnePrevious
  <2>2. \A r \in Req : IsPrevious(r) => req'[r] = req[r]
    BY <1>0, <2>1, PreviousWaits
  <2>3. ASSUME NEW r \in fresh', req'[r].op = "previous", req'[r].pc = "save"
        PROVE  req'[r].run = AggregateJobStatus(StatusOf(jobs'))
    <3>1. r \in Req /\ r \in fresh
      BY <1>0, <2>1, <2>3 DEF TypeOK
    <3>2. CASE IsPrevious(r)
      BY <2>1, <2>2, <2>3, <3>1, <3>2 DEF SettleInv, SavesAggregate
    <3>3. CASE ~IsPrevious(r)
      <4>1. req'[r].pc = "jobs"
        BY <1>0, <2>3, <3>1, <3>3, EntersPrevious
      <4> QED BY <2>3, <4>1
    <3> QED BY <3>2, <3>3
  <2>4. SavesAggregate'
    BY <2>3 DEF SavesAggregate, IsPrevious
  <2>5. Settling'
    <3>1. CASE RunStatusIsAggregate
      BY <2>1, <3>1 DEF Settling, RunStatusIsAggregate
    <3>2. ASSUME NEW r \in Req, Unsaved(r) PROVE Settling'
      <4>1. req'[r] = req[r]
        BY <2>2, <3>2 DEF Unsaved
      <4> QED BY <2>1, <3>2, <4>1 DEF Unsaved, IsPrevious, Settling
    <3> QED BY <3>1, <3>2 DEF SettleInv, Settling
  <2> QED BY <2>4, <2>5
<1> QED BY <1>1, <1>2, <1>3 DEF SettleInv

LEMMA SettleInit ==
  ASSUME Undisturbed, Init
  PROVE  SettleInv
<1>1. TypeInv
  BY TypeInit DEF TypeInv, Init, UpdatesDecided, SavesStatus, IdleWorker, IdleReq
<1>2. \A r \in Req : req[r].op = "idle"
  BY DEF Init, IdleReq
<1>3. PICK b \in Budgets : left = b
  BY DEF Init
<1>4. NoPrevious \/ OnePrevious
  <2>1. CASE b["previous"] = 0
    BY <1>2, <1>3, <2>1 DEF NoPrevious, IsPrevious
  <2>2. CASE b["previous"] # 0
    BY <1>2, <1>3, <2>2 DEF Undisturbed, OnePrevious, IsPrevious
  <2> QED BY <2>1, <2>2
<1>5. SavesAggregate
  BY DEF Init, SavesAggregate
<1>6. Settling
  BY DEF Init, Settling, RunStatusIsAggregate
<1> QED BY <1>1, <1>4, <1>5, <1>6 DEF SettleInv

LEMMA SettleNext ==
  ASSUME SettleInv, [Next]_vars
  PROVE  SettleInv'
<1>1. TypeInv'
  BY TypeNext, UpdatesDecidedNext, SavesStatusNext DEF SettleInv, TypeInv
<1>2. NoPrevious' \/ OnePrevious'
  BY NoPreviousNext, OnePreviousNext DEF SettleInv
<1>3. SavesAggregate' /\ Settling'
  <2>1. ASSUME NEW r \in Req, PreviousStep(r) PROVE SavesAggregate' /\ Settling'
    <3>1. IsPrevious(r)
      BY <2>1 DEF PreviousStep, PreviousJob, PreviousStop, PreviousReload, PreviousSave, PreviousTask, IsPrevious
    <3>2. OnePrevious
      BY <3>1 DEF SettleInv, NoPrevious
    <3> QED BY <2>1, <3>2, PreviousSettles
  <2>2. CASE \A r \in Req : ~PreviousStep(r)
    BY <2>2, SavesOrKeeps, OthersSettle DEF SettleInv
  <2> QED BY <2>1, <2>2
<1> QED BY <1>1, <1>2, <1>3 DEF SettleInv

LEMMA SettleInductive == Undisturbed => (Spec => []SettleInv)
<1> SUFFICES ASSUME Undisturbed PROVE Spec => []SettleInv
  OBVIOUS
<1>1. Init => SettleInv
  BY SettleInit
<1>2. SettleInv /\ [Next]_vars => SettleInv'
  BY SettleNext
<1> QED BY <1>1, <1>2, PTL DEF Spec

(* The optimistic lock makes the run's status settle although              *)
(* CancelPreviousJobs reads and saves it without a transaction: when its   *)
(* save fails, the writer it lost against has saved the aggregate.  With   *)
(* two of them at once, a crash, or an Approve or a Rerun that bumps the   *)
(* version and saves no status, this is not so.                            *)
THEOREM RunStatusSettlesHolds == Undisturbed => (Spec => []RunStatusSettles)
<1> SUFFICES ASSUME Undisturbed PROVE Spec => []RunStatusSettles
  OBVIOUS
<1>1. SettleInv => RunStatusSettles
  BY DEF SettleInv, Settling, Unsaved, IsPrevious, RunStatusSettles
<1> QED BY <1>1, SettleInductive, PTL

(* Without CancelPreviousJobs every transaction leaves the run with the    *)
(* aggregate of its jobs, the sweep of abandoned jobs included.            *)
THEOREM AggregateHolds ==
  (\A b \in Budgets : b["previous"] = 0) => (Spec => []RunStatusIsAggregate)
<1> SUFFICES ASSUME \A b \in Budgets : b["previous"] = 0 PROVE Spec => []RunStatusIsAggregate
  OBVIOUS
<1>1. Spec => []SettleInv
  BY SettleInductive DEF Undisturbed
<1>2. Init => NoPrevious
  BY DEF Init, NoPrevious, IsPrevious, IdleReq
<1>3. SettleInv /\ NoPrevious /\ [Next]_vars => NoPrevious'
  BY NoPreviousNext DEF SettleInv
<1>4. SettleInv /\ NoPrevious => RunStatusIsAggregate
  BY DEF SettleInv, Settling, Unsaved, NoPrevious
<1> QED BY <1>1, <1>2, <1>3, <1>4, PTL DEF Spec
=============================================================================
