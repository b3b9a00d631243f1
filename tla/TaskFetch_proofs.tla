-------------------------- MODULE TaskFetch_proofs --------------------------
(* Theorems about TaskFetch for any number of runners, jobs, owners and    *)
(* repositories, and any labels.                                           *)
EXTENDS TaskFetch, TLAPS

LEMMA SpendType ==
  ASSUME left \in [Event -> Nat], NEW e \in Event, Spend(e)
  PROVE  left' \in [Event -> Nat]
BY DEF Spend

LEMMA VersionsGrow ==
  ASSUME version \in [Owners \X Repos -> 0..MaxVersion], NEW s, IncreaseTaskVersion(s)
  PROVE  /\ version' \in [Owners \X Repos -> 0..MaxVersion]
         /\ \A t \in Owners \X Repos :
              /\ version[t] <= version'[t]
              /\ t \in VersionRows(s[1], s[2]) /\ version[t] < MaxVersion => version[t] < version'[t]
              /\ t \in VersionRows(s[1], s[2]) => version'[t] >= 1
BY JobsAssumption DEF IncreaseTaskVersion

LEMMA IdleType == IdleRunner \in RunnerRow /\ \A k \in 0..MaxVersion : [IdleRunner EXCEPT !.known = k] \in RunnerRow
BY JobsAssumption DEF IdleRunner, RunnerRow

LEMMA GoesType ==
  ASSUME runner \in [Runner -> RunnerRow], NEW r \in Runner, NEW pc \in {"reply", "pick"}, Goes(r, pc)
  PROVE  runner' \in [Runner -> RunnerRow]
<1>1. [runner[r] EXCEPT !.pc = pc] \in RunnerRow
  BY DEF RunnerRow
<1> QED BY <1>1 DEF Goes

(* A step of a runner, its call in the server included, keeps the types.   *)
LEMMA RunnerTypes ==
  ASSUME TypeOK, NEW r \in Runner, RunnerStep(r) \/ Lose(r) \/ Restart(r)
  PROVE  TypeOK'
<1> USE DEF TypeOK
<1>0. /\ runner[r] \in RunnerRow /\ scope[r] \in Owners \X Repos /\ version[scope[r]] \in 0..MaxVersion
      /\ 1 \in 0..MaxVersion
  BY JobsAssumption
<1>1. CASE FetchTask(r)
  <2>1. \A pc \in {"increase", "pick", "reply"} :
          [runner[r] EXCEPT !.latest = version[scope[r]], !.pc = pc] \in RunnerRow
    BY <1>0 DEF RunnerRow
  <2> QED BY <1>1, <2>1 DEF FetchTask, PickUnlessCurrent
<1>2. CASE FetchFirst(r)
  <2>1. \A pc \in {"pick", "reply"} : [runner[r] EXCEPT !.latest = 1, !.pc = pc] \in RunnerRow
    BY <1>0 DEF RunnerRow
  <2> QED BY <1>2, <2>1, VersionsGrow DEF FetchFirst, PickUnlessCurrent
<1>3. CASE SelectJob(r)
  <2>1. \A j \in Job : [runner[r] EXCEPT !.pc = "update", !.job = j] \in RunnerRow
    BY <1>0 DEF RunnerRow
  <2> QED BY <1>3, <2>1, GoesType DEF SelectJob, Candidates
<1>4. CASE CreateTask(r)
  <2>1. CASE Free(runner[r].job)
    <3>1. runner' \in [Runner -> RunnerRow]
      BY <1>4, <2>1, GoesType DEF CreateTask
    <3>2. [status |-> "running", runner |-> r] \in JobRow
      BY DEF JobRow
    <3> QED BY <1>4, <2>1, <3>1, <3>2 DEF CreateTask
  <2>2. CASE ~Free(runner[r].job)
    <3>1. [runner[r] EXCEPT !.pc = "reply", !.job = NoJob] \in RunnerRow
      BY <1>0 DEF RunnerRow
    <3> QED BY <1>4, <2>2, <3>1 DEF CreateTask
  <2> QED BY <2>1, <2>2
<1>5. CASE Receive(r)
  <2>1. Seen(r) \in 0..MaxVersion
    BY <1>0 DEF Seen, TasksVersion, RunnerRow
  <2>2. \A pc \in {"work", "idle"}, k, l \in 0..MaxVersion :
          [runner[r] EXCEPT !.pc = pc, !.known = k, !.latest = l] \in RunnerRow
    BY <1>0 DEF RunnerRow
  <2>3. PICK pc \in {"work", "idle"}, k \in {0, Seen(r)} :
          runner' = [runner EXCEPT ![r].pc = pc, ![r].known = k, ![r].latest = 0]
    BY <1>5 DEF Receive
  <2>4. k \in 0..MaxVersion /\ 0 \in 0..MaxVersion
    BY <2>1, JobsAssumption
  <2>5. [runner[r] EXCEPT !.pc = pc, !.known = k, !.latest = 0] \in RunnerRow
    BY <2>2, <2>4
  <2>6. runner' \in [Runner -> RunnerRow]
    BY <2>3, <2>5
  <2> QED BY <1>5, <2>6 DEF Receive
<1>6. CASE Report(r)
  <2>1. [runner[r] EXCEPT !.pc = "idle", !.job = NoJob] \in RunnerRow
    BY <1>0 DEF RunnerRow
  <2>2. \A j \in Job : [job[j] EXCEPT !.status = "done"] \in JobRow
    BY DEF JobRow
  <2> QED BY <1>6, <2>1, <2>2 DEF Report
<1>7. CASE Lose(r)
  <2>1. runner[r].known \in 0..MaxVersion
    BY <1>0 DEF RunnerRow
  <2> QED BY <1>7, <2>1, IdleType, SpendType DEF Lose, Event
<1>8. CASE Restart(r)
  BY <1>8, IdleType, SpendType DEF Restart, Event
<1> QED BY <1>1, <1>2, <1>3, <1>4, <1>5, <1>6, <1>7, <1>8 DEF RunnerStep

LEMMA JobTypes ==
  ASSUME TypeOK, NEW j \in Job, UpdateRunJob(j) \/ Cancel(j) \/ StopZombie(j)
  PROVE  TypeOK'
<1> USE DEF TypeOK
<1>1. CASE UpdateRunJob(j)
  <2>1. [status |-> "waiting", runner |-> Nobody] \in JobRow
    BY DEF JobRow
  <2> QED BY <1>1, <2>1, SpendType, VersionsGrow DEF UpdateRunJob, Event
<1>2. CASE Cancel(j) \/ StopZombie(j)
  <2>1. [job[j] EXCEPT !.status = "done"] \in JobRow
    BY DEF JobRow
  <2> QED BY <1>2, <2>1, SpendType DEF Cancel, StopZombie, Event
<1> QED BY <1>1, <1>2

LEMMA TypesKept == ASSUME TypeOK, [Next]_vars PROVE TypeOK'
<1>1. CASE UNCHANGED vars
  BY <1>1 DEF vars, TypeOK
<1> QED BY <1>1, RunnerTypes, JobTypes DEF Next

LEMMA TypesStart == Init => TypeOK
BY StartAssumption, JobsAssumption, IdleType DEF Init, TypeOK, JobRow

(* Rows of versions and jobs and what the runners keep have their shapes,  *)
(* whatever is lost or restarted.                                          *)
THEOREM TypeOKHolds == Spec => []TypeOK
BY TypesStart, TypesKept, PTL DEF Spec
-----------------------------------------------------------------------------
(* A runner that has been given a job, or is about to be told of it, is    *)
(* the one its row names.                                                  *)
Has(r) == runner[r].pc \in {"reply", "work"} /\ runner[r].job # NoJob
Owned ==
  \A r \in Runner :
    /\ runner[r].pc \in {"update", "work"} => runner[r].job \in Job
    /\ runner[r].pc \in {"idle", "increase", "pick"} => runner[r].job = NoJob
    /\ Has(r) => job[runner[r].job] = [status |-> "running", runner |-> r]

(* What each step does to the runners and to the jobs that have one.       *)
LEMMA JobOwned ==
  ASSUME TypeOK, Owned, NEW j \in Job, UpdateRunJob(j) \/ Cancel(j) \/ StopZombie(j)
  PROVE  Owned'
<1>1. /\ \A k \in Job : k # j => job'[k] = job[k]
      /\ UNCHANGED runner
      /\ job[j].status # "running" \/ runner[job[j].runner].job # j
  BY DEF UpdateRunJob, Cancel, StopZombie, TypeOK
<1>2. ASSUME NEW r \in Runner, Has(r) PROVE runner[r].job # j /\ runner[r].job \in Job
  <2>1. job[runner[r].job] = [status |-> "running", runner |-> r] /\ runner[r].job \in Job
    BY <1>2 DEF Owned, TypeOK, RunnerRow, Has
  <2> QED BY <1>1, <2>1
<1> QED BY <1>1, <1>2 DEF Owned, Has

(* A step of one runner that leaves the jobs alone.                        *)
LEMMA OwnedMoves ==
  ASSUME Owned, NEW r \in Runner, UNCHANGED job, \A q \in Runner : q # r => runner'[q] = runner[q],
         runner'[r].pc \in {"update", "work"} => runner'[r].job \in Job,
         runner'[r].pc \in {"idle", "increase", "pick"} => runner'[r].job = NoJob,
         Has(r)' => Has(r) /\ runner'[r].job = runner[r].job
  PROVE  Owned'
BY DEF Owned, Has

(* A step of one runner that changes a job no other runner has.            *)
LEMMA OwnedChanges ==
  ASSUME TypeOK, Owned, NEW r \in Runner, NEW j \in Job,
         \A q \in Runner : q # r => runner'[q] = runner[q],
         \A k \in Job : k # j => job'[k] = job[k],
         \A q \in Runner : q # r /\ Has(q) => runner[q].job # j,
         runner'[r].pc \in {"update", "work"} => runner'[r].job \in Job,
         runner'[r].pc \in {"idle", "increase", "pick"} => runner'[r].job = NoJob,
         Has(r)' => job'[runner'[r].job] = [status |-> "running", runner |-> r]
  PROVE  Owned'
<1>1. ASSUME NEW q \in Runner, q # r, Has(q) PROVE job'[runner[q].job] = [status |-> "running", runner |-> q]
  <2>1. runner[q].job \in Job /\ runner[q].job # j
    BY <1>1 DEF TypeOK, RunnerRow, Has
  <2> QED BY <1>1, <2>1 DEF Owned
<1> QED BY <1>1 DEF Owned, Has

LEMMA RunnerOwned ==
  ASSUME TypeOK, Owned, NEW r \in Runner, RunnerStep(r) \/ Lose(r) \/ Restart(r)
  PROVE  Owned'
<1>0. runner \in [Runner -> RunnerRow] /\ runner[r] \in RunnerRow /\ job \in [Job -> JobRow] /\ NoJob \notin Job
  BY JobsAssumption DEF TypeOK
<1>1. \A q \in Runner : q # r => runner'[q] = runner[q]
  BY <1>0 DEF RunnerStep, FetchTask, FetchFirst, SelectJob, CreateTask, Receive, Report, Lose, Restart, Goes
<1>2. CASE FetchTask(r) \/ FetchFirst(r)
  <2>1. /\ runner'[r].pc \in {"increase", "pick", "reply"} /\ runner'[r].job = runner[r].job /\ job' = job
        /\ runner[r].pc \in {"idle", "increase"}
    BY <1>0, <1>2 DEF FetchTask, FetchFirst, PickUnlessCurrent, RunnerRow
  <2> QED BY <1>1, <2>1, OwnedMoves DEF Owned, Has
<1>3. CASE SelectJob(r)
  <2>1. CASE Goes(r, "reply")
    BY <1>0, <1>1, <1>3, <2>1, OwnedMoves DEF SelectJob, Goes, RunnerRow, Owned, Has
  <2>2. CASE \E j \in Candidates(r) : runner' = [runner EXCEPT ![r].pc = "update", ![r].job = j]
    <3>1. PICK j \in Job : runner' = [runner EXCEPT ![r].pc = "update", ![r].job = j]
      BY <2>2 DEF Candidates
    <3>2. runner'[r].pc = "update" /\ runner'[r].job = j
      BY <1>0, <3>1 DEF RunnerRow
    <3>3. job' = job
      BY <1>3 DEF SelectJob
    <3> QED BY <1>1, <3>2, <3>3, OwnedMoves DEF Has
  <2> QED BY <1>3, <2>1, <2>2 DEF SelectJob
<1>4. CASE CreateTask(r)
  <2>1. PICK j \in Job : runner[r].job = j /\ runner[r].pc = "update"
    BY <1>4 DEF CreateTask, Owned
  <2>2. CASE ~Free(j)
    BY <1>0, <1>1, <1>4, <2>1, <2>2, OwnedMoves DEF CreateTask, RunnerRow, Has
  <2>3. CASE Free(j)
    <3>1. /\ job' = [job EXCEPT ![j] = [status |-> "running", runner |-> r]]
          /\ runner'[r].pc = "reply" /\ runner'[r].job = j
      BY <1>0, <1>4, <2>1, <2>3 DEF CreateTask, Goes, RunnerRow
    <3>2. ASSUME NEW q \in Runner, q # r, Has(q) PROVE runner[q].job # j
      <4>1. job[runner[q].job] = [status |-> "running", runner |-> q]
        BY <3>2 DEF Owned
      <4>2. job[j].runner = Nobody /\ q # Nobody
        BY <2>3, JobsAssumption DEF Free
      <4> QED BY <4>1, <4>2
    <3>3. job'[j] = [status |-> "running", runner |-> r] /\ \A k \in Job : k # j => job'[k] = job[k]
      BY <1>0, <3>1
    <3> QED BY <1>1, <2>1, <3>1, <3>2, <3>3, OwnedChanges
  <2> QED BY <2>2, <2>3
<1>5. CASE Receive(r)
  <2>1. /\ runner[r].pc = "reply" /\ runner'[r].job = runner[r].job /\ job' = job
        /\ runner'[r].pc = IF runner[r].job # NoJob THEN "work" ELSE "idle"
    BY <1>0, <1>5 DEF Receive, RunnerRow
  <2>2. runner[r].job \in Job \cup {NoJob}
    BY <1>0 DEF RunnerRow
  <2> QED BY <1>0, <1>1, <2>1, <2>2, OwnedMoves DEF Has
<1>6. CASE Report(r)
  <2>1. PICK j \in Job : runner[r].job = j /\ runner[r].pc = "work"
    BY <1>6 DEF Report, Owned
  <2>2. /\ job' = [job EXCEPT ![j].status = "done"]
        /\ runner'[r].pc = "idle" /\ runner'[r].job = NoJob
    BY <1>0, <1>6, <2>1 DEF Report, RunnerRow
  <2>3. ASSUME NEW q \in Runner, q # r, Has(q) PROVE runner[q].job # j
    <3>1. job[runner[q].job] = [status |-> "running", runner |-> q]
      BY <2>3 DEF Owned
    <3>2. job[j] = [status |-> "running", runner |-> r]
      BY <1>0, <2>1 DEF Owned, Has
    <3> QED BY <2>3, <3>1, <3>2
  <2>4. \A k \in Job : k # j => job'[k] = job[k]
    BY <1>0, <2>2
  <2>5. ~Has(r)'
    BY <2>2 DEF Has
  <2>6. /\ runner'[r].pc \in {"update", "work"} => runner'[r].job \in Job
        /\ runner'[r].pc \in {"idle", "increase", "pick"} => runner'[r].job = NoJob
    BY <2>2
  <2> HIDE <2>2
  <2> QED BY <1>1, <2>1, <2>3, <2>4, <2>5, <2>6, OwnedChanges
<1>7. CASE Lose(r) \/ Restart(r)
  BY <1>0, <1>1, <1>7, OwnedMoves DEF Lose, Restart, IdleRunner, Has
<1> QED BY <1>2, <1>3, <1>4, <1>5, <1>6, <1>7 DEF RunnerStep

(* What a runner works on has its own task, whatever answers were lost,    *)
(* however often the job waited again, and whether transactions overlap or *)
(* not.                                                                    *)
THEOREM OneRunnerPerJobHolds == Spec => []OneRunnerPerJob
<1>1. Init => TypeOK /\ Owned
  BY TypesStart DEF Init, Owned, Has, IdleRunner
<1>2. TypeOK /\ Owned /\ [Next]_vars => (TypeOK /\ Owned)'
  <2>1. TypeOK /\ Owned /\ UNCHANGED vars => Owned'
    BY DEF vars, Owned, Has
  <2> QED BY <2>1, TypesKept, JobOwned, RunnerOwned DEF Next
<1>3. Owned => OneRunnerPerJob
  BY JobsAssumption DEF Owned, Has, OneRunnerPerJob
<1> QED BY <1>1, <1>2, <1>3, PTL DEF Spec
-----------------------------------------------------------------------------
(* Only one-sided scopes have a row that moves; their runners never know a *)
(* greater version than the row's, and one that knows the row's version,   *)
(* or is about to be told it without a job, finds nothing to run.  With    *)
(* exclusive transactions no job is taken between its selection and its    *)
(* update, so a runner is sent away without a job only if there is none.   *)
Current(r, k) == k = version[scope[r]] /\ k \in 1 .. MaxVersion - 1
Told(r) ==
  /\ ~OneSided(scope[r]) => version[scope[r]] = 0
  /\ OneSided(scope[r]) => runner[r].known <= version[scope[r]] /\ runner[r].latest <= version[scope[r]]
  /\ Current(r, runner[r].known) => Candidates(r) = {}
  /\ runner[r].pc = "reply" /\ runner[r].job = NoJob /\ Current(r, runner[r].latest) => Candidates(r) = {}
Alone(r) ==
  runner[r].pc = "update" =>
    Free(runner[r].job) /\ \A q \in Runner : runner[q].pc = "update" => q = r
NothingMissed == exclusive => \A r \in Runner : Told(r) /\ Alone(r)

(* What a step means to a runner: its row does not fall, and it moves or   *)
(* stays at the bound if there is one more job for the runner.             *)
Grows(r) ==
  /\ UNCHANGED scope
  /\ version'[scope[r]] \in version[scope[r]] .. MaxVersion
  /\ ~OneSided(scope[r]) => version'[scope[r]] = version[scope[r]]
  /\ OneSided(scope[r]) =>
       \/ Candidates(r)' \subseteq Candidates(r)
       \/ version'[scope[r]] > version[scope[r]]
       \/ version'[scope[r]] = MaxVersion

LEMMA RowType ==
  ASSUME TypeOK, NEW r \in Runner
  PROVE  /\ runner[r] \in RunnerRow /\ scope[r] \in Owners \X Repos /\ version[scope[r]] \in 0..MaxVersion
         /\ runner[r].known \in 0..MaxVersion /\ runner[r].latest \in 0..MaxVersion
BY DEF TypeOK, RunnerRow

LEMMA Increases ==
  ASSUME TypeOK, UNCHANGED scope, NEW r \in Runner, NEW s, IncreaseTaskVersion(s)
  PROVE  /\ version'[scope[r]] \in version[scope[r]] .. MaxVersion
         /\ ~OneSided(scope[r]) => version'[scope[r]] = version[scope[r]]
         /\ scope[r] \in VersionRows(s[1], s[2]) =>
              /\ version'[scope[r]] >= 1
              /\ version'[scope[r]] > version[scope[r]] \/ version'[scope[r]] = MaxVersion
<1>1. scope[r] \in Owners \X Repos /\ version[scope[r]] \in 0..MaxVersion
  BY RowType
<1>2. /\ version' \in [Owners \X Repos -> 0..MaxVersion]
      /\ version[scope[r]] <= version'[scope[r]]
      /\ scope[r] \in VersionRows(s[1], s[2]) /\ version[scope[r]] < MaxVersion => version[scope[r]] < version'[scope[r]]
      /\ scope[r] \in VersionRows(s[1], s[2]) => version'[scope[r]] >= 1
  BY <1>1, VersionsGrow DEF TypeOK
<1>3. version'[scope[r]] \in 0..MaxVersion
  BY <1>1, <1>2
<1>4. ASSUME ~OneSided(scope[r]) PROVE version'[scope[r]] = version[scope[r]]
  <2>1. scope[r] \notin VersionRows(s[1], s[2])
    BY <1>4 DEF OneSided, VersionRows
  <2> QED BY <1>1, <2>1 DEF IncreaseTaskVersion, TypeOK
<1> QED BY <1>1, <1>2, <1>3, <1>4, JobsAssumption

(* The rows of a job cover every one-sided scope the job is in.            *)
LEMMA RowsCover ==
  ASSUME TypeOK, NEW r \in Runner, NEW j \in Job, InScope(r, j), OneSided(scope[r])
  PROVE  scope[r] \in VersionRows(JobScope[j][1], JobScope[j][2])
<1>1. scope[r] = <<scope[r][1], scope[r][2]>>
  BY RowType
<1>2. CASE scope[r][2] # 0
  BY <1>1, <1>2 DEF InScope, VersionRows, OneSided
<1>3. CASE scope[r][2] = 0
  BY <1>1, <1>3 DEF InScope, VersionRows
<1> QED BY <1>2, <1>3

LEMMA JobGrows ==
  ASSUME TypeOK, NEW j \in Job, UpdateRunJob(j) \/ Cancel(j) \/ StopZombie(j), NEW r \in Runner
  PROVE  Grows(r)
<1>1. CASE UpdateRunJob(j)
  <2>1. UNCHANGED scope /\ IncreaseTaskVersion(JobScope[j]) /\ \A k \in Job : k # j => job'[k] = job[k]
    BY <1>1 DEF UpdateRunJob, TypeOK
  <2>2. CASE Fits(r, j) /\ OneSided(scope[r])
    <3>1. scope[r] \in VersionRows(JobScope[j][1], JobScope[j][2])
      BY <2>2, RowsCover DEF Fits
    <3> QED BY <2>1, <3>1, Increases DEF Grows
  <2>3. CASE ~Fits(r, j)
    <3>1. Candidates(r)' \subseteq Candidates(r)
      BY <2>1, <2>3 DEF Candidates, Fits, InScope
    <3> QED BY <2>1, <3>1, Increases DEF Grows
  <2>4. CASE ~OneSided(scope[r])
    BY <2>1, <2>4, Increases DEF Grows
  <2> QED BY <2>2, <2>3, <2>4
<1>2. CASE Cancel(j) \/ StopZombie(j)
  <2>1. UNCHANGED <<scope, version>> /\ job' = [job EXCEPT ![j].status = "done"]
    BY <1>2 DEF Cancel, StopZombie
  <2>2. Candidates(r)' \subseteq Candidates(r)
    BY <2>1 DEF Candidates, Fits, InScope, TypeOK
  <2> QED BY <2>1, <2>2, RowType DEF Grows
<1> QED BY <1>1, <1>2

LEMMA RunnerGrows ==
  ASSUME TypeOK, Owned, NEW q \in Runner, RunnerStep(q) \/ Lose(q) \/ Restart(q), NEW r \in Runner
  PROVE  Grows(r)
<1>1. UNCHANGED scope
  BY DEF RunnerStep, FetchTask, FetchFirst, SelectJob, CreateTask, Receive, Report, Lose, Restart
<1>2. UNCHANGED version \/ IncreaseTaskVersion(scope[q])
  BY DEF RunnerStep, FetchTask, FetchFirst, SelectJob, CreateTask, Receive, Report, Lose, Restart
<1>3. /\ version'[scope[r]] \in version[scope[r]] .. MaxVersion
      /\ ~OneSided(scope[r]) => version'[scope[r]] = version[scope[r]]
  BY <1>1, <1>2, RowType, Increases
<1>4. UNCHANGED job \/ CreateTask(q) \/ Report(q)
  BY DEF RunnerStep, FetchTask, FetchFirst, SelectJob, Receive, Lose, Restart
<1>5. ASSUME NEW j \in Job, job'[j] = [status |-> "waiting", runner |-> Nobody] PROVE job'[j] = job[j]
  <2>1. CASE UNCHANGED job
    BY <2>1
  <2>2. CASE CreateTask(q)
    <3>1. job' = job \/ job' = [job EXCEPT ![runner[q].job] = [status |-> "running", runner |-> q]]
      BY <2>2 DEF CreateTask
    <3> QED BY <1>5, <3>1 DEF TypeOK
  <2>3. CASE Report(q)
    <3>1. job' = [job EXCEPT ![runner[q].job].status = "done"]
      BY <2>3 DEF Report
    <3> QED BY <1>5, <3>1 DEF TypeOK, JobRow
  <2> QED BY <1>4, <2>1, <2>2, <2>3
<1>6. Candidates(r)' \subseteq Candidates(r)
  BY <1>1, <1>5 DEF Candidates, Fits, InScope
<1> QED BY <1>1, <1>3, <1>6 DEF Grows

(* What a runner was told before a step stays true of it afterwards.       *)
LEMMA StillTold ==
  ASSUME TypeOK, NEW r \in Runner, Told(r), Grows(r), NEW k \in 0..MaxVersion,
         OneSided(scope[r]) => k <= version[scope[r]],
         Current(r, k) => Candidates(r) = {}, Current(r, k)'
  PROVE  Candidates(r)' = {}
<1> DEFINE old == version[scope[r]]
           new == version'[scope[r]]
<1>1. old \in 0..MaxVersion /\ new \in old..MaxVersion /\ k = new /\ k \in 1..MaxVersion - 1
  BY RowType DEF Grows, Current
<1>2. OneSided(scope[r])
  BY <1>1 DEF Told, Grows
<1>3. new = old
  BY <1>1, <1>2
<1>4. new # MaxVersion /\ ~(new > old)
  BY <1>1, <1>3
<1>5. Candidates(r)' \subseteq Candidates(r)
  BY <1>2, <1>4 DEF Grows
<1>6. Current(r, k)
  BY <1>1, <1>3 DEF Current
<1> QED BY <1>5, <1>6

LEMMA ToldUnmoved ==
  ASSUME TypeOK, TypeOK', NEW r \in Runner, Told(r), Grows(r), runner'[r].known \in {0, runner[r].known},
         runner'[r].latest \in {0, runner[r].latest},
         (runner[r].pc = "reply" /\ runner[r].job = NoJob)' => runner[r].pc = "reply" /\ runner[r].job = NoJob
  PROVE  Told(r)'
<1> DEFINE old == version[scope[r]]
           new == version'[scope[r]]
<1>1. /\ old \in 0..MaxVersion /\ new \in old..MaxVersion /\ scope' = scope
      /\ runner[r].known \in 0..MaxVersion /\ runner[r].latest \in 0..MaxVersion
  BY RowType DEF Grows
<1>2. ~OneSided(scope[r]) => new = 0
  BY DEF Told, Grows
<1>3. OneSided(scope[r]) => runner'[r].known <= new /\ runner'[r].latest <= new
  BY <1>1 DEF Told
<1>4. ASSUME Current(r, runner[r].known)' PROVE Candidates(r)' = {}
  <2>1. runner'[r].known = runner[r].known
    BY <1>4 DEF Current
  <2>2. Current(r, runner[r].known) => Candidates(r) = {}
    BY DEF Told
  <2>3. new = runner[r].known /\ new \in 1..MaxVersion - 1
    BY <1>4, <1>1, <2>1 DEF Current
  <2> QED BY <1>1, <2>2, <2>3, StillTold DEF Told, Current
<1>5. ASSUME (runner[r].pc = "reply" /\ runner[r].job = NoJob /\ Current(r, runner[r].latest))'
      PROVE  Candidates(r)' = {}
  <2>1. runner'[r].latest = runner[r].latest
    BY <1>5 DEF Current
  <2>2. Current(r, runner[r].latest) => Candidates(r) = {}
    BY <1>5 DEF Told
  <2>3. new = runner[r].latest /\ new \in 1..MaxVersion - 1
    BY <1>5, <1>1, <2>1 DEF Current
  <2> QED BY <1>1, <2>2, <2>3, StillTold DEF Told, Current
<1> QED BY <1>1, <1>2, <1>3, <1>4, <1>5 DEF Told

LEMMA LostRunner ==
  ASSUME runner \in [Runner -> RunnerRow], NEW r \in Runner, Lose(r) \/ Restart(r)
  PROVE  runner'[r].known \in {0, runner[r].known} /\ runner'[r].latest = 0 /\ runner'[r].pc = "idle"
<1>1. CASE Lose(r)
  <2>1. runner'[r] = [IdleRunner EXCEPT !.known = runner[r].known]
    BY <1>1 DEF Lose
  <2> QED BY <2>1 DEF IdleRunner
<1>2. CASE Restart(r)
  <2>1. runner'[r] = IdleRunner
    BY <1>2 DEF Restart
  <2> QED BY <2>1 DEF IdleRunner
<1> QED BY <1>1, <1>2

(* The steps that tell a runner something new.                             *)
LEMMA ToldMoved ==
  ASSUME TypeOK, TypeOK', Owned, exclusive, NEW r \in Runner, Told(r), Alone(r),
         RunnerStep(r) \/ Lose(r) \/ Restart(r), Grows(r)
  PROVE  Told(r)'
<1> DEFINE old == version[scope[r]]
           new == version'[scope[r]]
<1>0. /\ old \in 0..MaxVersion /\ new \in old..MaxVersion /\ scope' = scope /\ MaxVersion \in Nat \ {0}
      /\ runner[r].known \in 0..MaxVersion /\ runner[r].latest \in 0..MaxVersion
      /\ runner[r] \in RunnerRow /\ runner \in [Runner -> RunnerRow]
      /\ ~OneSided(scope[r]) => new = 0
  BY RowType, JobsAssumption DEF Grows, TypeOK, Told
<1>1. CASE FetchTask(r)
  <2>1. /\ new = old /\ runner'[r].latest = old /\ runner'[r].known = runner[r].known
        /\ runner'[r].pc = "reply" => old # 0 /\ runner[r].known = old
        /\ Candidates(r)' = Candidates(r)
    BY <1>0, <1>1 DEF FetchTask, PickUnlessCurrent, RunnerRow, Candidates, Fits, InScope
  <2> QED BY <1>0, <2>1 DEF Told, Current
<1>2. CASE FetchFirst(r)
  <2>1. /\ runner'[r].latest = 1 /\ runner'[r].known = runner[r].known /\ IncreaseTaskVersion(scope[r])
        /\ runner'[r].pc = "reply" => runner[r].known = 1
        /\ Candidates(r)' = Candidates(r)
    BY <1>0, <1>2 DEF FetchFirst, PickUnlessCurrent, RunnerRow, Candidates, Fits, InScope
  <2>2. OneSided(scope[r]) => new >= 1 /\ (new > old \/ new = MaxVersion)
    <3>1. OneSided(scope[r]) => scope[r] \in VersionRows(scope[r][1], scope[r][2])
      BY RowType DEF OneSided, VersionRows
    <3> QED BY <1>0, <2>1, <3>1, Increases
  <2>3. ~Current(r, runner[r].known)'
    BY <1>0, <2>1, <2>2 DEF Told, Current
  <2>4. ~(runner[r].pc = "reply" /\ Current(r, runner[r].latest))'
    BY <1>0, <2>1, <2>2 DEF Told, Current
  <2> QED BY <1>0, <2>1, <2>2, <2>3, <2>4 DEF Told
<1>3. CASE SelectJob(r)
  <2>1. /\ new = old /\ Candidates(r)' = Candidates(r)
        /\ runner'[r].latest = runner[r].latest /\ runner'[r].known = runner[r].known
    <3>1. new = old /\ Candidates(r)' = Candidates(r)
      BY <1>0, <1>3 DEF SelectJob, Candidates, Fits, InScope
    <3>2. CASE Goes(r, "reply")
      BY <1>0, <3>1, <3>2 DEF Goes, RunnerRow
    <3>3. CASE \E j \in Candidates(r) : runner' = [runner EXCEPT ![r].pc = "update", ![r].job = j]
      BY <1>0, <3>1, <3>3 DEF RunnerRow
    <3> QED BY <1>3, <3>2, <3>3 DEF SelectJob
  <2>2. Candidates(r) = {} \/ runner'[r].pc # "reply"
    BY <1>0, <1>3 DEF SelectJob, RunnerRow
  <2> QED BY <1>0, <2>1, <2>2 DEF Told, Current
<1>4. CASE CreateTask(r)
  <2>1. Free(runner[r].job) /\ runner[r].job \in Job
    BY <1>4 DEF CreateTask, Alone, Owned
  <2>2. Goes(r, "reply")
    BY <1>4, <2>1 DEF CreateTask
  <2>3. runner'[r].known = runner[r].known /\ runner'[r].latest = runner[r].latest /\ runner'[r].job # NoJob
    BY <1>0, <2>1, <2>2, JobsAssumption DEF Goes, RunnerRow
  <2> QED BY <2>3, ToldUnmoved
<1>5. CASE Receive(r)
  <2>1. /\ runner[r].pc = "reply" /\ runner'[r].latest = 0 /\ runner'[r].pc # "reply"
        /\ \/ runner'[r].known \in {0, runner[r].known}
           \/ runner'[r].known = runner[r].latest /\ runner[r].job = NoJob
    BY <1>0, <1>5 DEF Receive, Seen, TasksVersion, RunnerRow
  <2>2. CASE runner'[r].known \in {0, runner[r].known}
    BY <2>1, <2>2, ToldUnmoved
  <2>3. CASE runner'[r].known = runner[r].latest /\ runner[r].job = NoJob
    <3>1. new = old /\ Candidates(r)' = Candidates(r)
      BY <1>5 DEF Receive, Candidates, Fits, InScope
    <3> QED BY <1>0, <2>1, <2>3, <3>1 DEF Told, Current
  <2> QED BY <2>1, <2>2, <2>3
<1>6. CASE Report(r)
  <2>1. runner'[r].known = runner[r].known /\ runner'[r].latest = runner[r].latest /\ runner'[r].pc = "idle"
    BY <1>0, <1>6 DEF Report, RunnerRow
  <2> QED BY <2>1, ToldUnmoved
<1>7. CASE Lose(r) \/ Restart(r)
  <2>1. runner'[r].known \in {0, runner[r].known} /\ runner'[r].latest = 0 /\ runner'[r].pc = "idle"
    BY <1>0, <1>7, LostRunner
  <2> QED BY <2>1, ToldUnmoved
<1> QED BY <1>1, <1>2, <1>3, <1>4, <1>5, <1>6, <1>7 DEF RunnerStep

LEMMA JobStepMisses ==
  ASSUME TypeOK, TypeOK', exclusive, NothingMissed, NEW j \in Job, UpdateRunJob(j) \/ Cancel(j) \/ StopZombie(j)
  PROVE  NothingMissed'
<1>1. UNCHANGED runner
  BY DEF UpdateRunJob, Cancel, StopZombie
<1>2. ASSUME NEW r \in Runner PROVE Told(r)'
  BY <1>1, JobGrows, ToldUnmoved DEF NothingMissed
<1>3. ASSUME NEW r \in Runner PROVE Alone(r)'
  <2>1. CASE UpdateRunJob(j) \/ StopZombie(j)
    BY <1>1, <2>1 DEF UpdateRunJob, StopZombie, Open, Alone
  <2>2. CASE Cancel(j)
    BY <1>1, <2>2 DEF Cancel, Open, Alone
  <2> QED BY <2>1, <2>2
<1> QED BY <1>2, <1>3 DEF NothingMissed

LEMMA RunnerStepMisses ==
  ASSUME TypeOK, TypeOK', Owned, exclusive, NothingMissed, NEW q \in Runner, RunnerStep(q) \/ Lose(q) \/ Restart(q)
  PROVE  NothingMissed'
<1>0. runner \in [Runner -> RunnerRow] /\ runner[q] \in RunnerRow
  BY DEF TypeOK
<1>1. \A r \in Runner : r # q => runner'[r] = runner[r]
  BY <1>0 DEF RunnerStep, FetchTask, FetchFirst, SelectJob, CreateTask, Receive, Report, Lose, Restart, Goes
<1>2. ASSUME NEW r \in Runner PROVE Told(r)'
  <2>1. Grows(r) /\ Told(r) /\ Alone(r)
    BY RunnerGrows DEF NothingMissed
  <2>2. CASE r = q
    BY <2>1, <2>2, ToldMoved
  <2>3. CASE r # q
    BY <1>1, <2>1, <2>3, ToldUnmoved
  <2> QED BY <2>2, <2>3
<1>3. ASSUME NEW r \in Runner PROVE Alone(r)'
  <2>1. CASE SelectJob(q) /\ runner'[q].pc = "update"
    <3>1. \A p \in Runner : runner[p].pc # "update"
      BY <2>1 DEF SelectJob, Open
    <3>2. UNCHANGED job /\ job[runner'[q].job].runner = Nobody
      <4>1. Goes(q, "reply") \/ \E j \in Candidates(q) : runner' = [runner EXCEPT ![q].pc = "update", ![q].job = j]
        BY <2>1 DEF SelectJob
      <4>2. PICK j \in Candidates(q) : runner' = [runner EXCEPT ![q].pc = "update", ![q].job = j]
        BY <1>0, <2>1, <4>1 DEF Goes, RunnerRow
      <4>3. runner'[q].job = j /\ job[j].runner = Nobody
        BY <1>0, <4>2 DEF RunnerRow, Candidates
      <4> QED BY <2>1, <4>3 DEF SelectJob
    <3> QED BY <1>1, <3>1, <3>2 DEF Alone, Free
  <2>2. CASE ~(SelectJob(q) /\ runner'[q].pc = "update")
    <3>1. runner'[q].pc # "update"
      <4>1. CASE SelectJob(q)
        BY <2>2, <4>1
      <4>2. CASE CreateTask(q)
        BY <1>0, <4>2 DEF CreateTask, Goes, RunnerRow
      <4>3. CASE FetchTask(q) \/ FetchFirst(q) \/ Receive(q) \/ Report(q)
        <5>1. CASE FetchTask(q) \/ FetchFirst(q)
          <6>1. \A l : PickUnlessCurrent(q, l) \in {"reply", "pick"}
            BY DEF PickUnlessCurrent
          <6>2. CASE FetchTask(q)
            BY <1>0, <6>1, <6>2 DEF FetchTask, RunnerRow
          <6>3. CASE FetchFirst(q)
            BY <1>0, <6>1, <6>3 DEF FetchFirst, RunnerRow
          <6> QED BY <5>1, <6>2, <6>3
        <5>2. CASE Receive(q)
          BY <1>0, <5>2 DEF Receive, RunnerRow
        <5>3. CASE Report(q)
          BY <1>0, <5>3 DEF Report, RunnerRow
        <5> QED BY <4>3, <5>1, <5>2, <5>3
      <4>4. CASE Lose(q) \/ Restart(q)
        <5>1. runner'[q].pc = "idle"
          BY <1>0, <4>4, LostRunner
        <5> QED BY <5>1
      <4> QED BY <4>1, <4>2, <4>3, <4>4 DEF RunnerStep
    <3>2. ASSUME runner'[r].pc = "update" PROVE r # q /\ runner[r].pc = "update" /\ runner'[r] = runner[r]
      BY <1>1, <3>1, <3>2
    <3>3. ASSUME runner'[r].pc = "update" PROVE UNCHANGED job
      <4>1. runner[r].pc = "update" /\ r # q
        BY <3>2, <3>3
      <4>2. ~CreateTask(q)
        BY <4>1 DEF CreateTask, Alone, NothingMissed
      <4>3. ~Report(q)
        BY <4>1 DEF Report, Open
      <4> QED BY <4>2, <4>3 DEF RunnerStep, FetchTask, FetchFirst, SelectJob, Receive, Lose, Restart
    <3>4. ASSUME NEW p \in Runner, runner'[r].pc = "update", runner'[p].pc = "update" PROVE p = r
      <4>1. p # q /\ runner[p].pc = "update" /\ runner[r].pc = "update"
        BY <1>1, <3>1, <3>4, <3>2
      <4> QED BY <4>1 DEF Alone, NothingMissed
    <3> QED BY <3>2, <3>3, <3>4 DEF Alone, NothingMissed, Free
  <2> QED BY <2>1, <2>2
<1> QED BY <1>2, <1>3 DEF NothingMissed

(* A runner of the instance, of an owner or of a repository whose version  *)
(* is current misses no job, however many runners and jobs there are and   *)
(* whatever calls are lost or restarted, on a database that opens one      *)
(* transaction at a time.                                                  *)
THEOREM CurrentRunnerMissesNothingHolds == Spec => []CurrentRunnerMissesNothing
<1> DEFINE IInv == TypeOK /\ Owned /\ NothingMissed
<1>1. Init => IInv
  <2> SUFFICES ASSUME Init PROVE Owned /\ NothingMissed
    BY TypesStart
  <2>1. Owned
    BY DEF Init, Owned, Has, IdleRunner
  <2>2. ASSUME NEW r \in Runner PROVE Told(r) /\ Alone(r)
    <3>1. runner[r] = IdleRunner /\ version[scope[r]] = 0
      BY TypesStart DEF Init, TypeOK
    <3> QED BY <3>1, JobsAssumption DEF Told, Alone, Current, IdleRunner
  <2> QED BY <2>1, <2>2 DEF NothingMissed
<1>2. IInv /\ [Next]_vars => IInv'
  <2> SUFFICES ASSUME IInv, [Next]_vars PROVE IInv'
    OBVIOUS
  <2>1. TypeOK' /\ exclusive' = exclusive
    BY TypesKept DEF Next, vars, UpdateRunJob, Cancel, StopZombie,
       RunnerStep, FetchTask, FetchFirst, SelectJob, CreateTask, Receive, Report, Lose, Restart
  <2>2. Owned'
    <3>1. UNCHANGED vars => Owned'
      BY DEF vars, Owned, Has
    <3> QED BY <3>1, JobOwned, RunnerOwned DEF Next
  <2>3. NothingMissed'
    <3>1. CASE UNCHANGED vars
      BY <3>1 DEF vars, NothingMissed, Told, Alone, Current, OneSided, Candidates, Fits, InScope, Free
    <3>2. CASE ~exclusive
      BY <2>1, <3>2 DEF NothingMissed
    <3>3. CASE exclusive /\ Next
      BY <2>1, <3>3, JobStepMisses, RunnerStepMisses DEF Next
    <3> QED BY <3>1, <3>2, <3>3
  <2> QED BY <2>1, <2>2, <2>3
<1>3. IInv => CurrentRunnerMissesNothing
  <2> SUFFICES ASSUME IInv, exclusive, NEW r \in Runner, OneSided(scope[r]), PollsInVain(r),
                      runner[r].known < MaxVersion
               PROVE  Candidates(r) = {}
    BY DEF CurrentRunnerMissesNothing
  <2>1. /\ version[scope[r]] \in 0..MaxVersion /\ MaxVersion \in Nat
        /\ runner[r].known = IF version[scope[r]] = 0 THEN 1 ELSE version[scope[r]]
    BY RowType, JobsAssumption DEF PollsInVain
  <2>2. runner[r].known <= version[scope[r]]
    BY DEF NothingMissed, Told
  <2>3. Current(r, runner[r].known)
    BY <2>1, <2>2 DEF Current
  <2>4. Current(r, runner[r].known) => Candidates(r) = {}
    BY DEF NothingMissed, Told
  <2> QED BY <2>3, <2>4
<1> QED BY <1>1, <1>2, <1>3, PTL DEF Spec
=============================================================================
