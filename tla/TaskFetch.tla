----------------------------- MODULE TaskFetch -----------------------------
(* How waiting jobs reach runners: routers/api/actions/runner.FetchTask,   *)
(* CreateTaskForRunner and the rows of models/actions/tasks_version.go.    *)
(* A runner sends the version it has seen; the server looks for a job only *)
(* if the version of the runner's scope is another one, and every          *)
(* transaction that makes a job waiting increases the versions.            *)
(*                                                                         *)
(* Labels and the order in which jobs are tried are a relation and a free  *)
(* choice.  A database that opens transactions exclusively (SQLite) or     *)
(* lets them overlap and re-reads rows it updates (PostgreSQL) is chosen   *)
(* at the start.                                                           *)
EXTENDS Naturals

CONSTANTS
  Runner,
  Job,
  JobScope,     \* [Job -> <<owner, repo>>]
  Scopes,       \* functions [Runner -> <<owner, repo>>], 0 for "any"
  Labelled,     \* pairs <<runner, job>> whose labels match
  Exclusive,    \* values of exclusive to start from
  Budgets,      \* functions [Event -> Nat]
  MaxVersion    \* where version numbers saturate

VARIABLES
  exclusive,    \* whether a transaction keeps all others out
  scope,        \* the owner and repository of each runner's row
  version,      \* the action_tasks_version rows, 0 when there is none
  job,          \* action_run_job: its status and whose task it has
  runner,       \* external: the act_runner, and its FetchTask call in the server
  left          \* what is left of the budget

vars == <<exclusive, scope, version, job, runner, left>>

Event == {"wait", "cancel", "lose", "restart"}
Owners == {0} \cup {JobScope[j][1] : j \in Job}
Repos == {0} \cup {JobScope[j][2] : j \in Job}
Nobody == "nobody"
NoJob == "none"

ASSUME JobsAssumption ==
  /\ \A j \in Job : JobScope[j] \in (Nat \ {0}) \X (Nat \ {0})
  /\ Nobody \notin Runner /\ NoJob \notin Job /\ MaxVersion \in Nat \ {0}

ASSUME StartAssumption ==
  /\ Scopes \subseteq [Runner -> Owners \X Repos]
  /\ Exclusive \subseteq BOOLEAN /\ Budgets \subseteq [Event -> Nat]

JobRow == [status : {"blocked", "waiting", "running", "done"}, runner : Runner \cup {Nobody}]
RunnerRow == [pc : {"idle", "increase", "pick", "update", "reply", "work"},
              known : 0..MaxVersion, latest : 0..MaxVersion, job : Job \cup {NoJob}]

TypeOK ==
  /\ exclusive \in BOOLEAN
  /\ scope \in [Runner -> Owners \X Repos]
  /\ version \in [Owners \X Repos -> 0..MaxVersion]
  /\ job \in [Job -> JobRow]
  /\ runner \in [Runner -> RunnerRow]
  /\ left \in [Event -> Nat]

IdleRunner == [pc |-> "idle", known |-> 0, latest |-> 0, job |-> NoJob]
Init ==
  /\ exclusive \in Exclusive /\ scope \in Scopes /\ left \in Budgets
  /\ version = [s \in Owners \X Repos |-> 0]
  /\ job = [j \in Job |-> [status |-> "blocked", runner |-> Nobody]]
  /\ runner = [r \in Runner |-> IdleRunner]

Spend(e) == left[e] > 0 /\ left' = [left EXCEPT ![e] = @ - 1]
Goes(r, pc) == runner' = [runner EXCEPT ![r].pc = pc]

(* A transaction begins only when no exclusive one is open.                *)
Open == ~exclusive \/ \A r \in Runner : runner[r].pc # "update"

(* IncreaseTaskVersion: the global row, the owner's and the repository's.  *)
MutantVersionRows(owner, repo) == {<<0, 0>>, <<0, repo>>}  \* forgets the owner
VersionRows(owner, repo) == {<<0, 0>>, <<owner, 0>>, <<0, repo>>}
MutantIncreaseTaskVersion(s) ==  \* twice, once for each level
  version' = [t \in DOMAIN version |->
                IF t \in VersionRows(s[1], s[2]) /\ version[t] < MaxVersion THEN version[t] + 2 ELSE version[t]]
IncreaseTaskVersion(s) ==
  version' = [t \in DOMAIN version |->
                IF t \in VersionRows(s[1], s[2]) /\ version[t] < MaxVersion THEN version[t] + 1 ELSE version[t]]

(* InsertRun, or UpdateRunJob on behalf of the emitter, Approve or Rerun,  *)
(* makes a job wait without a task and increases the versions with it.     *)
UpdateRunJob(j) ==
  /\ Open /\ Spend("wait")
  /\ job[j].status \in {"blocked", "done"}
  /\ job' = [job EXCEPT ![j] = [status |-> "waiting", runner |-> Nobody]]
  /\ IncreaseTaskVersion(JobScope[j])
  /\ UNCHANGED <<exclusive, scope, runner>>

(* Cancel and the sweep of abandoned jobs end a job that has no task.      *)
Cancel(j) ==
  /\ Open /\ Spend("cancel")
  /\ job[j].status = "waiting"
  /\ job' = [job EXCEPT ![j].status = "done"]
  /\ UNCHANGED <<exclusive, scope, version, runner>>
-----------------------------------------------------------------------------
(* FetchTask: GetTasksVersionByScope comes first, in no transaction.       *)
PickUnlessCurrent(r, latest) == IF runner[r].known = latest THEN "reply" ELSE "pick"
FetchTask(r) ==
  LET latest == version[scope[r]] IN
  /\ runner[r].pc = "idle"
  /\ runner' = [runner EXCEPT ![r].latest = latest,
                              ![r].pc = IF latest = 0 THEN "increase" ELSE PickUnlessCurrent(r, latest)]
  /\ UNCHANGED <<exclusive, scope, version, job, left>>

(* A scope without a row gets one, and the answer will say 1.              *)
FetchFirst(r) ==
  /\ runner[r].pc = "increase" /\ Open
  /\ IncreaseTaskVersion(scope[r])
  /\ runner' = [runner EXCEPT ![r].latest = 1, ![r].pc = PickUnlessCurrent(r, 1)]
  /\ UNCHANGED <<exclusive, scope, job, left>>

InScope(r, j) ==
  IF scope[r][2] # 0 THEN JobScope[j][2] = scope[r][2] ELSE scope[r][1] \in {0, JobScope[j][1]}
Fits(r, j) == InScope(r, j) /\ <<r, j>> \in Labelled
Candidates(r) == {j \in Job : job[j] = [status |-> "waiting", runner |-> Nobody] /\ Fits(r, j)}

(* CreateTaskForRunner's transaction selects a job, then updates it on     *)
(* condition that it has no task yet; nothing else is tried if it has.     *)
SelectJob(r) ==
  /\ runner[r].pc = "pick" /\ Open
  /\ \/ Candidates(r) = {} /\ Goes(r, "reply")
     \/ \E j \in Candidates(r) : runner' = [runner EXCEPT ![r].pc = "update", ![r].job = j]
  /\ UNCHANGED <<exclusive, scope, version, job, left>>

MutantFree(j) == TRUE  \* the update has no condition
Free(j) == job[j].runner = Nobody
CreateTask(r) ==
  LET j == runner[r].job IN
  /\ runner[r].pc = "update"
  /\ IF Free(j)
     THEN /\ job' = [job EXCEPT ![j] = [status |-> "running", runner |-> r]]
          /\ Goes(r, "reply")
     ELSE runner' = [runner EXCEPT ![r].pc = "reply", ![r].job = NoJob] /\ UNCHANGED job
  /\ UNCHANGED <<exclusive, scope, version, left>>
-----------------------------------------------------------------------------
(* The answer carries the version read before the job was picked.          *)
MutantTasksVersion(r) == version[scope[r]]  \* read again for the answer
TasksVersion(r) == runner[r].latest

(* The runner keeps a greater version, and forgets it when it got a task.  *)
Seen(r) == IF TasksVersion(r) > runner[r].known THEN TasksVersion(r) ELSE runner[r].known
Receive(r) ==
  LET got == runner[r].job # NoJob IN
  /\ runner[r].pc = "reply"
  /\ runner' = [runner EXCEPT ![r].pc = IF got THEN "work" ELSE "idle",
                              ![r].known = IF got /\ Seen(r) = TasksVersion(r) THEN 0 ELSE Seen(r),
                              ![r].latest = 0]
  /\ UNCHANGED <<exclusive, scope, version, job, left>>

(* The call fails somewhere, the server dies or its answer is lost: an     *)
(* open transaction is rolled back, the task of a closed one stays.        *)
Lose(r) ==
  /\ runner[r].pc \in {"increase", "pick", "update", "reply"} /\ Spend("lose")
  /\ runner' = [runner EXCEPT ![r] = [IdleRunner EXCEPT !.known = runner[r].known]]
  /\ UNCHANGED <<exclusive, scope, version, job>>

Restart(r) ==
  /\ runner[r].pc \in {"idle", "work"} /\ Spend("restart")
  /\ runner' = [runner EXCEPT ![r] = IdleRunner]
  /\ UNCHANGED <<exclusive, scope, version, job>>

(* The runner reports the result of its task.                              *)
Report(r) ==
  /\ runner[r].pc = "work" /\ Open
  /\ job' = [job EXCEPT ![runner[r].job].status = "done"]
  /\ runner' = [runner EXCEPT ![r].pc = "idle", ![r].job = NoJob]
  /\ UNCHANGED <<exclusive, scope, version, left>>

(* StopZombieTasks: nobody works on the task or is about to be told of it. *)
StopZombie(j) ==
  /\ job[j].status = "running" /\ Open
  /\ runner[job[j].runner].job # j
  /\ job' = [job EXCEPT ![j].status = "done"]
  /\ UNCHANGED <<exclusive, scope, version, runner, left>>

RunnerStep(r) == FetchTask(r) \/ FetchFirst(r) \/ SelectJob(r) \/ CreateTask(r) \/ Receive(r) \/ Report(r)

Next ==
  \/ \E j \in Job : UpdateRunJob(j) \/ Cancel(j) \/ StopZombie(j)
  \/ \E r \in Runner : RunnerStep(r) \/ Lose(r) \/ Restart(r)

Spec == Init /\ [][Next]_vars

(* Runners poll and their calls are served; tasks end; the sweep runs.     *)
FairSpec ==
  /\ Spec
  /\ \A r \in Runner : WF_vars(RunnerStep(r))
  /\ \A j \in Job : WF_vars(StopZombie(j))
-----------------------------------------------------------------------------
(* Runners of the instance, of an owner or of a repository: the only ones  *)
(* whose row moves with the jobs.                                          *)
OneSided(s) == s[1] = 0 \/ s[2] = 0

(* The next call of the runner will not look for a job.                    *)
PollsInVain(r) ==
  /\ runner[r].pc = "idle"
  /\ runner[r].known = IF version[scope[r]] = 0 THEN 1 ELSE version[scope[r]]

(* A runner of one level that polls in vain because its version is current *)
(* misses nothing: no waiting job is one it could run.  The version it was *)
(* told must therefore be older than the search, and its row must move     *)
(* with every such job that becomes waiting.  Overlapping transactions     *)
(* break this: the loser of a race for one job does not try another.       *)
CurrentRunnerMissesNothing ==
  exclusive => \A r \in Runner :
    OneSided(scope[r]) /\ PollsInVain(r) /\ runner[r].known < MaxVersion => Candidates(r) = {}

(* No two runners work on the same job, even if they select it at once:    *)
(* what a runner works on has its own task.                                *)
OneRunnerPerJob ==
  \A r \in Runner : runner[r].pc = "work" => job[runner[r].job] = [status |-> "running", runner |-> r]

(* "The runner will run jobs for the repository it belongs to": a waiting  *)
(* job for which a runner exists does not wait for ever, although answers  *)
(* get lost and runners restart.                                           *)
WaitingJobsAreFetched ==
  \A j \in Job : (job[j].status = "waiting" /\ exclusive /\ \E r \in Runner : Fits(r, j)) ~> job[j].status # "waiting"
=============================================================================
