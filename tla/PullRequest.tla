---------------------------- MODULE PullRequest ----------------------------
(* One pull request of services/pull and services/automerge: the branches  *)
(* it connects, its row, the queue of conflict checks with its workers,    *)
(* the web requests and auto-merge handlers that merge it, and the pool    *)
(* that lets one of them work on it at a time.                             *)
(*                                                                         *)
(* Branches are abstracted to revision numbers that only grow: head        *)
(* revision h contains 1..h, and git.in is the newest head revision that   *)
(* the base branch contains.  The repository requires status checks, and a *)
(* status that succeeded is not taken back.  Reviews, permissions, agit    *)
(* pull requests and closing or reopening are left out.                    *)
EXTENDS Integers, FiniteSets

CONSTANTS
  Worker,        \* workers of the pr_patch_checker queue
  Req,           \* web requests and handlers of the pr_auto_merge queue
  Conflicts,     \* pairs <<head, base>> of revisions that conflict
  Empties,       \* pairs <<head, base>> whose merge changes nothing
  CanPush,       \* whether whoever merges may push to the base branch or administers it
  Autodetect,    \* whether the repository detects manual merges
  Budgets        \* how often each event of Event happens

VARIABLES
  git,           \* head and base branch, refs/pull/N/head, and what base contains
  pr,            \* the row: status, has_merged
  scheduled,     \* whether the auto_merge table has a row for it
  queued,        \* whether the id is in the pr_patch_checker queue
  task,          \* how many pushes are at each step of their follow-up
  work,          \* the workers
  req,           \* the requests
  passed,        \* head revisions whose checks succeeded
  unannounced,   \* among them, those CreateCommitStatus has not announced yet
  autoQueue,     \* head revisions in the pr_auto_merge queue
  booting,       \* whether InitializePullRequests has still to run
  forgotten,     \* history: whether a failure made the server forget a push
  dropped,       \* history: whether an error dropped the test that was to settle the row
  left,          \* what is left of the budget
  pool, count, locked, visit       \* the ExclusivePool

pullVars == <<git, pr, scheduled, queued, task, work, req, passed, unannounced,
              autoQueue, booting, forgotten, dropped, left>>
poolVars == <<pool, count, locked, visit>>
vars == <<pullVars, poolVars>>

Event == {"pushHead", "pushBase", "merge", "forced", "schedule", "manual", "unschedule",
          "status", "crash", "fail"}

ASSUME ClientsAssumption == IsFiniteSet(Worker) /\ IsFiniteSet(Req) /\ Worker \cap Req = {}
ASSUME BudgetsAssumption == Budgets \subseteq [Event -> Nat]

Pool == INSTANCE ExclusivePool WITH Client <- Worker \cup Req, Id <- {"pr"}, MaxMutex <- 2

Status == {"conflict", "checking", "mergeable", "manually", "error", "empty", "ancestor"}
Tested == Status \ {"manually"}  \* of a row that has not merged

(* Where a push is on its way to a conflict check.  "queued" pushes are in *)
(* the push_update queue.                                                  *)
Stage == {"hook", "hookRef", "headQueued", "headRef", "baseQueued", "baseTask", "mark", "add"}

NoHead == 0
IdleWork == [pc |-> "idle", status |-> "checking", base |-> 0, in |-> 0]
IdleReq == [pc |-> "idle", kind |-> "merge", row |-> [status |-> "checking", merged |-> FALSE],
            expected |-> NoHead, head |-> 0, base |-> 0, in |-> 0]

WorkPc == {"idle", "popped", "enter", "read", "manual", "base", "head", "has", "save"}
WorkRow == [pc : WorkPc, status : Tested, base : Nat, in : Nat]
ReqPc == {"idle", "auto", "check", "unschedule", "schedule", "lock", "enter", "set",
          "base", "head", "push", "receive", "merged", "out"}
GitRow == [head : Nat, ref : Nat, base : Nat, in : Nat]
PullRow == [status : Tested, merged : BOOLEAN] \cup [status : {"manually"}, merged : {TRUE}]
ReqRow == [pc : ReqPc, kind : {"merge", "forced", "schedule", "manual", "auto"}, row : PullRow,
           expected : Nat, head : Nat, base : Nat, in : Nat]

TypeOK ==
  /\ git \in GitRow
  /\ pr \in PullRow
  /\ scheduled \in BOOLEAN /\ queued \in BOOLEAN /\ booting \in BOOLEAN
  /\ forgotten \in BOOLEAN /\ dropped \in BOOLEAN
  /\ task \in [Stage -> Nat]
  /\ work \in [Worker -> WorkRow]
  /\ req \in [Req -> ReqRow]
  /\ passed \in SUBSET Nat /\ unannounced \in SUBSET Nat /\ autoQueue \in SUBSET Nat
  /\ left \in [Event -> Nat]

(* What testPatch finds for two fetched branches when the row it read has  *)
(* the given status: it never takes back "empty".                          *)
Verdict(head, base, in, status) ==
  IF head <= in THEN "ancestor"
  ELSE IF <<head, base>> \in Conflicts THEN "conflict"
  ELSE IF <<head, base>> \in Empties \/ status = "empty" THEN "empty"
  ELSE "mergeable"

(* The pull request is made with the verdict of a first testPatch.         *)
Init ==
  /\ git = [head |-> 1, ref |-> 1, base |-> 0, in |-> 0]
  /\ pr = [status |-> Verdict(1, 0, 0, "checking"), merged |-> FALSE]
  /\ scheduled = FALSE /\ queued = FALSE /\ booting = FALSE /\ forgotten = FALSE /\ dropped = FALSE
  /\ task = [s \in Stage |-> 0]
  /\ work = [w \in Worker |-> IdleWork]
  /\ req = [r \in Req |-> IdleReq]
  /\ passed = {} /\ unannounced = {} /\ autoQueue = {}
  /\ left \in Budgets
  /\ Pool!Init
-----------------------------------------------------------------------------
Spend(e) == left[e] > 0 /\ left' = [left EXCEPT ![e] = @ - 1]
Enters(s) == task' = [task EXCEPT ![s] = @ + 1]
Leaves(s) == task' = [task EXCEPT ![s] = @ - 1]
Forgets == Spend("fail") /\ forgotten' = TRUE  \* an error is only logged
Moves(s, t) == task' = [task EXCEPT ![s] = @ - 1, ![t] = @ + 1]

(* Somebody pushes to the head branch: git moves it, then calls the        *)
(* post-receive hook.                                                      *)
PushHead ==
  /\ Spend("pushHead")
  /\ git' = [git EXCEPT !.head = @ + 1]
  /\ Enters("hook")
  /\ UNCHANGED <<pr, scheduled, queued, work, req, passed, unannounced, autoQueue, booting, forgotten, dropped, poolVars>>

(* Somebody pushes to the base branch, possibly a merge of the head made   *)
(* outside; the hook has no pull request to update and queues the push.    *)
PushBase ==
  /\ Spend("pushBase")
  /\ \E in \in {git.in, git.head} : git' = [git EXCEPT !.base = @ + 1, !.in = in]
  /\ Enters("baseQueued")
  /\ UNCHANGED <<pr, scheduled, queued, work, req, passed, unannounced, autoQueue, booting, forgotten, dropped, poolVars>>

(* UpdatePullsRefs lists the unmerged pull requests of the head branch and *)
(* pushes the branch to their refs, and its errors are only logged; then   *)
(* PushUpdates queues the push, unless it fails.                           *)
HookList ==
  /\ task["hook"] > 0
  /\ \/ Moves("hook", IF pr.merged THEN "headQueued" ELSE "hookRef") /\ UNCHANGED left
     \/ Spend("fail") /\ Moves("hook", "headQueued")
  /\ UNCHANGED <<git, pr, scheduled, queued, work, req, passed, unannounced, autoQueue, booting, forgotten, dropped, poolVars>>

HookRef ==
  /\ task["hookRef"] > 0
  /\ \/ /\ git' = [git EXCEPT !.ref = git.head]
        /\ \/ Moves("hookRef", "headQueued") /\ UNCHANGED <<left, forgotten>>
           \/ Forgets /\ Leaves("hookRef")
     \/ Spend("fail") /\ Moves("hookRef", "headQueued") /\ UNCHANGED <<git, forgotten>>
  /\ UNCHANGED <<pr, scheduled, queued, work, req, passed, unannounced, autoQueue, booting, dropped, poolVars>>

(* AddTestPullRequestTask lists the unmerged pull requests.                *)
TaskList(s, t) ==
  /\ task[s] > 0
  /\ \/ (IF pr.merged THEN Leaves(s) ELSE Moves(s, t)) /\ UNCHANGED <<left, forgotten>>
     \/ Forgets /\ Leaves(s)
  /\ UNCHANGED <<git, pr, scheduled, queued, work, req, passed, unannounced, autoQueue, booting, dropped, poolVars>>

(* Its PushToBaseRepo; when that fails the pull request is passed over.    *)
TaskRef ==
  /\ task["headRef"] > 0
  /\ \/ /\ git' = [git EXCEPT !.ref = git.head]
        /\ Moves("headRef", "mark")
        /\ UNCHANGED <<left, forgotten>>
     \/ Forgets /\ Leaves("headRef") /\ UNCHANGED git
  /\ UNCHANGED <<pr, scheduled, queued, work, req, passed, unannounced, autoQueue, booting, dropped, poolVars>>

(* AddToTaskQueue: UpdateColsIfNotMerged, then the queue.                  *)
MutantMarkChecking == [pr EXCEPT !.status = "checking"]  \* whatever has_merged is
MarkChecking == [pr EXCEPT !.status = IF pr.merged THEN @ ELSE "checking"]
Mark ==
  /\ task["mark"] > 0
  /\ \/ pr' = MarkChecking /\ Moves("mark", "add") /\ UNCHANGED <<left, forgotten>>
     \/ Forgets /\ Leaves("mark") /\ UNCHANGED pr
  /\ UNCHANGED <<git, scheduled, queued, work, req, passed, unannounced, autoQueue, booting, dropped, poolVars>>

MutantAdd ==  \* an id that is being tested is not queued
  /\ task["add"] > 0
  /\ queued' = (\A w \in Worker : work[w].pc = "idle")
  /\ Leaves("add")
  /\ UNCHANGED <<git, pr, scheduled, work, req, passed, unannounced, autoQueue, booting, forgotten, dropped, left, poolVars>>
Add ==
  /\ task["add"] > 0
  /\ Leaves("add")
  /\ \/ queued' = TRUE /\ UNCHANGED <<left, forgotten, dropped>>
     \/ Forgets /\ dropped' = TRUE /\ UNCHANGED queued
  /\ UNCHANGED <<git, pr, scheduled, work, req, passed, unannounced, autoQueue, booting, poolVars>>
-----------------------------------------------------------------------------
(* testPR.  The worker pops the id, checks in, reads the row, detects a    *)
(* manual merge, fetches both branches, and saves what it found unless the *)
(* id is queued again.  An error of reading or saving the row is logged    *)
(* and drops the test.                                                     *)
Step(w, pc) == work' = [work EXCEPT ![w].pc = pc]
Finish(w) == work' = [work EXCEPT ![w] = IdleWork] /\ Pool!CheckOut(w)
Drops(w) == Spend("fail") /\ Finish(w) /\ dropped' = TRUE

Pop(w) ==
  /\ queued /\ work[w].pc = "idle"
  /\ queued' = FALSE
  /\ Step(w, "popped")
  /\ UNCHANGED <<git, pr, scheduled, task, req, passed, unannounced, autoQueue, booting, forgotten, dropped, left, poolVars>>

TestCheckIn(w) ==
  /\ work[w].pc = "popped"
  /\ Pool!CheckIn(w, "pr") /\ Step(w, "enter")
  /\ UNCHANGED <<git, pr, scheduled, queued, task, req, passed, unannounced, autoQueue, booting, forgotten, dropped, left>>

TestEnter(w) ==
  /\ work[w].pc = "enter"
  /\ Pool!Enter(w) /\ Step(w, "read")
  /\ UNCHANGED <<git, pr, scheduled, queued, task, req, passed, unannounced, autoQueue, booting, forgotten, dropped, left>>

TestRead(w) ==
  /\ work[w].pc = "read"
  /\ \/ /\ IF pr.merged
           THEN Finish(w)
           ELSE work' = [work EXCEPT ![w].pc = "manual", ![w].status = pr.status] /\ UNCHANGED poolVars
        /\ UNCHANGED <<left, dropped>>
     \/ Drops(w)
  /\ UNCHANGED <<git, pr, scheduled, queued, task, req, passed, unannounced, autoQueue, booting, forgotten>>

(* SetMerged saves has_merged with the status it is given.                 *)
MutantManuallyMerged == [status |-> "manually", merged |-> FALSE]  \* saves the status alone
ManuallyMerged == [status |-> "manually", merged |-> TRUE]

(* manuallyMerged: the pull request's ref is an ancestor of the base       *)
(* branch.  On an error the test goes on, in memory with the status kept   *)
(* or, when SetMerged failed, one that is not "empty".                     *)
TestManual(w) ==
  /\ work[w].pc = "manual"
  /\ \/ /\ IF Autodetect /\ git.ref <= git.in
           THEN pr' = ManuallyMerged /\ Finish(w)
           ELSE Step(w, "base") /\ UNCHANGED <<pr, poolVars>>
        /\ UNCHANGED left
     \/ /\ Autodetect /\ git.ref <= git.in /\ Spend("fail")
        /\ \E status \in {work[w].status, "checking"} :
             work' = [work EXCEPT ![w].pc = "base", ![w].status = status]
        /\ UNCHANGED <<pr, poolVars>>
  /\ UNCHANGED <<git, scheduled, queued, task, req, passed, unannounced, autoQueue, booting, forgotten, dropped>>

(* TestPatch fetches the base branch, then the head branch.                *)
TestFetchBase(w) ==
  /\ work[w].pc = "base"
  /\ work' = [work EXCEPT ![w].pc = "head", ![w].base = git.base, ![w].in = git.in]
  /\ UNCHANGED <<git, pr, scheduled, queued, task, req, passed, unannounced, autoQueue, booting, forgotten, dropped, left, poolVars>>

TestFetchHead(w) ==
  /\ work[w].pc = "head"
  /\ work' = [work EXCEPT ![w].pc = "has",
                          ![w].status = Verdict(git.head, work[w].base, work[w].in, @)]
  /\ UNCHANGED <<git, pr, scheduled, queued, task, req, passed, unannounced, autoQueue, booting, forgotten, dropped, left, poolVars>>

(* TestPatch fails: the status is saved without looking at has_merged.     *)
(* What made it fail, an ended context, may make that fail too.            *)
TestFails(w) ==
  /\ work[w].pc \in {"base", "head"}
  /\ \/ Spend("fail") /\ Finish(w) /\ pr' = [pr EXCEPT !.status = "error"] /\ dropped' = FALSE
     \/ Drops(w) /\ UNCHANGED pr
  /\ UNCHANGED <<git, scheduled, queued, task, req, passed, unannounced, autoQueue, booting, forgotten>>

(* checkAndUpdateStatus.  When the queue cannot be asked the result is     *)
(* saved.                                                                  *)
TestHas(w) ==
  /\ work[w].pc = "has"
  /\ \/ (IF queued THEN Finish(w) ELSE Step(w, "save") /\ UNCHANGED poolVars) /\ UNCHANGED left
     \/ queued /\ Spend("fail") /\ Step(w, "save") /\ UNCHANGED poolVars
  /\ UNCHANGED <<git, pr, scheduled, queued, task, req, passed, unannounced, autoQueue, booting, forgotten, dropped>>

TestSave(w) ==
  /\ work[w].pc = "save"
  /\ \/ /\ pr' = [pr EXCEPT !.status = IF pr.merged THEN @ ELSE work[w].status]
        /\ Finish(w) /\ dropped' = FALSE
        /\ UNCHANGED left
     \/ Drops(w) /\ UNCHANGED pr
  /\ UNCHANGED <<git, scheduled, queued, task, req, passed, unannounced, autoQueue, booting, forgotten>>
-----------------------------------------------------------------------------
(* MergePullRequest.  The request reads the row and names the head it has  *)
(* seen, or none; CheckPullMergeable works on that row.  A "forced" merge  *)
(* is one with ForceMerge by an admin of the repository.                   *)
Reply(r) == req' = [req EXCEPT ![r] = IdleReq]
Goes(r, pc) == req' = [req EXCEPT ![r].pc = pc]

Request(r) ==
  /\ req[r].pc = "idle"
  /\ \E kind \in {"merge", "forced", "schedule", "manual"}, expected \in {NoHead, git.head} :
       /\ Spend(kind)
       /\ kind \in {"schedule", "manual"} => expected = NoHead
       /\ req' = [req EXCEPT ![r] = [IdleReq EXCEPT !.pc = "check", !.kind = kind, !.row = pr, !.expected = expected]]
  /\ UNCHANGED <<git, pr, scheduled, queued, task, work, passed, unannounced, autoQueue, booting, forgotten, dropped, poolVars>>

(* MergeCheckTypeAuto and adminSkipProtectionCheck ignore the status       *)
(* checks, and nothing but has_merged matters to MergeCheckTypeManually.   *)
Mergeable(row) == row.status \in {"mergeable", "empty"}
ChecksPass == git.head \in passed
CheckPullMergeable(kind, row) ==
  /\ ~row.merged
  /\ kind = "manual" \/ Mergeable(row)
  /\ kind \in {"manual", "schedule", "forced"} \/ ChecksPass

Check(r) ==
  /\ req[r].pc = "check"
  /\ IF CheckPullMergeable(req[r].kind, req[r].row)
     THEN Goes(r, IF req[r].kind = "schedule" THEN "unschedule" ELSE "lock")
     ELSE Reply(r)
  /\ UNCHANGED <<git, pr, scheduled, queued, task, work, passed, unannounced, autoQueue, booting, forgotten, dropped, left, poolVars>>

(* MergeWhenChecksSucceed: DeleteScheduledAutoMerge, then ScheduleAutoMerge *)
(* in a transaction of its own.                                            *)
DeleteScheduled(r) ==
  /\ req[r].pc = "unschedule"
  /\ scheduled' = FALSE
  /\ Goes(r, "schedule")
  /\ UNCHANGED <<git, pr, queued, task, work, passed, unannounced, autoQueue, booting, forgotten, dropped, left, poolVars>>

ScheduleAutoMerge(r) ==
  /\ req[r].pc = "schedule"
  /\ scheduled' = TRUE
  /\ Reply(r)
  /\ UNCHANGED <<git, pr, queued, task, work, passed, unannounced, autoQueue, booting, forgotten, dropped, left, poolVars>>

RemoveScheduledAutoMerge ==
  /\ scheduled /\ Spend("unschedule")
  /\ scheduled' = FALSE
  /\ UNCHANGED <<git, pr, queued, task, work, req, passed, unannounced, autoQueue, booting, forgotten, dropped, poolVars>>

(* Merge and MergedManually.                                               *)
MergeCheckIn(r) ==
  /\ req[r].pc = "lock"
  /\ Pool!CheckIn(r, "pr") /\ Goes(r, "enter")
  /\ UNCHANGED <<git, pr, scheduled, queued, task, work, passed, unannounced, autoQueue, booting, forgotten, dropped, left>>

MergeEnter(r) ==
  /\ req[r].pc = "enter"
  /\ Pool!Enter(r)
  /\ Goes(r, IF req[r].kind = "manual" THEN "set" ELSE "base")
  /\ UNCHANGED <<git, pr, scheduled, queued, task, work, passed, unannounced, autoQueue, booting, forgotten, dropped, left>>

(* SetMerged reads the row again and refuses one that has merged.          *)
MergedManually(r) ==
  /\ req[r].pc = "set"
  /\ pr' = IF pr.merged THEN pr ELSE ManuallyMerged
  /\ Reply(r) /\ Pool!CheckOut(r)
  /\ UNCHANGED <<git, scheduled, queued, task, work, passed, unannounced, autoQueue, booting, forgotten, dropped, left>>

(* createTemporaryRepoForMerge fetches the base branch, then the head, and *)
(* compares it with the expected one; then the branches are merged.        *)
MergeFetchBase(r) ==
  /\ req[r].pc = "base"
  /\ req' = [req EXCEPT ![r].pc = "head", ![r].base = git.base, ![r].in = git.in]
  /\ UNCHANGED <<git, pr, scheduled, queued, task, work, passed, unannounced, autoQueue, booting, forgotten, dropped, left, poolVars>>

MutantExpected(expected) == TRUE  \* does not compare
Expected(expected) == expected \in {NoHead, git.head}
MergeFetchHead(r) ==
  /\ req[r].pc = "head"
  /\ req' = [req EXCEPT ![r].head = git.head,
                        ![r].pc = IF /\ Expected(req[r].expected)
                                     /\ <<git.head, req[r].base>> \notin Conflicts
                                     /\ git.head > req[r].in
                                  THEN "push" ELSE "out"]
  /\ UNCHANGED <<git, pr, scheduled, queued, task, work, passed, unannounced, autoQueue, booting, forgotten, dropped, left, poolVars>>

(* git push.  The pre-receive hook checks the head branch once more for    *)
(* those who may neither push to the base branch nor administer the        *)
(* repository, and git refuses a merge of an older base.                   *)
MergePush(r) ==
  /\ req[r].pc = "push"
  /\ IF (CanPush \/ req[r].kind = "forced" \/ ChecksPass) /\ git.base = req[r].base
     THEN git' = [git EXCEPT !.base = @ + 1, !.in = req[r].head] /\ Goes(r, "receive")
     ELSE Goes(r, "out") /\ UNCHANGED git
  /\ UNCHANGED <<pr, scheduled, queued, task, work, passed, unannounced, autoQueue, booting, forgotten, dropped, left, poolVars>>

(* The post-receive hook of that push queues it and then marks the pull    *)
(* request merged; its error ends it and cannot undo the push.             *)
MergeReceive(r) ==
  /\ req[r].pc = "receive"
  /\ \/ Enters("baseQueued") /\ Goes(r, "merged") /\ UNCHANGED left
     \/ Spend("fail") /\ Goes(r, "out") /\ UNCHANGED task
  /\ UNCHANGED <<git, pr, scheduled, queued, work, passed, unannounced, autoQueue, booting, forgotten, dropped, poolVars>>

HandlePullRequestMerging(r) ==
  /\ req[r].pc = "merged"
  /\ \/ ~pr.merged /\ pr' = [pr EXCEPT !.merged = TRUE] /\ scheduled' = FALSE /\ UNCHANGED left
     \/ pr.merged /\ UNCHANGED <<pr, scheduled, left>>
     \/ ~pr.merged /\ Spend("fail") /\ UNCHANGED <<pr, scheduled>>
  /\ Goes(r, "out")
  /\ UNCHANGED <<git, queued, task, work, passed, unannounced, autoQueue, booting, forgotten, dropped, poolVars>>

(* Merge returns: it starts AddTestPullRequestTask for the base branch and *)
(* checks out.                                                             *)
MergeReturns(r) ==
  /\ req[r].pc = "out"
  /\ Enters("baseTask")
  /\ Reply(r) /\ Pool!CheckOut(r)
  /\ UNCHANGED <<git, pr, scheduled, queued, work, passed, unannounced, autoQueue, booting, forgotten, dropped, left>>
-----------------------------------------------------------------------------
(* CreateCommitStatus saves that the checks of a pushed head succeeded,    *)
(* then StartPRCheckAndAutoMergeBySHA looks for the pull requests whose    *)
(* ref is that head.                                                       *)
CreateCommitStatus ==
  /\ Spend("status")
  /\ \E h \in (1..git.head) \ passed : passed' = passed \cup {h} /\ unannounced' = unannounced \cup {h}
  /\ UNCHANGED <<git, pr, scheduled, queued, task, work, req, autoQueue, booting, forgotten, dropped, poolVars>>

StartPRCheckAndAutoMergeBySHA ==
  \E h \in unannounced :
    /\ unannounced' = unannounced \ {h}
    /\ autoQueue' = IF git.ref = h /\ ~pr.merged /\ pr.status = "mergeable" THEN autoQueue \cup {h} ELSE autoQueue
    /\ UNCHANGED <<git, pr, scheduled, queued, task, work, req, passed, booting, forgotten, dropped, left, poolVars>>

(* handlePullRequestAutoMerge: the row and its schedule, then the head it  *)
(* was queued for and its checks, then CheckPullMergeable and Merge        *)
(* without an expected head.                                               *)
AutoPop(r) ==
  /\ req[r].pc = "idle"
  /\ \E h \in autoQueue :
       /\ autoQueue' = autoQueue \ {h}
       /\ IF scheduled
          THEN req' = [req EXCEPT ![r] = [IdleReq EXCEPT !.pc = "auto", !.kind = "auto", !.row = pr, !.head = h]]
          ELSE UNCHANGED req
  /\ UNCHANGED <<git, pr, scheduled, queued, task, work, passed, unannounced, booting, forgotten, dropped, left, poolVars>>

AutoCheck(r) ==
  /\ req[r].pc = "auto"
  /\ IF git.ref = req[r].head /\ ChecksPass THEN Goes(r, "check") ELSE Reply(r)
  /\ UNCHANGED <<git, pr, scheduled, queued, task, work, passed, unannounced, autoQueue, booting, forgotten, dropped, left, poolVars>>
-----------------------------------------------------------------------------
(* The server dies.  The row and the queues' contents survive; handlers,   *)
(* hooks, goroutines and popped ids do not.  What followed from a push is  *)
(* then forgotten, and so is a test that was popped or dropped, unless the *)
(* row says "checking".                                                    *)
FollowsPush(r) == req[r].pc \in {"receive", "merged", "out"}
Persistent == {"headQueued", "baseQueued"}
CrashForgets ==
  \/ \E s \in Stage \ Persistent : task[s] > 0
  \/ \E r \in Req : FollowsPush(r)
  \/ pr.status # "checking" /\ (dropped \/ \E w \in Worker : work[w].pc # "idle")
Crash ==
  /\ Spend("crash")
  /\ forgotten' = (forgotten \/ CrashForgets) /\ dropped' = FALSE
  /\ task' = [s \in Stage |-> IF s \in Persistent THEN task[s] ELSE 0]
  /\ work' = [w \in Worker |-> IdleWork]
  /\ req' = [r \in Req |-> IdleReq]
  /\ unannounced' = {}
  /\ booting' = TRUE
  /\ pool' = [i \in {"pr"} |-> 0] /\ count' = [i \in {"pr"} |-> 0]
  /\ locked' = [m \in Pool!Mutex |-> FALSE]
  /\ visit' = [c \in Worker \cup Req |-> [id |-> "pr", mutex |-> 0, inside |-> FALSE]]
  /\ UNCHANGED <<git, pr, scheduled, queued, passed, autoQueue>>

MutantUntested == FALSE  \* the row is not looked at on start
Untested == pr.status = "checking"
InitializePullRequests ==
  /\ booting
  /\ booting' = FALSE
  /\ \/ queued' = (queued \/ Untested) /\ UNCHANGED <<left, dropped>>
     \/ Untested /\ Spend("fail") /\ dropped' = TRUE /\ UNCHANGED queued
  /\ UNCHANGED <<git, pr, scheduled, task, work, req, passed, unannounced, autoQueue, forgotten, poolVars>>

FollowUp ==
  \/ HookList \/ HookRef \/ TaskRef \/ Mark \/ Add
  \/ TaskList("headQueued", "headRef") \/ TaskList("baseQueued", "mark") \/ TaskList("baseTask", "mark")

Test(w) ==
  \/ Pop(w) \/ TestCheckIn(w) \/ TestEnter(w) \/ TestRead(w) \/ TestManual(w)
  \/ TestFetchBase(w) \/ TestFetchHead(w) \/ TestHas(w) \/ TestSave(w)

Handle(r) ==
  \/ Check(r) \/ DeleteScheduled(r) \/ ScheduleAutoMerge(r)
  \/ MergeCheckIn(r) \/ MergeEnter(r) \/ MergedManually(r) \/ MergeFetchBase(r) \/ MergeFetchHead(r)
  \/ MergePush(r) \/ MergeReceive(r) \/ HandlePullRequestMerging(r) \/ MergeReturns(r)
  \/ AutoPop(r) \/ AutoCheck(r)

Next ==
  \/ PushHead \/ PushBase \/ FollowUp
  \/ \E w \in Worker : Test(w) \/ TestFails(w)
  \/ \E r \in Req : Request(r) \/ Handle(r)
  \/ RemoveScheduledAutoMerge \/ CreateCommitStatus \/ StartPRCheckAndAutoMergeBySHA
  \/ Crash \/ InitializePullRequests

Spec == Init /\ [][Next]_vars

(* Goroutines run, queues deliver and a restarted server runs its start-up *)
(* tasks; nobody has to push, to merge or to report a status.              *)
FairSpec ==
  /\ Spec
  /\ WF_vars(FollowUp) /\ WF_vars(StartPRCheckAndAutoMergeBySHA) /\ WF_vars(InitializePullRequests)
  /\ \A w \in Worker : WF_vars(Test(w))
  /\ \A r \in Req : WF_vars(Handle(r))
-----------------------------------------------------------------------------
Quiet ==
  /\ \A s \in Stage : task[s] = 0
  /\ ~queued /\ ~booting
  /\ \A w \in Worker : work[w].pc = "idle"
  /\ \A r \in Req : ~FollowsPush(r)

(* Once nothing is left to do the row tells what the branches are now,     *)
(* although checks, pushes, merges and restarts overlapped: only an error  *)
(* that made the server forget a push or drop the test, or a failed test,  *)
(* may leave it stale, and "empty" is taken back only by a conflict.       *)
StatusSettles ==
  Quiet /\ ~forgotten /\ ~dropped /\ ~pr.merged =>
    pr.status \in {Verdict(git.head, git.base, git.in, pr.status), "error"}

(* A merged pull request's row is never written again, whatever test was   *)
(* running or push was being followed up when it merged.                   *)
OutcomeFrozen == [][pr.merged => pr' = pr]_pr

(* At most one worker or request works on the pull request at a time.      *)
PoolExclusive == Pool!Exclusive

(* A request that names the head it has seen merges a head whose checks    *)
(* succeeded, although CheckPullMergeable looked at the branch earlier;    *)
(* one that an admin forces need not.                                      *)
MergesCheckedHead ==
  [][\A r \in Req :
       /\ req[r].pc = "push" /\ req'[r].pc = "receive"
       /\ req[r].kind = "merge" /\ req[r].expected # NoHead
       => req[r].head \in passed]_req

(* A pull request does not stay in "checking", even across restarts,       *)
(* unless an error dropped its test and nothing is left to do: then it     *)
(* waits for a push or a restart.                                          *)
CheckingEnds ==
  (pr.status = "checking" /\ ~pr.merged) ~> (pr.status # "checking" \/ pr.merged \/ (Quiet /\ dropped))

(* "scheduled to merge when all checks succeed": one scheduled while its   *)
(* checks were outstanding is not left mergeable, with its checks          *)
(* succeeded, for ever.                                                    *)
Ready == scheduled /\ ~pr.merged /\ pr.status = "mergeable" /\ ChecksPass /\ git.ref = git.head
AutoMergeHappens == [](scheduled /\ ~ChecksPass => ~<>[]Ready)
=============================================================================
