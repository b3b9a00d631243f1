------------------------- MODULE PullRequest_proofs -------------------------
(* Theorems about PullRequest for any number of queue workers and          *)
(* requests, any conflicts between revisions and any budgets.              *)
EXTENDS PullRequest, FiniteSetTheorems, TLAPS

PP == INSTANCE ExclusivePool_proofs WITH Client <- Worker \cup Req, Id <- {"pr"}, MaxMutex <- 2

(* The pool's steps, as the workers and requests take them.                *)
LEMMA PoolStep ==
  ASSUME PP!PoolInv, [Pool!Next]_poolVars
  PROVE  PP!PoolInv'
<1>1. PP!Bounds
  <2>1. IsFiniteSet(Worker \cup Req)
    BY ClientsAssumption, FS_Union
  <2> QED BY <2>1 DEF IsFiniteSet, PP!IsFiniteSet, PP!Bounds
<1>2. [PP!Next]_(PP!poolVars)
  BY DEF Pool!Next, PP!Next, Pool!CheckIn, PP!CheckIn, Pool!Enter, PP!Enter, Pool!CheckOut, PP!CheckOut,
    PP!poolVars, poolVars, Pool!Found, PP!Found, Pool!Remaining, PP!Remaining, Pool!Unused, PP!Unused,
    Pool!Mutex, PP!Mutex, Pool!Away, PP!Away, Pool!Inside, PP!Inside
<1> QED BY <1>1, <1>2, PP!PoolNext

(* Small facts about the types of what the actions write.                  *)
LEMMA VerdictStatus ==
  ASSUME NEW h, NEW b, NEW i, NEW s
  PROVE  Verdict(h, b, i, s) \in Tested
BY DEF Verdict, Tested, Status

(* A row that has not merged never says "manually".                        *)
LEMMA RowTypes ==
  ASSUME NEW row \in PullRow
  PROVE  /\ row.status \in Status /\ row.merged \in BOOLEAN
         /\ ~row.merged => row.status \in Tested
         /\ \A s \in Tested : [row EXCEPT !.status = s] \in PullRow
         /\ \A s \in Tested : [row EXCEPT !.status = s].status = s /\ [row EXCEPT !.status = s].merged = row.merged
         /\ [row EXCEPT !.status = row.status] = row
         /\ [row EXCEPT !.merged = TRUE] \in PullRow
         /\ ManuallyMerged \in PullRow
BY DEF PullRow, Tested, Status, ManuallyMerged

(* What a test writes to the row.                                          *)
LEMMA TestWrites ==
  ASSUME pr \in PullRow, work \in [Worker -> WorkRow], NEW w \in Worker, TestFails(w) \/ TestSave(w)
  PROVE  /\ pr' \in PullRow /\ pr'.merged = pr.merged
         /\ \/ TestFails(w) /\ pr'.status = "error"
            \/ TestSave(w) /\ pr'.status = IF pr.merged THEN pr.status ELSE work[w].status
            \/ Drops(w) /\ pr' = pr
<1>1. work[w].status \in Tested /\ "error" \in Tested
  BY DEF WorkRow, Tested, Status
<1>2. CASE Drops(w) /\ pr' = pr
  BY <1>2
<1>3. CASE TestFails(w) /\ pr' = [pr EXCEPT !.status = "error"]
  <2>1. \A s \in Tested : pr' = [pr EXCEPT !.status = s] =>
          pr' \in PullRow /\ pr'.merged = pr.merged /\ pr'.status = s
    BY DEF PullRow, Tested, Status
  <2> QED BY <1>1, <1>3, <2>1
<1>4. CASE TestSave(w) /\ pr' = [pr EXCEPT !.status = IF pr.merged THEN pr.status ELSE work[w].status]
  <2>1. CASE pr.merged
    <3>1. pr' = [pr EXCEPT !.status = pr.status]
      BY <1>4, <2>1
    <3>2. pr' = pr
      BY <3>1, RowTypes
    <3> QED BY <1>4, <2>1, <3>2
  <2>2. CASE ~pr.merged
    <3>1. pr' = [pr EXCEPT !.status = work[w].status]
      BY <1>4, <2>2
    <3> QED BY <1>1, <1>4, <2>2, <3>1 DEF PullRow, Tested, Status
  <2> QED BY <2>1, <2>2
<1> QED BY <1>2, <1>3, <1>4 DEF TestFails, TestSave

LEMMA MarkTypes ==
  ASSUME pr \in PullRow
  PROVE  MarkChecking \in PullRow /\ MarkChecking.merged = pr.merged
<1>1. CASE pr.merged
  BY <1>1, RowTypes DEF MarkChecking
<1>2. CASE ~pr.merged
  BY <1>2, RowTypes DEF MarkChecking, Tested, Status
<1> QED BY <1>1, <1>2

LEMMA SpendType ==
  ASSUME left \in [Event -> Nat], NEW e \in Event, Spend(e)
  PROVE  left' \in [Event -> Nat]
BY DEF Spend

LEMMA ErrorType ==
  ASSUME left \in [Event -> Nat], Spend("fail") \/ Forgets \/ (\E w \in Worker : Drops(w))
  PROVE  left' \in [Event -> Nat]
BY SpendType DEF Forgets, Drops, Event

LEMMA TaskType ==
  ASSUME task \in [Stage -> Nat], NEW s \in Stage, task[s] > 0, NEW t \in Stage, s # t,
         Leaves(s) \/ Moves(s, t)
  PROVE  task' \in [Stage -> Nat]
BY DEF Leaves, Moves

LEMMA EntersType ==
  ASSUME task \in [Stage -> Nat], NEW s \in Stage, Enters(s)
  PROVE  task' \in [Stage -> Nat]
BY DEF Enters

LEMMA IdleTypes == IdleWork \in WorkRow /\ IdleReq \in ReqRow
BY DEF IdleWork, WorkRow, WorkPc, Tested, Status, IdleReq, ReqRow, ReqPc, PullRow, NoHead

LEMMA WorkType ==
  ASSUME work \in [Worker -> WorkRow], NEW w \in Worker,
         Finish(w) \/ Drops(w) \/ (\E pc \in WorkPc : Step(w, pc))
  PROVE  work' \in [Worker -> WorkRow]
<1>1. CASE Finish(w) \/ Drops(w)
  BY <1>1, IdleTypes DEF Finish, Drops
<1>2. ASSUME NEW pc \in WorkPc, Step(w, pc) PROVE work' \in [Worker -> WorkRow]
  <2>1. work[w] \in WorkRow
    OBVIOUS
  <2>2. [work[w] EXCEPT !.pc = pc] \in WorkRow
    BY <2>1 DEF WorkRow
  <2> QED BY <1>2, <2>2 DEF Step
<1> QED BY <1>1, <1>2

LEMMA ReqType ==
  ASSUME req \in [Req -> ReqRow], NEW r \in Req,
         Reply(r) \/ (\E pc \in ReqPc : Goes(r, pc))
  PROVE  req' \in [Req -> ReqRow]
<1>1. CASE Reply(r)
  BY <1>1, IdleTypes DEF Reply
<1>2. ASSUME NEW pc \in ReqPc, Goes(r, pc) PROVE req' \in [Req -> ReqRow]
  <2>1. req[r] \in ReqRow
    OBVIOUS
  <2>2. [req[r] EXCEPT !.pc = pc] \in ReqRow
    BY <2>1 DEF ReqRow
  <2> QED BY <1>2, <2>2 DEF Goes
<1> QED BY <1>1, <1>2

LEMMA GitType ==
  ASSUME git \in GitRow, NEW i \in Nat
  PROVE  /\ [git EXCEPT !.base = @ + 1, !.in = i] \in GitRow
         /\ [git EXCEPT !.head = @ + 1] \in GitRow /\ [git EXCEPT !.ref = git.head] \in GitRow
         /\ git.head \in Nat /\ git.base \in Nat /\ git.in \in Nat
<1>1. git.head \in Nat /\ git.base \in Nat /\ git.in \in Nat
  BY DEF GitRow
<1>2. ASSUME NEW b \in Nat PROVE [git EXCEPT !.base = b, !.in = i] \in GitRow
  BY DEF GitRow
<1>3. [git EXCEPT !.head = @ + 1] \in GitRow
  BY <1>1 DEF GitRow
<1>4. [git EXCEPT !.ref = git.head] \in GitRow
  BY <1>1 DEF GitRow
<1>5. git.base + 1 \in Nat
  BY <1>1
<1>6. [git EXCEPT !.base = git.base + 1, !.in = i] \in GitRow
  BY <1>2, <1>5
<1> QED BY <1>1, <1>3, <1>4, <1>6

(* Pushes and their follow-up keep the types.                              *)
LEMMA FollowUpTypes ==
  ASSUME TypeOK, PushHead \/ PushBase \/ FollowUp
  PROVE  TypeOK'
<1> USE DEF TypeOK
<1>1. CASE PushHead
  BY <1>1, SpendType, EntersType, GitType DEF PushHead, Event, Stage
<1>2. CASE PushBase
  <2>1. git' \in GitRow
    <3>1. PICK i \in {git.in, git.head} : git' = [git EXCEPT !.base = @ + 1, !.in = i]
      BY <1>2 DEF PushBase
    <3>2. i \in Nat
      BY GitType
    <3> QED BY <3>1, <3>2, GitType
  <2>2. left' \in [Event -> Nat] /\ task' \in [Stage -> Nat]
    BY <1>2, SpendType, EntersType DEF PushBase, Event, Stage
  <2> QED BY <1>2, <2>1, <2>2 DEF PushBase
<1>3. CASE HookList
  <2>1. task' \in [Stage -> Nat]
    BY <1>3, TaskType DEF HookList, Stage
  <2> QED BY <1>3, <2>1, ErrorType DEF HookList
<1>4. CASE HookRef
  <2>1. task' \in [Stage -> Nat]
    BY <1>4, TaskType DEF HookRef, Stage
  <2>2. git' \in GitRow
    BY <1>4, GitType DEF HookRef
  <2>3. left' \in [Event -> Nat] /\ forgotten' \in BOOLEAN
    BY <1>4, ErrorType DEF HookRef, Forgets
  <2> QED BY <1>4, <2>1, <2>2, <2>3 DEF HookRef
<1>5. ASSUME NEW s \in Stage, NEW t \in Stage, s # t, TaskList(s, t) PROVE TypeOK'
  <2>1. task' \in [Stage -> Nat]
    BY <1>5, TaskType DEF TaskList
  <2> QED BY <1>5, <2>1, ErrorType DEF TaskList, Forgets
<1>6. CASE TaskRef
  <2>1. task' \in [Stage -> Nat]
    BY <1>6, TaskType DEF TaskRef, Stage
  <2>2. git' \in GitRow
    BY <1>6, GitType DEF TaskRef
  <2> QED BY <1>6, <2>1, <2>2, ErrorType DEF TaskRef, Forgets
<1>7. CASE Mark
  <2>1. task' \in [Stage -> Nat]
    BY <1>7, TaskType DEF Mark, Stage
  <2>2. pr' \in PullRow
    BY <1>7, MarkTypes DEF Mark
  <2> QED BY <1>7, <2>1, <2>2, ErrorType DEF Mark, Forgets
<1>8. CASE Add
  <2>1. task' \in [Stage -> Nat]
    BY <1>8, TaskType DEF Add, Stage
  <2> QED BY <1>8, <2>1, ErrorType DEF Add, Forgets
<1> QED BY <1>1, <1>2, <1>3, <1>4, <1>5, <1>6, <1>7, <1>8 DEF FollowUp, Stage

(* Tests of the queue's workers keep the types.                            *)
LEMMA TestTypes ==
  ASSUME TypeOK, NEW w \in Worker, Test(w) \/ TestFails(w)
  PROVE  TypeOK'
<1> USE DEF TypeOK
<1>1. CASE Pop(w)
  BY <1>1, WorkType DEF Pop, WorkPc
<1>2. CASE TestCheckIn(w)
  BY <1>2, WorkType DEF TestCheckIn, WorkPc
<1>3. CASE TestEnter(w)
  BY <1>3, WorkType DEF TestEnter, WorkPc
<1>4. CASE TestRead(w)
  <2>0. ~pr.merged => pr.status \in Tested
    BY RowTypes
  <2>1. ~pr.merged => [work[w] EXCEPT !.pc = "manual", !.status = pr.status] \in WorkRow
    BY <2>0 DEF WorkRow, WorkPc
  <2>2. work' \in [Worker -> WorkRow]
    BY <1>4, <2>1, WorkType DEF TestRead
  <2> QED BY <1>4, <2>2, ErrorType DEF TestRead, Drops
<1>5. CASE TestManual(w)
  <2>1. \A s \in {work[w].status, "checking"} : [work[w] EXCEPT !.pc = "base", !.status = s] \in WorkRow
    BY DEF WorkRow, WorkPc, Tested, Status
  <2>2. work' \in [Worker -> WorkRow]
    BY <1>5, <2>1, WorkType DEF TestManual, WorkPc
  <2>3. pr' \in PullRow
    BY <1>5, RowTypes DEF TestManual
  <2>4. left' \in [Event -> Nat]
    BY <1>5, ErrorType DEF TestManual
  <2> QED BY <1>5, <2>2, <2>3, <2>4 DEF TestManual
<1>6. CASE TestFetchBase(w)
  <2>1. [work[w] EXCEPT !.pc = "head", !.base = git.base, !.in = git.in] \in WorkRow
    BY GitType DEF WorkRow, WorkPc
  <2> QED BY <1>6, <2>1 DEF TestFetchBase
<1>7. CASE TestFetchHead(w)
  <2>2. Verdict(git.head, work[w].base, work[w].in, work[w].status) \in Tested
    BY VerdictStatus
  <2>3. [work[w] EXCEPT !.pc = "has", !.status = Verdict(git.head, work[w].base, work[w].in, @)] \in WorkRow
    BY <2>2 DEF WorkRow, WorkPc
  <2> QED BY <1>7, <2>3 DEF TestFetchHead
<1>8. CASE TestFails(w)
  <2>1. work' \in [Worker -> WorkRow]
    BY <1>8, WorkType DEF TestFails
  <2>2. pr' \in PullRow
    BY <1>8, TestWrites
  <2> QED BY <1>8, <2>1, <2>2, ErrorType DEF TestFails, Drops
<1>9. CASE TestHas(w)
  <2>1. work' \in [Worker -> WorkRow]
    BY <1>9, WorkType DEF TestHas, WorkPc
  <2> QED BY <1>9, <2>1, ErrorType DEF TestHas
<1>10. CASE TestSave(w)
  <2>1. work' \in [Worker -> WorkRow]
    BY <1>10, WorkType DEF TestSave
  <2>2. pr' \in PullRow
    BY <1>10, TestWrites
  <2> QED BY <1>10, <2>1, <2>2, ErrorType DEF TestSave, Drops
<1> QED BY <1>1, <1>2, <1>3, <1>4, <1>5, <1>6, <1>7, <1>8, <1>9, <1>10 DEF Test

(* Requests, merges and the handlers of auto-merge keep the types.         *)
LEMMA HandleTypes ==
  ASSUME TypeOK, NEW r \in Req, Request(r) \/ Handle(r)
  PROVE  TypeOK'
<1> USE DEF TypeOK
<1>1. CASE Request(r)
  <2>1. PICK kind \in {"merge", "forced", "schedule", "manual"}, expected \in {NoHead, git.head} :
          /\ Spend(kind)
          /\ req' = [req EXCEPT ![r] = [IdleReq EXCEPT !.pc = "check", !.kind = kind, !.row = pr, !.expected = expected]]
    BY <1>1 DEF Request
  <2>2. [IdleReq EXCEPT !.pc = "check", !.kind = kind, !.row = pr, !.expected = expected] \in ReqRow
    <3>1. expected \in Nat
      <4>1. git.head \in Nat
        BY DEF GitRow
      <4> QED BY <4>1 DEF NoHead
    <3> QED BY <3>1, IdleTypes DEF ReqRow, ReqPc
  <2>3. left' \in [Event -> Nat]
    BY <2>1, SpendType DEF Event
  <2> QED BY <1>1, <2>1, <2>2, <2>3 DEF Request
<1>2. CASE Check(r)
  BY <1>2, ReqType DEF Check, ReqPc
<1>3. CASE DeleteScheduled(r)
  BY <1>3, ReqType DEF DeleteScheduled, ReqPc
<1>4. CASE ScheduleAutoMerge(r)
  BY <1>4, ReqType DEF ScheduleAutoMerge
<1>5. CASE MergeCheckIn(r)
  BY <1>5, ReqType DEF MergeCheckIn, ReqPc
<1>6. CASE MergeEnter(r)
  BY <1>6, ReqType DEF MergeEnter, ReqPc
<1>7. CASE MergedManually(r)
  BY <1>7, ReqType, RowTypes DEF MergedManually
<1>8. CASE MergeFetchBase(r)
  <2>1. [req[r] EXCEPT !.pc = "head", !.base = git.base, !.in = git.in] \in ReqRow
    BY GitType DEF ReqRow, ReqPc
  <2> QED BY <1>8, <2>1 DEF MergeFetchBase
<1>9. CASE MergeFetchHead(r)
  <2>1. \A pc \in {"push", "out"} : [req[r] EXCEPT !.head = git.head, !.pc = pc] \in ReqRow
    BY GitType DEF ReqRow, ReqPc
  <2> QED BY <1>9, <2>1 DEF MergeFetchHead
<1>10. CASE MergePush(r)
  <2>1. req' \in [Req -> ReqRow]
    BY <1>10, ReqType DEF MergePush, ReqPc
  <2>2. git' = git \/ git' = [git EXCEPT !.base = @ + 1, !.in = req[r].head]
    BY <1>10 DEF MergePush
  <2>3. req[r].head \in Nat
    BY DEF ReqRow
  <2>4. git' \in GitRow
    BY <2>2, <2>3, GitType
  <2> QED BY <1>10, <2>1, <2>4 DEF MergePush
<1>11. CASE MergeReceive(r)
  <2>1. req' \in [Req -> ReqRow]
    BY <1>11, ReqType DEF MergeReceive, ReqPc
  <2>2. task' \in [Stage -> Nat]
    BY <1>11, EntersType DEF MergeReceive, Stage
  <2> QED BY <1>11, <2>1, <2>2, ErrorType DEF MergeReceive
<1>12. CASE HandlePullRequestMerging(r)
  <2>1. req' \in [Req -> ReqRow]
    BY <1>12, ReqType DEF HandlePullRequestMerging, ReqPc
  <2>2. pr' \in PullRow
    BY <1>12, RowTypes DEF HandlePullRequestMerging
  <2> QED BY <1>12, <2>1, <2>2, ErrorType DEF HandlePullRequestMerging
<1>13. CASE MergeReturns(r)
  BY <1>13, EntersType, ReqType DEF MergeReturns, Stage
<1>14. CASE AutoPop(r)
  <2>1. \A h \in autoQueue : [IdleReq EXCEPT !.pc = "auto", !.kind = "auto", !.row = pr, !.head = h] \in ReqRow
    BY IdleTypes DEF ReqRow, ReqPc
  <2> QED BY <1>14, <2>1 DEF AutoPop
<1>15. CASE AutoCheck(r)
  BY <1>15, ReqType DEF AutoCheck, ReqPc
<1> QED BY <1>1, <1>2, <1>3, <1>4, <1>5, <1>6, <1>7, <1>8, <1>9, <1>10, <1>11, <1>12, <1>13, <1>14, <1>15
  DEF Handle

(* Every step keeps the types.                                             *)
LEMMA TypesKept == ASSUME TypeOK, [Next]_vars PROVE TypeOK'
<1>1. CASE RemoveScheduledAutoMerge
  BY <1>1, SpendType DEF RemoveScheduledAutoMerge, TypeOK, Event
<1>2. CASE CreateCommitStatus
  BY <1>2, SpendType DEF CreateCommitStatus, TypeOK, Event
<1>3. CASE StartPRCheckAndAutoMergeBySHA
  BY <1>3 DEF StartPRCheckAndAutoMergeBySHA, TypeOK
<1>4. CASE Crash
  BY <1>4, SpendType, IdleTypes DEF Crash, CrashForgets, TypeOK, Event, Persistent, Stage
<1>5. CASE InitializePullRequests
  BY <1>5, ErrorType DEF InitializePullRequests, Untested, TypeOK
<1>6. CASE UNCHANGED vars
  BY <1>6 DEF vars, pullVars, TypeOK
<1> QED BY <1>1, <1>2, <1>3, <1>4, <1>5, <1>6, FollowUpTypes, TestTypes, HandleTypes DEF Next

LEMMA TypesStart == Init => TypeOK
<1> SUFFICES ASSUME Init PROVE TypeOK
  OBVIOUS
<1>1. Verdict(1, 0, 0, "checking") \in Tested
  BY VerdictStatus
<1>2. pr \in PullRow /\ task \in [Stage -> Nat] /\ left \in [Event -> Nat]
  BY <1>1, BudgetsAssumption DEF Init, PullRow, Stage
<1>3. work \in [Worker -> WorkRow] /\ req \in [Req -> ReqRow]
  BY IdleTypes DEF Init
<1> QED BY <1>2, <1>3 DEF Init, TypeOK, GitRow

(* The row of the pull request, the queues and every worker and request    *)
(* keep their shapes; no push is counted as followed more often than it    *)
(* happened.                                                               *)
THEOREM TypeOKHolds == Spec => []TypeOK
BY TypesStart, TypesKept, PTL DEF Spec

-----------------------------------------------------------------------------
(* Who works on a pull request, and what follows from it: merged rows stay *)
(* as they are.                                                            *)

Client == Worker \cup Req

(* Between CheckIn and CheckOut a worker and a request are inside.         *)
Testing == {"manual", "base", "head", "has", "save"}
Merging == {"set", "base", "head", "push", "receive", "merged", "out"}
WorkersInside == \A w \in Worker : work[w].pc \in Testing \cup {"read"} => visit[w].inside
ReqsInside == \A r \in Req : req[r].pc \in Merging => visit[r].inside

(* Whoever tests has seen that the pull request is not merged, and it will *)
(* not be while the test goes on: merging needs the pool as well.          *)
TestedUnmerged == \A w \in Worker : work[w].pc \in Testing => ~pr.merged

Places == PP!PoolInv /\ WorkersInside /\ ReqsInside /\ TestedUnmerged

(* What the pool's steps do to the visits.                                 *)
LEMMA PoolMoves ==
  ASSUME PP!PoolInv, NEW c \in Client,
         Pool!CheckIn(c, "pr") \/ Pool!Enter(c) \/ Pool!CheckOut(c)
  PROVE  /\ PP!PoolInv'
         /\ \A d \in Client : d # c => visit'[d] = visit[d]
         /\ Pool!Enter(c) => visit'[c].inside
<1>1. visit \in [Client -> [id : {"pr"}, mutex : Pool!Mutex \cup {0}, inside : BOOLEAN]]
  BY DEF PP!PoolInv, PP!TypeOK, Client, PP!Mutex, Pool!Mutex
<1>2. \A d \in Client : d # c => visit'[d] = visit[d]
  BY <1>1 DEF Pool!CheckIn, Pool!Found, Pool!Enter, Pool!CheckOut
<1>3. Pool!Enter(c) => visit'[c].inside
  BY <1>1 DEF Pool!Enter
<1>4. Pool!Next
  BY DEF Pool!Next, Client
<1> QED BY <1>2, <1>3, <1>4, PoolStep

LEMMA PoolStands ==
  ASSUME PP!PoolInv, UNCHANGED poolVars
  PROVE  PP!PoolInv'
BY PoolStep

(* Only one is inside.                                                     *)
LEMMA OneInside ==
  ASSUME PP!PoolInv, NEW c \in Client, NEW d \in Client, visit[c].inside, visit[d].inside
  PROVE  c = d
<1>1. visit[c].id = "pr" /\ visit[d].id = "pr"
  BY DEF PP!PoolInv, PP!TypeOK, Client
<1> QED BY <1>1 DEF PP!PoolInv, PP!Exclusive, PP!Inside, Client

(* A step that leaves the pool and the rows of workers and requests, but   *)
(* for one that stays outside, and does not merge.                         *)
LEMMA PlacesStand ==
  ASSUME TypeOK, Places, UNCHANGED <<work, req, poolVars>>, pr'.merged = pr.merged
  PROVE  Places'
BY PoolStands DEF Places, WorkersInside, ReqsInside, TestedUnmerged, poolVars

(* A step of a worker that does not merge.                                 *)
LEMMA WorkerPlaces ==
  ASSUME TypeOK, Places, NEW w \in Worker, UNCHANGED req, pr'.merged = pr.merged,
         PP!PoolInv', \A d \in Client : d # w => visit'[d] = visit[d],
         \A v \in Worker : v # w => work'[v] = work[v],
         work'[w].pc \in Testing \cup {"read"} => visit'[w].inside,
         work'[w].pc \in Testing => ~pr.merged
  PROVE  Places'
BY ClientsAssumption DEF Places, WorkersInside, ReqsInside, TestedUnmerged, Client

(* A step of a request that does not merge.                                *)
LEMMA RequestPlaces ==
  ASSUME TypeOK, Places, NEW r \in Req, UNCHANGED work, pr'.merged = pr.merged,
         PP!PoolInv', \A d \in Client : d # r => visit'[d] = visit[d],
         \A q \in Req : q # r => req'[q] = req[q],
         req'[r].pc \in Merging => visit'[r].inside
  PROVE  Places'
BY ClientsAssumption DEF Places, WorkersInside, ReqsInside, TestedUnmerged, Client

(* What moving and finishing does to the rows.                             *)
LEMMA WorkMoves ==
  ASSUME TypeOK, NEW w \in Worker
  PROVE  /\ \A pc : Step(w, pc) => work'[w].pc = pc /\ \A v \in Worker : v # w => work'[v] = work[v]
         /\ Finish(w) \/ Drops(w) => /\ work'[w].pc = "idle" /\ Pool!CheckOut(w)
                                     /\ \A v \in Worker : v # w => work'[v] = work[v]
BY DEF TypeOK, WorkRow, Step, Finish, Drops, IdleWork

LEMMA ReqMoves ==
  ASSUME TypeOK, NEW r \in Req
  PROVE  /\ \A pc : Goes(r, pc) => req'[r].pc = pc /\ \A q \in Req : q # r => req'[q] = req[q]
         /\ Reply(r) => req'[r].pc = "idle" /\ \A q \in Req : q # r => req'[q] = req[q]
BY DEF TypeOK, ReqRow, Goes, Reply, IdleReq

(* The worker's steps.                                                     *)
LEMMA TestPlaces ==
  ASSUME TypeOK, Places, NEW w \in Worker, Test(w) \/ TestFails(w)
  PROVE  Places'
<1> w \in Client
  BY DEF Client
<1>0. PP!PoolInv /\ WorkersInside /\ TestedUnmerged
  BY DEF Places
<1>1. CASE Pop(w)
  BY <1>0, <1>1, WorkMoves, PoolStands, WorkerPlaces DEF Pop, Testing, poolVars
<1>2. CASE TestCheckIn(w)
  BY <1>0, <1>2, WorkMoves, PoolMoves, WorkerPlaces DEF TestCheckIn, Testing
<1>3. CASE TestEnter(w)
  BY <1>0, <1>3, WorkMoves, PoolMoves, WorkerPlaces DEF TestEnter, Testing
<1>4. CASE TestRead(w)
  <2>1. CASE Finish(w) \/ Drops(w)
    BY <1>0, <1>4, <2>1, WorkMoves, PoolMoves, WorkerPlaces DEF TestRead, Testing
  <2>2. CASE ~pr.merged /\ ~Finish(w) /\ ~Drops(w)
    <3>1. /\ \A v \in Worker : v # w => work'[v] = work[v]
          /\ visit[w].inside /\ UNCHANGED <<poolVars, pr, req>>
      BY <1>0, <1>4, <2>2 DEF TestRead, TypeOK, WorkersInside
    <3> QED BY <1>0, <2>2, <3>1, PoolStands, WorkerPlaces DEF poolVars
  <2> QED BY <1>4, <2>1, <2>2 DEF TestRead
<1>5. CASE TestManual(w)
  <2>0. visit[w].inside /\ UNCHANGED req
    BY <1>0, <1>5 DEF TestManual, WorkersInside, Testing
  <2>1. CASE Finish(w)
    <3>1. Finish(w)
      BY <2>1
    <3>2. \A v \in Worker : v # w => work[v].pc \notin Testing \cup {"read"}
      BY <1>0, <2>0, OneInside DEF WorkersInside, Client
    <3>3. \A v \in Worker : work'[v].pc \notin Testing \cup {"read"}
      BY <3>1, <3>2, WorkMoves DEF Testing
    <3>4. PP!PoolInv' /\ \A d \in Client : d # w => visit'[d] = visit[d]
      BY <1>0, <3>1, WorkMoves, PoolMoves
    <3> QED BY <2>0, <3>3, <3>4, ClientsAssumption DEF Places, WorkersInside, ReqsInside, TestedUnmerged, Client
  <2>2. CASE ~Finish(w)
    <3>1. UNCHANGED <<pr, poolVars>> /\ \A v \in Worker : v # w => work'[v] = work[v]
      BY <1>5, <2>2 DEF TestManual, Step, TypeOK
    <3>2. ~pr.merged
      BY <1>0, <1>5 DEF TestManual, TestedUnmerged, Testing
    <3> QED BY <1>0, <2>0, <3>1, <3>2, PoolStands, WorkerPlaces DEF poolVars
  <2> QED BY <2>1, <2>2
<1>6. CASE TestFetchBase(w) \/ TestFetchHead(w)
  <2>1. /\ \A v \in Worker : v # w => work'[v] = work[v]
        /\ visit[w].inside /\ ~pr.merged /\ UNCHANGED <<poolVars, pr, req>>
    BY <1>0, <1>6 DEF TestFetchBase, TestFetchHead, TypeOK, WorkersInside, TestedUnmerged, Testing
  <2> QED BY <1>0, <2>1, PoolStands, WorkerPlaces DEF poolVars
<1>7. CASE TestFails(w) \/ TestSave(w)
  <2>1. (Finish(w) \/ Drops(w)) /\ pr'.merged = pr.merged /\ UNCHANGED req
    BY <1>7, TestWrites DEF TestFails, TestSave, Drops, TypeOK
  <2> QED BY <1>0, <2>1, WorkMoves, PoolMoves, WorkerPlaces DEF Testing
<1>8. CASE TestHas(w)
  <2>1. CASE Finish(w)
    BY <1>0, <1>8, <2>1, WorkMoves, PoolMoves, WorkerPlaces DEF TestHas, Testing
  <2>2. CASE ~Finish(w)
    BY <1>0, <1>8, <2>2, WorkMoves, PoolStands, WorkerPlaces
    DEF TestHas, Testing, poolVars, WorkersInside, TestedUnmerged
  <2> QED BY <2>1, <2>2
<1> QED BY <1>1, <1>2, <1>3, <1>4, <1>5, <1>6, <1>7, <1>8 DEF Test

(* The steps of requests and of the auto-merge queue's handlers.           *)
LEMMA HandlePlaces ==
  ASSUME TypeOK, Places, NEW r \in Req, Request(r) \/ Handle(r)
  PROVE  Places'
<1> r \in Client
  BY DEF Client
<1>0. PP!PoolInv /\ WorkersInside /\ ReqsInside /\ TestedUnmerged
  BY DEF Places
<1>1. CASE Request(r) \/ Check(r) \/ DeleteScheduled(r) \/ ScheduleAutoMerge(r) \/ AutoPop(r) \/ AutoCheck(r)
  <2>1. /\ req'[r].pc \notin Merging /\ \A q \in Req : q # r => req'[q] = req[q]
        /\ UNCHANGED <<pr, work, poolVars>>
    <3>1. CASE Request(r)
      BY <3>1 DEF Request, IdleReq, TypeOK, Merging
    <3>2. CASE Check(r)
      BY <3>2, ReqMoves DEF Check, Merging
    <3>3. CASE DeleteScheduled(r) \/ ScheduleAutoMerge(r)
      BY <3>3, ReqMoves DEF DeleteScheduled, ScheduleAutoMerge, Merging
    <3>4. CASE AutoPop(r)
      BY <3>4 DEF AutoPop, IdleReq, TypeOK, Merging
    <3>5. CASE AutoCheck(r)
      BY <3>5, ReqMoves DEF AutoCheck, Merging
    <3> QED BY <1>1, <3>1, <3>2, <3>3, <3>4, <3>5
  <2> QED BY <1>0, <2>1, PoolStands, RequestPlaces DEF poolVars
<1>2. CASE MergeCheckIn(r)
  BY <1>0, <1>2, ReqMoves, PoolMoves, RequestPlaces DEF MergeCheckIn, Merging
<1>3. CASE MergeEnter(r)
  BY <1>0, <1>3, ReqMoves, PoolMoves, RequestPlaces DEF MergeEnter, Merging
<1>4. CASE MergeFetchBase(r) \/ MergeFetchHead(r) \/ MergePush(r) \/ MergeReceive(r)
  <2>1. /\ visit[r].inside /\ \A q \in Req : q # r => req'[q] = req[q]
        /\ UNCHANGED <<pr, work, poolVars>>
    BY <1>0, <1>4 DEF MergeFetchBase, MergeFetchHead, MergePush, MergeReceive, Goes, TypeOK, ReqRow, Merging,
      ReqsInside
  <2> QED BY <1>0, <2>1, PoolStands, RequestPlaces DEF poolVars
<1>5. CASE MergeReturns(r)
  BY <1>0, <1>5, ReqMoves, PoolMoves, RequestPlaces DEF MergeReturns, Merging
<1>6. CASE MergedManually(r) \/ HandlePullRequestMerging(r)
  <2>0. pr \in PullRow
    BY DEF TypeOK
  <2>1. visit[r].inside /\ UNCHANGED work
    BY <1>0, <1>6 DEF MergedManually, HandlePullRequestMerging, ReqsInside, Merging
  <2>2. \A w \in Worker : work'[w].pc \notin Testing \cup {"read"}
    BY <1>0, <2>1, OneInside, ClientsAssumption DEF WorkersInside, Client
  <2>3. \A q \in Req : q # r => req'[q] = req[q]
    BY <1>6, ReqMoves DEF MergedManually, HandlePullRequestMerging
  <2>4. CASE MergedManually(r)
    BY <1>0, <2>1, <2>2, <2>3, <2>4, ReqMoves, PoolMoves
    DEF MergedManually, Places, WorkersInside, ReqsInside, TestedUnmerged, Client, Merging
  <2>5. CASE HandlePullRequestMerging(r)
    BY <1>0, <2>1, <2>2, <2>3, <2>5, ReqMoves, PoolStands
    DEF HandlePullRequestMerging, Places, WorkersInside, ReqsInside, TestedUnmerged, Client, Merging, poolVars
  <2> QED BY <1>6, <2>4, <2>5
<1> QED BY <1>1, <1>2, <1>3, <1>4, <1>5, <1>6 DEF Handle

(* After a crash nobody is left in the pool.                               *)
LEMMA CrashPlaces == ASSUME TypeOK, Places, Crash PROVE Places'
<1>1. /\ pool' = [i \in {"pr"} |-> 0] /\ count' = [i \in {"pr"} |-> 0]
      /\ locked' = [m \in Pool!Mutex |-> FALSE]
      /\ visit' = [c \in Client |-> [id |-> "pr", mutex |-> 0, inside |-> FALSE]]
      /\ work' = [w \in Worker |-> IdleWork] /\ req' = [r \in Req |-> IdleReq]
  BY DEF Crash, Client
<1>2. \A i \in {"pr"} : PP!Visitors(i)' = {}
  BY <1>1 DEF PP!Visitors, PP!Away, Client
<1>3. PP!Counted'
  BY <1>1, <1>2, PP!FS_EmptySet DEF PP!Counted
<1>4. PP!TypeOK'
  BY <1>1 DEF PP!TypeOK, PP!Mutex, Pool!Mutex, Client
<1>5. PP!Shared' /\ PP!Held' /\ PP!Apart' /\ PP!Exclusive'
  BY <1>1 DEF PP!Shared, PP!Held, PP!Apart, PP!Exclusive, PP!Away, PP!Inside, Client
<1>6. PP!PoolInv'
  BY <1>3, <1>4, <1>5 DEF PP!PoolInv
<1> QED BY <1>1, <1>6 DEF Places, WorkersInside, ReqsInside, TestedUnmerged, IdleWork, IdleReq, Testing, Merging

LEMMA PlacesKept == ASSUME TypeOK, Places, [Next]_vars PROVE Places'
<1>1. CASE PushHead \/ PushBase
  BY <1>1, PlacesStand DEF PushHead, PushBase
<1>2. CASE FollowUp
  <2>1. UNCHANGED <<work, req, poolVars>>
    BY <1>2 DEF FollowUp, HookList, HookRef, TaskRef, Mark, Add, TaskList
  <2>2. pr'.merged = pr.merged
    BY <1>2, MarkTypes DEF FollowUp, HookList, HookRef, TaskRef, Mark, Add, TaskList, TypeOK
  <2> QED BY <2>1, <2>2, PlacesStand
<1>3. CASE RemoveScheduledAutoMerge \/ CreateCommitStatus \/ StartPRCheckAndAutoMergeBySHA \/ InitializePullRequests
  BY <1>3, PlacesStand
  DEF RemoveScheduledAutoMerge, CreateCommitStatus, StartPRCheckAndAutoMergeBySHA, InitializePullRequests
<1>4. CASE UNCHANGED vars
  BY <1>4, PlacesStand DEF vars, pullVars
<1> QED BY <1>1, <1>2, <1>3, <1>4, TestPlaces, HandlePlaces, CrashPlaces DEF Next

LEMMA PlacesStart == ASSUME Init PROVE Places
<1>1. PP!Bounds
  <2>1. IsFiniteSet(Worker \cup Req)
    BY ClientsAssumption, FS_Union
  <2> QED BY <2>1 DEF IsFiniteSet, PP!IsFiniteSet, PP!Bounds
<1>2. PP!Init
  BY DEF Init, Pool!Init, PP!Init, Pool!Mutex, PP!Mutex
<1>3. PP!PoolInv
  BY <1>1, <1>2, PP!PoolInit
<1> QED BY <1>3 DEF Init, Places, WorkersInside, ReqsInside, TestedUnmerged, IdleWork, IdleReq, Testing, Merging

LEMMA PlacesHold == Spec => [](TypeOK /\ Places)
<1>1. Init => TypeOK /\ Places
  BY TypesStart, PlacesStart
<1>2. TypeOK /\ Places /\ [Next]_vars => (TypeOK /\ Places)'
  BY TypesKept, PlacesKept
<1> QED BY <1>1, <1>2, PTL DEF Spec

(* At most one worker of pr_patch_checker or merging request works on the  *)
(* pull request, however many run and whatever crashes: every path between *)
(* CheckIn and CheckOut is one of the pool's.                              *)
THEOREM PoolExclusiveHolds == Spec => []PoolExclusive
<1>1. Places => PoolExclusive
  BY DEF Places, PP!PoolInv, PoolExclusive, PP!Exclusive, Pool!Exclusive, PP!Inside, Pool!Inside
<1> QED BY <1>1, PlacesHold, PTL

(* No step writes the row of a merged pull request: those that look at     *)
(* has_merged when they write do not, and a test that looked earlier       *)
(* excludes merging by being in the pool.                                  *)
LEMMA RowFrozen == ASSUME TypeOK, Places, [Next]_vars, pr.merged PROVE pr' = pr
<1>1. \A w \in Worker : work[w].pc \notin Testing
  BY DEF Places, TestedUnmerged
<1>2. pr \in PullRow
  BY DEF TypeOK
<1>3. ASSUME NEW w \in Worker, Test(w) \/ TestFails(w) PROVE pr' = pr
  <2>1. work[w].pc \notin Testing
    BY <1>1
  <2> QED BY <1>3, <2>1 DEF Test, TestFails, Drops, Pop, TestCheckIn, TestEnter, TestRead, TestManual, TestFetchBase,
    TestFetchHead, TestHas, TestSave, Testing
<1>4. ASSUME NEW r \in Req, Request(r) \/ Handle(r) PROVE pr' = pr
  BY <1>4 DEF Request, Handle, Check, DeleteScheduled, ScheduleAutoMerge, MergeCheckIn, MergeEnter, MergedManually,
    MergeFetchBase, MergeFetchHead, MergePush, MergeReceive, HandlePullRequestMerging, MergeReturns, AutoPop, AutoCheck
<1>5. CASE FollowUp
  BY <1>2, <1>5, RowTypes DEF FollowUp, HookList, HookRef, TaskRef, Mark, MarkChecking, Add, TaskList
<1>6. CASE PushHead \/ PushBase \/ Crash \/ UNCHANGED vars
  BY <1>6 DEF PushHead, PushBase, Crash, vars, pullVars
<1>7. CASE RemoveScheduledAutoMerge \/ CreateCommitStatus \/ StartPRCheckAndAutoMergeBySHA \/ InitializePullRequests
  BY <1>7 DEF RemoveScheduledAutoMerge, CreateCommitStatus, StartPRCheckAndAutoMergeBySHA, InitializePullRequests
<1> QED BY <1>3, <1>4, <1>5, <1>6, <1>7 DEF Next

(* A merged pull request's row is never written again, for any number of   *)
(* workers and requests.                                                   *)
THEOREM OutcomeFrozenHolds == Spec => OutcomeFrozen
<1>1. TypeOK /\ Places /\ [Next]_vars => [pr.merged => pr' = pr]_pr
  BY RowFrozen
<1> QED BY <1>1, PlacesHold, PTL DEF Spec, OutcomeFrozen
-----------------------------------------------------------------------------
(* What a request that named the head it has seen knows: the branch only   *)
(* grows, so if it is still at that head when the merge fetches it, then   *)
(* that head is the one whose checks were looked at.                       *)
Sure(r) == req[r].kind = "merge" /\ req[r].expected # NoHead
CheckedHead ==
  \A r \in Req : Sure(r) =>
    /\ req[r].pc \in {"check", "lock", "enter", "base", "head"} => req[r].expected <= git.head
    /\ req[r].pc \in {"lock", "enter", "base", "head"} /\ req[r].expected = git.head => git.head \in passed
    /\ req[r].pc = "push" => req[r].head \in passed
    /\ req[r].pc # "auto"

LEMMA CheckedStands ==
  ASSUME TypeOK, CheckedHead, UNCHANGED req, git'.head \in {git.head, git.head + 1}, passed \subseteq passed'
  PROVE  CheckedHead'
<1>1. /\ git.head \in Nat /\ git'.head \in Nat /\ git'.head >= git.head
      /\ \A r \in Req : req[r].expected \in Nat
  BY DEF TypeOK, GitRow, ReqRow
<1> QED BY <1>1 DEF CheckedHead, Sure

LEMMA CheckedMoves ==
  ASSUME TypeOK, CheckedHead, NEW r \in Req, Request(r) \/ Handle(r)
  PROVE  CheckedHead'
<1>1. git.head \in Nat /\ req \in [Req -> ReqRow] /\ req[r] \in ReqRow /\ req[r].expected \in Nat
  BY DEF TypeOK, GitRow, ReqRow
<1>2. UNCHANGED passed /\ git'.head = git.head
  BY DEF Request, Handle, Check, DeleteScheduled, ScheduleAutoMerge, MergeCheckIn, MergeEnter, MergedManually,
    MergeFetchBase, MergeFetchHead, MergePush, MergeReceive, HandlePullRequestMerging, MergeReturns, AutoPop,
    AutoCheck, TypeOK, GitRow
<1>3. \A q \in Req : q # r => req'[q] = req[q]
  BY <1>1 DEF Request, Handle, Check, DeleteScheduled, ScheduleAutoMerge, MergeCheckIn, MergeEnter, MergedManually,
    MergeFetchBase, MergeFetchHead, MergePush, MergeReceive, HandlePullRequestMerging, MergeReturns, AutoPop,
    AutoCheck, Goes, Reply
<1> SUFFICES ASSUME Sure(r)'
             PROVE  /\ req'[r].pc \in {"check", "lock", "enter", "base", "head"} => req'[r].expected <= git.head
                    /\ req'[r].pc \in {"lock", "enter", "base", "head"} /\ req'[r].expected = git.head
                         => git.head \in passed
                    /\ req'[r].pc = "push" => req'[r].head \in passed
                    /\ req'[r].pc # "auto"
  BY <1>2, <1>3 DEF CheckedHead, Sure
<1>4. CASE Request(r)
  BY <1>1, <1>4 DEF Request, IdleReq, NoHead
<1>5. CASE Check(r)
  <2>1. CASE CheckPullMergeable(req[r].kind, req[r].row) /\ req[r].kind # "schedule"
    <3>1. req'[r] = [req[r] EXCEPT !.pc = "lock"]
      BY <1>1, <1>5, <2>1 DEF Check, Goes
    <3>2. Sure(r) /\ req[r].pc = "check"
      BY <1>1, <1>5, <3>1 DEF Check, Sure, ReqRow
    <3> QED BY <1>1, <2>1, <3>1, <3>2 DEF CheckPullMergeable, ChecksPass, CheckedHead, Sure, ReqRow
  <2>2. CASE ~(CheckPullMergeable(req[r].kind, req[r].row) /\ req[r].kind # "schedule")
    BY <1>1, <1>5, <2>2 DEF Check, Goes, Reply, IdleReq, Sure, ReqRow
  <2> QED BY <2>1, <2>2
<1>6. CASE MergeCheckIn(r) \/ MergeEnter(r) \/ MergeFetchBase(r)
  BY <1>1, <1>6 DEF MergeCheckIn, MergeEnter, MergeFetchBase, Goes, CheckedHead, Sure, ReqRow
<1>7. CASE MergeFetchHead(r)
  BY <1>1, <1>7 DEF MergeFetchHead, Expected, CheckedHead, Sure, ReqRow
<1>8. CASE MergePush(r) \/ MergeReceive(r) \/ HandlePullRequestMerging(r) \/ DeleteScheduled(r)
  BY <1>1, <1>8 DEF MergePush, MergeReceive, HandlePullRequestMerging, DeleteScheduled, Goes, ReqRow
<1>9. CASE ScheduleAutoMerge(r) \/ MergedManually(r) \/ MergeReturns(r)
  BY <1>1, <1>9 DEF ScheduleAutoMerge, MergedManually, MergeReturns, Reply, IdleReq
<1>10. CASE AutoPop(r)
  BY <1>1, <1>10 DEF AutoPop, IdleReq, Sure, NoHead
<1>11. CASE AutoCheck(r)
  BY <1>1, <1>11 DEF AutoCheck, Goes, Reply, IdleReq, CheckedHead, Sure, ReqRow
<1> QED BY <1>4, <1>5, <1>6, <1>7, <1>8, <1>9, <1>10, <1>11 DEF Handle

LEMMA CheckedKept == ASSUME TypeOK, CheckedHead, [Next]_vars PROVE CheckedHead'
<1>1. git \in GitRow
  BY DEF TypeOK
<1>2. CASE PushHead \/ PushBase \/ FollowUp
  BY <1>1, <1>2, CheckedStands
  DEF PushHead, PushBase, FollowUp, HookList, HookRef, TaskRef, Mark, Add, TaskList, GitRow
<1>3. ASSUME NEW w \in Worker, Test(w) \/ TestFails(w) PROVE CheckedHead'
  BY <1>3, CheckedStands DEF Test, TestFails, Pop, TestCheckIn, TestEnter, TestRead, TestManual, TestFetchBase,
    TestFetchHead, TestHas, TestSave
<1>4. CASE RemoveScheduledAutoMerge \/ CreateCommitStatus \/ StartPRCheckAndAutoMergeBySHA \/ InitializePullRequests
  BY <1>4, CheckedStands
  DEF RemoveScheduledAutoMerge, CreateCommitStatus, StartPRCheckAndAutoMergeBySHA, InitializePullRequests
<1>5. CASE Crash
  BY <1>5 DEF Crash, CheckedHead, IdleReq, Sure, NoHead
<1>6. CASE UNCHANGED vars
  BY <1>6, CheckedStands DEF vars, pullVars
<1> QED BY <1>2, <1>3, <1>4, <1>5, <1>6, CheckedMoves DEF Next

(* A request that names the head it has seen merges a head whose checks    *)
(* succeeded, whatever is pushed between CheckPullMergeable, which looks   *)
(* at the branch, and the fetch that compares it with that name.           *)
THEOREM MergesCheckedHeadHolds == Spec => MergesCheckedHead
<1>1. Init => TypeOK /\ CheckedHead
  BY TypesStart DEF Init, CheckedHead, IdleReq, Sure, NoHead
<1>2. TypeOK /\ CheckedHead /\ [Next]_vars => (TypeOK /\ CheckedHead)'
  BY TypesKept, CheckedKept
<1>3. CheckedHead /\ [Next]_vars =>
        [\A r \in Req :
           /\ req[r].pc = "push" /\ req'[r].pc = "receive"
           /\ req[r].kind = "merge" /\ req[r].expected # NoHead
           => req[r].head \in passed]_req
  BY DEF CheckedHead, Sure
<1> QED BY <1>1, <1>2, <1>3, PTL DEF Spec, MergesCheckedHead
-----------------------------------------------------------------------------
(* A worker whose test will find what the branches are now: it has not     *)
(* fetched yet, or it has fetched what they are.                           *)
FreshTest(w) ==
  \/ work[w].pc \in {"popped", "enter", "read", "manual", "base"}
  \/ work[w].pc = "head" /\ work[w].base = git.base /\ work[w].in = git.in
  \/ /\ work[w].pc \in {"has", "save"}
     /\ work[w].status = Verdict(git.head, git.base, git.in, work[w].status)

(* A push is on its way to a test, or none is needed any more.             *)
Unfinished ==
  \/ forgotten \/ pr.merged \/ queued
  \/ \E s \in Stage : task[s] > 0
  \/ \E r \in Req : FollowsPush(r)
  \/ \E w \in Worker : work[w].pc \in {"popped", "enter"}

Settled == pr.status \in {Verdict(git.head, git.base, git.in, pr.status), "error"}

(* Whoever works on a stale result will be followed by another test.       *)
StaleFollowed == \A w \in Worker : work[w].pc \in {"head", "has", "save"} => FreshTest(w) \/ Unfinished

(* Unless something is still to come, the status is what it should be.     *)
Settling ==
  \/ Unfinished \/ Settled \/ dropped
  \/ booting /\ pr.status = "checking"
  \/ \E w \in Worker : FreshTest(w)

SettleInv == StaleFollowed /\ Settling

LEMMA Unsettled == ASSUME Unfinished' PROVE SettleInv'
BY DEF SettleInv, StaleFollowed, Settling

LEMMA VerdictStays ==
  ASSUME NEW h, NEW b, NEW i, NEW s
  PROVE  Verdict(h, b, i, Verdict(h, b, i, s)) = Verdict(h, b, i, s)
BY DEF Verdict

(* A step that touches neither branches nor row nor workers and completes  *)
(* nothing.                                                                *)
LEMMA SettleStands ==
  ASSUME SettleInv, UNCHANGED <<git, pr, work, booting, dropped>>, Unfinished => Unfinished'
  PROVE  SettleInv'
BY DEF SettleInv, StaleFollowed, Settling, Settled, FreshTest

(* A step of a worker who is in the pool, and hence the only one who       *)
(* tests: the others wait or are idle.                                     *)
LEMMA SettleMoves ==
  ASSUME TypeOK, Places, SettleInv, NEW w \in Worker, visit[w].inside,
         UNCHANGED <<git, booting>>, Unfinished => Unfinished',
         \A v \in Worker : v # w => work'[v] = work[v],
         \/ FreshTest(w)'
         \/ (Settled \/ dropped)' /\ work'[w].pc = "idle"
         \/ Unfinished
  PROVE  SettleInv'
<1>1. CASE Unfinished
  BY <1>1, Unsettled
<1>2. \A v \in Worker : v # w => work'[v].pc \notin {"head", "has", "save"}
  BY OneInside DEF Places, WorkersInside, Client, Testing
<1>3. CASE FreshTest(w)'
  BY <1>2, <1>3 DEF SettleInv, StaleFollowed, Settling
<1>4. CASE (Settled \/ dropped)' /\ work'[w].pc = "idle"
  BY <1>2, <1>4 DEF SettleInv, StaleFollowed, Settling
<1> QED BY <1>1, <1>3, <1>4

LEMMA SettleFollowUp ==
  ASSUME TypeOK, PushHead \/ PushBase \/ FollowUp
  PROVE  Unfinished'
<1>1. task \in [Stage -> Nat]
  BY DEF TypeOK
<1>2. ASSUME NEW s \in Stage, Enters(s) PROVE Unfinished'
  BY <1>1, <1>2 DEF Enters, Unfinished
<1>3. ASSUME NEW s \in Stage, NEW t \in Stage, s # t, Moves(s, t) PROVE Unfinished'
  BY <1>1, <1>3 DEF Moves, Unfinished
<1>4. CASE PushHead \/ PushBase
  BY <1>2, <1>4 DEF PushHead, PushBase, Stage
<1>5. CASE HookList \/ HookRef
  <2>1. forgotten' \/ Moves("hook", "headQueued") \/ Moves("hook", "hookRef") \/ Moves("hookRef", "headQueued")
    BY <1>5 DEF HookList, HookRef, Forgets
  <2> QED BY <1>3, <2>1 DEF Unfinished, Stage
<1>6. ASSUME NEW s \in Stage, NEW t \in Stage, s # t, TaskList(s, t) PROVE Unfinished'
  <2>1. CASE pr.merged \/ forgotten'
    BY <1>6, <2>1 DEF TaskList, Unfinished
  <2>2. CASE ~pr.merged /\ ~forgotten'
    BY <1>3, <1>6, <2>2 DEF TaskList, Forgets
  <2> QED BY <2>1, <2>2
<1>7. CASE TaskRef \/ Mark \/ Add
  <2>1. forgotten' \/ queued' \/ Moves("headRef", "mark") \/ Moves("mark", "add")
    BY <1>7 DEF TaskRef, Mark, Add, Forgets
  <2> QED BY <1>3, <2>1 DEF Unfinished, Stage
<1> QED BY <1>4, <1>5, <1>6, <1>7 DEF FollowUp, Stage

LEMMA UnfinishedStands ==
  ASSUME Unfinished, NEW w \in Worker, work[w].pc \notin {"popped", "enter"},
         UNCHANGED <<queued, task, req, forgotten>>, pr'.merged = pr.merged,
         \A v \in Worker : v # w => work'[v] = work[v]
  PROVE  Unfinished'
BY DEF Unfinished, FollowsPush

LEMMA SettleTest ==
  ASSUME TypeOK, Places, SettleInv, NEW w \in Worker, Test(w) \/ TestFails(w)
  PROVE  SettleInv'
<1>0. work \in [Worker -> WorkRow] /\ pr \in PullRow
  BY DEF TypeOK
<1>1. CASE Pop(w) \/ TestCheckIn(w)
  <2>1. work'[w].pc \in {"popped", "enter"}
    BY <1>1, WorkMoves DEF Pop, TestCheckIn
  <2> QED BY <2>1, Unsettled DEF Unfinished
<1>2. CASE TestEnter(w)
  <2>1. /\ work'[w].pc = "read" /\ \A v \in Worker : v # w => work'[v] = work[v]
        /\ UNCHANGED <<git, pr, booting>>
    BY <1>2, WorkMoves DEF TestEnter
  <2>2. \A v \in Worker : v # w => work[v].pc \notin Testing
    <3>1. visit'[w].inside /\ PP!PoolInv' /\ \A d \in Client : d # w => visit'[d] = visit[d]
      BY <1>2, PoolMoves DEF TestEnter, Places, Client
    <3>2. \A d \in Client : visit'[d].id = "pr"
      BY <3>1 DEF PP!PoolInv, PP!TypeOK, Client
    <3>3. \A v \in Worker : visit'[v].inside => v = w
      BY <3>1, <3>2 DEF PP!PoolInv, PP!Exclusive, PP!Inside, Client
    <3> QED BY <3>1, <3>3 DEF Places, WorkersInside, Client
  <2>3. FreshTest(w)' /\ \A v \in Worker : work'[v].pc \notin {"head", "has", "save"}
    BY <2>1, <2>2 DEF FreshTest, Testing
  <2> QED BY <2>3 DEF SettleInv, StaleFollowed, Settling
<1>3. ASSUME work[w].pc \in Testing \cup {"read"} PROVE visit[w].inside
  BY <1>3 DEF Places, WorkersInside
<1>11. ASSUME Drops(w), UNCHANGED <<git, booting, queued, task, req, forgotten, pr>>,
              work[w].pc \in Testing \cup {"read"}
       PROVE  SettleInv'
  <2>1. /\ work'[w].pc = "idle" /\ dropped' /\ \A v \in Worker : v # w => work'[v] = work[v]
        /\ visit[w].inside
    BY <1>3, <1>11, WorkMoves DEF Drops
  <2>2. Unfinished => Unfinished'
    BY <1>11, <2>1, UnfinishedStands DEF Testing
  <2> QED BY <1>11, <2>1, <2>2, SettleMoves
<1>4. CASE TestRead(w)
  <2>0. CASE Drops(w)
    BY <1>4, <1>11, <2>0 DEF TestRead
  <2>1. CASE pr.merged
    BY <1>4, <2>1, Unsettled DEF TestRead, Unfinished
  <2>2. CASE ~pr.merged /\ ~Drops(w)
    <3>1. /\ work'[w].pc = "manual" /\ \A v \in Worker : v # w => work'[v] = work[v]
          /\ UNCHANGED <<git, booting, queued, task, req, forgotten, pr>> /\ visit[w].inside
          /\ work[w].pc = "read"
      BY <1>0, <1>3, <1>4, <2>2 DEF TestRead, WorkRow
    <3> QED BY <3>1, SettleMoves, UnfinishedStands DEF FreshTest
  <2> QED BY <2>0, <2>1, <2>2
<1>5. CASE TestManual(w)
  <2>1. CASE pr' = ManuallyMerged
    BY <2>1, Unsettled DEF Unfinished, ManuallyMerged
  <2>2. CASE pr' # ManuallyMerged
    <3>1. /\ work'[w].pc = "base" /\ \A v \in Worker : v # w => work'[v] = work[v]
          /\ UNCHANGED <<git, booting, queued, task, req, forgotten, pr>> /\ visit[w].inside
          /\ work[w].pc = "manual"
      BY <1>0, <1>3, <1>5, <2>2 DEF TestManual, Step, WorkRow, Testing
    <3> QED BY <3>1, SettleMoves, UnfinishedStands DEF FreshTest
  <2> QED BY <2>1, <2>2
<1>6. CASE TestFetchBase(w)
  <2>1. /\ work'[w].pc = "head" /\ work'[w].base = git.base /\ work'[w].in = git.in
        /\ \A v \in Worker : v # w => work'[v] = work[v]
        /\ UNCHANGED <<git, booting, queued, task, req, forgotten, pr>> /\ visit[w].inside
        /\ work[w].pc = "base"
    BY <1>0, <1>3, <1>6 DEF TestFetchBase, WorkRow, Testing
  <2> QED BY <2>1, SettleMoves, UnfinishedStands DEF FreshTest
<1>7. CASE TestFetchHead(w)
  <2>1. /\ work'[w].pc = "has"
        /\ work'[w].status = Verdict(git.head, work[w].base, work[w].in, work[w].status)
        /\ \A v \in Worker : v # w => work'[v] = work[v]
        /\ UNCHANGED <<git, booting, queued, task, req, forgotten, pr>> /\ visit[w].inside
        /\ work[w].pc = "head"
    BY <1>0, <1>3, <1>7 DEF TestFetchHead, WorkRow, Testing
  <2>2. FreshTest(w) \/ Unfinished
    BY <2>1 DEF SettleInv, StaleFollowed
  <2>3. ASSUME FreshTest(w) PROVE FreshTest(w)'
    <3>1. work[w].base = git.base /\ work[w].in = git.in
      BY <2>1, <2>3 DEF FreshTest
    <3> QED BY <2>1, <3>1, VerdictStays DEF FreshTest
  <2>4. Unfinished => Unfinished'
    BY <2>1, UnfinishedStands
  <2> QED BY <2>1, <2>2, <2>3, <2>4, SettleMoves
<1>8. CASE TestFails(w)
  <2>1. /\ work'[w].pc = "idle" /\ \A v \in Worker : v # w => work'[v] = work[v]
        /\ UNCHANGED <<git, booting, queued, task, req, forgotten>> /\ visit[w].inside
        /\ work[w].pc \in {"base", "head"}
    BY <1>3, <1>8, WorkMoves DEF TestFails, Drops, Testing
  <2>2. (Settled \/ dropped)' /\ pr'.merged = pr.merged
    BY <1>0, <1>8, <2>1, TestWrites DEF Settled, TestFails, TestSave, Drops
  <2>3. Unfinished => Unfinished'
    BY <2>1, <2>2, UnfinishedStands
  <2> QED BY <2>1, <2>2, <2>3, SettleMoves
<1>9. CASE TestHas(w)
  <2>1. CASE queued
    BY <1>9, <2>1, Unsettled DEF TestHas, Unfinished
  <2>2. CASE ~queued
    <3>1. /\ work'[w] = [work[w] EXCEPT !.pc = "save"] /\ \A v \in Worker : v # w => work'[v] = work[v]
          /\ UNCHANGED <<git, booting, queued, task, req, forgotten, pr>> /\ visit[w].inside
          /\ work[w].pc = "has"
      BY <1>0, <1>3, <1>9, <2>2 DEF TestHas, Step, Testing
    <3>2. work'[w].pc = "save" /\ work'[w].status = work[w].status
      BY <1>0, <3>1 DEF WorkRow
    <3>3. FreshTest(w) \/ Unfinished
      BY <3>1 DEF SettleInv, StaleFollowed
    <3>4. FreshTest(w) => FreshTest(w)'
      BY <3>1, <3>2 DEF FreshTest
    <3>5. Unfinished => Unfinished'
      BY <3>1, <3>2, UnfinishedStands
    <3> QED BY <3>1, <3>3, <3>4, <3>5, SettleMoves
  <2> QED BY <2>1, <2>2
<1>10. CASE TestSave(w)
  <2>1. /\ work'[w].pc = "idle" /\ \A v \in Worker : v # w => work'[v] = work[v]
        /\ UNCHANGED <<git, booting, queued, task, req, forgotten>> /\ visit[w].inside
        /\ work[w].pc = "save" /\ ~pr.merged
    BY <1>3, <1>10, WorkMoves DEF TestSave, Drops, Testing, Places, TestedUnmerged
  <2>2. (pr'.status = work[w].status \/ dropped') /\ pr'.merged = pr.merged
    BY <1>0, <1>10, <2>1, TestWrites DEF TestFails, Drops
  <2>3. FreshTest(w) \/ Unfinished
    BY <2>1 DEF SettleInv, StaleFollowed
  <2>4. FreshTest(w) => (Settled \/ dropped)'
    BY <2>1, <2>2 DEF FreshTest, Settled
  <2>5. Unfinished => Unfinished'
    BY <2>1, <2>2, UnfinishedStands
  <2> QED BY <2>1, <2>3, <2>4, <2>5, SettleMoves
<1> QED BY <1>1, <1>2, <1>4, <1>5, <1>6, <1>7, <1>8, <1>9, <1>10 DEF Test

LEMMA SettleHandle ==
  ASSUME TypeOK, SettleInv, NEW r \in Req, Request(r) \/ Handle(r)
  PROVE  SettleInv'
<1>0. /\ req \in [Req -> ReqRow] /\ task \in [Stage -> Nat] /\ pr \in PullRow
      /\ \A q \in Req : q # r => req'[q] = req[q]
  BY DEF TypeOK, Request, Handle, Check, DeleteScheduled, ScheduleAutoMerge, MergeCheckIn, MergeEnter, MergedManually,
    MergeFetchBase, MergeFetchHead, MergePush, MergeReceive, HandlePullRequestMerging, MergeReturns, AutoPop,
    AutoCheck, Goes, Reply
<1>1. ASSUME UNCHANGED <<git, pr, work, booting, dropped, queued, task, forgotten>>,
             FollowsPush(r) => req'[r].pc \in {"receive", "merged", "out"}
      PROVE  SettleInv'
  <2>1. Unfinished => Unfinished'
    BY <1>0, <1>1 DEF Unfinished, FollowsPush
  <2> QED BY <1>1, <2>1, SettleStands
<1>2. CASE Request(r) \/ DeleteScheduled(r) \/ ScheduleAutoMerge(r) \/ MergeCheckIn(r) \/ MergeEnter(r)
  BY <1>1, <1>2 DEF Request, DeleteScheduled, ScheduleAutoMerge, MergeCheckIn, MergeEnter, FollowsPush
<1>3. CASE Check(r) \/ MergeFetchBase(r) \/ MergeFetchHead(r) \/ AutoCheck(r)
  BY <1>1, <1>3 DEF Check, MergeFetchBase, MergeFetchHead, AutoCheck, FollowsPush
<1>4. CASE AutoPop(r)
  BY <1>1, <1>4 DEF AutoPop, FollowsPush
<1>5. CASE MergePush(r)
  <2>1. req'[r].pc \in {"receive", "out"}
    BY <1>5, ReqMoves DEF MergePush
  <2> QED BY <2>1, Unsettled DEF Unfinished, FollowsPush
<1>6. CASE MergeReceive(r)
  <2>1. req'[r].pc \in {"merged", "out"}
    BY <1>6, ReqMoves DEF MergeReceive
  <2> QED BY <2>1, Unsettled DEF Unfinished, FollowsPush
<1>7. CASE MergeReturns(r)
  <2>1. task'["baseTask"] > 0
    BY <1>0, <1>7 DEF MergeReturns, Enters, Stage
  <2> QED BY <2>1, Unsettled DEF Unfinished, Stage
<1>8. CASE MergedManually(r)
  <2>1. pr'.merged
    BY <1>0, <1>8 DEF MergedManually, ManuallyMerged
  <2> QED BY <2>1, Unsettled DEF Unfinished
<1>9. CASE HandlePullRequestMerging(r)
  <2>1. req'[r].pc = "out"
    BY <1>9, ReqMoves DEF HandlePullRequestMerging
  <2> QED BY <2>1, Unsettled DEF Unfinished, FollowsPush
<1> QED BY <1>2, <1>3, <1>4, <1>5, <1>6, <1>7, <1>8, <1>9 DEF Handle

(* A crash that makes the server forget nothing leaves only what is queued *)
(* or will be queued on start.                                             *)
LEMMA SettleCrash == ASSUME TypeOK, SettleInv, Crash PROVE SettleInv'
<1>1. CASE forgotten \/ CrashForgets
  BY <1>1, Unsettled DEF Crash, Unfinished
<1>2. CASE ~forgotten /\ ~CrashForgets
  <2>1. /\ UNCHANGED <<git, pr, queued>> /\ booting'
        /\ task' = [s \in Stage |-> IF s \in Persistent THEN task[s] ELSE 0]
        /\ \A w \in Worker : work'[w].pc = "idle"
    BY DEF Crash, IdleWork
  <2>2. /\ \A s \in Stage \ Persistent : task[s] = 0
        /\ \A r \in Req : ~FollowsPush(r)
        /\ pr.status = "checking" \/ (~dropped /\ \A w \in Worker : work[w].pc = "idle")
    BY <1>2 DEF CrashForgets, TypeOK, Stage, Persistent
  <2>3. StaleFollowed'
    BY <2>1 DEF StaleFollowed
  <2>4. CASE pr.status = "checking"
    BY <2>1, <2>3, <2>4 DEF SettleInv, Settling
  <2>5. CASE pr.status # "checking"
    <3>1. ~dropped /\ \A w \in Worker : ~FreshTest(w) /\ work[w].pc \notin {"popped", "enter"}
      BY <2>2, <2>5 DEF FreshTest
    <3>2. CASE Unfinished
      <4>1. pr.merged \/ queued \/ \E s \in Persistent : task[s] > 0
        BY <1>2, <2>2, <3>1, <3>2 DEF Unfinished, Stage, Persistent
      <4> QED BY <2>1, <4>1, Unsettled DEF Unfinished, Stage, Persistent
    <3>3. CASE Settled
      BY <2>1, <2>3, <3>3 DEF SettleInv, Settling, Settled
    <3> QED BY <2>5, <3>1, <3>2, <3>3 DEF SettleInv, Settling
  <2> QED BY <2>4, <2>5
<1> QED BY <1>1, <1>2

LEMMA SettleKept == ASSUME TypeOK, Places, SettleInv, [Next]_vars PROVE SettleInv'
<1>1. CASE PushHead \/ PushBase \/ FollowUp
  BY <1>1, SettleFollowUp, Unsettled
<1>2. CASE RemoveScheduledAutoMerge \/ CreateCommitStatus \/ StartPRCheckAndAutoMergeBySHA
  BY <1>2, SettleStands
  DEF RemoveScheduledAutoMerge, CreateCommitStatus, StartPRCheckAndAutoMergeBySHA, Unfinished, FollowsPush
<1>3. CASE InitializePullRequests
  <2>1. /\ UNCHANGED <<git, pr, work, task, req, forgotten>> /\ (queued => queued')
        /\ (dropped => dropped')
        /\ dropped' \/ queued' = (queued \/ pr.status = "checking")
    <3>1. CASE UNCHANGED dropped
      BY <1>3, <3>1 DEF InitializePullRequests, Untested, TypeOK
    <3>2. CASE dropped' = TRUE
      <4>1. queued' = queued \/ queued' = (queued \/ Untested)
        BY <1>3 DEF InitializePullRequests
      <4>2. queued => queued'
        BY <4>1 DEF TypeOK
      <4>3. UNCHANGED <<git, pr, work, task, req, forgotten>>
        BY <1>3 DEF InitializePullRequests
      <4> QED BY <3>2, <4>2, <4>3
    <3> QED BY <1>3, <3>1, <3>2 DEF InitializePullRequests
  <2>2. CASE queued'
    BY <2>2, Unsettled DEF Unfinished
  <2>3. CASE ~queued'
    BY <2>1, <2>3 DEF SettleInv, StaleFollowed, Settling, Settled, FreshTest, Unfinished, FollowsPush
  <2> QED BY <2>2, <2>3
<1>4. CASE UNCHANGED vars
  BY <1>4, SettleStands DEF vars, pullVars, Unfinished, FollowsPush
<1> QED BY <1>1, <1>2, <1>3, <1>4, SettleTest, SettleHandle, SettleCrash DEF Next

(* Once nothing is left to do the row tells what the branches are, however *)
(* tests, pushes, merges and restarts overlapped: a test that is overtaken *)
(* by a push is followed by another, since the pull request is queued      *)
(* again before the test looks at the queue or after it has saved, or      *)
(* waits for the pool.                                                     *)
THEOREM StatusSettlesHolds == Spec => []StatusSettles
<1>1. Init => SettleInv
  BY VerdictStays DEF Init, SettleInv, StaleFollowed, Settling, Settled, IdleWork
<1>2. SettleInv /\ TypeOK /\ Places /\ [Next]_vars => SettleInv'
  BY SettleKept
<1>3. SettleInv => StatusSettles
  BY DEF SettleInv, Settling, Settled, StatusSettles, Quiet, Unfinished, FreshTest
<1> QED BY <1>1, <1>2, <1>3, PlacesHold, PTL DEF Spec
=============================================================================
