----------------------------- MODULE RunPromise -----------------------------
(***************************************************************************)
(* What the engine promises to the author of a workflow: the life of its   *)
(* jobs as the run's page shows it.  A job waits until its needs are done, *)
(* is skipped when they failed and it did not ask to run always, runs      *)
(* once, and keeps its result; nothing runs before the run is approved.    *)
(* There are no tasks, queues, copies or transactions here: what somebody  *)
(* decides holds for the jobs as they are.                                 *)
(***************************************************************************)
EXTENDS ActionStatus, Naturals

CONSTANTS NumJobs, JobID, Needs, Always  \* as in ActionsEngine

VARIABLES
  status,   \* [Job -> Status]
  approved  \* the run does not wait for an approval

Job == 1 .. NumJobs
NeededJobs(j) == {k \in Job : JobID[k] \in Needs[j]}

(* The verdict of the statuses st on a job whose needs are all done.       *)
GoAhead(j, st) == \A k \in NeededJobs(j) : st[k] \in Final /\ (j \in Always \/ st[k] = "success")
Refused(j, st) ==
  /\ j \notin Always /\ \A k \in NeededJobs(j) : st[k] \in Final
  /\ \E k \in NeededJobs(j) : st[k] # "success"

Init ==
  /\ approved \in BOOLEAN
  /\ status = [j \in Job |-> IF Needs[j] = {} /\ approved THEN "waiting" ELSE "blocked"]

Approve ==
  /\ ~approved /\ approved' = TRUE
  /\ status' = [j \in Job |-> IF Needs[j] = {} /\ status[j] = "blocked" THEN "waiting" ELSE status[j]]

(* Some blocked jobs are released or skipped, each by the statuses that    *)
(* its needs have then.                                                    *)
Decide ==
  /\ approved /\ UNCHANGED approved
  /\ status' \in [Job -> Status]
  /\ \A j \in Job : status'[j] # status[j] =>
       /\ status[j] = "blocked"
       /\ \/ status'[j] = "waiting" /\ GoAhead(j, status')
          \/ status'[j] = "skipped" /\ Refused(j, status')

(* A runner gets the job.                                                  *)
Start(j) ==
  /\ approved /\ status[j] = "waiting" /\ GoAhead(j, status)
  /\ status' = [status EXCEPT ![j] = "running"]
  /\ UNCHANGED approved

(* The runner reports, or nobody hears of it any longer.                   *)
End(j, result) ==
  /\ approved /\ status[j] = "running"
  /\ status' = [status EXCEPT ![j] = result]
  /\ UNCHANGED approved

(* Jobs that have no result are cancelled; a skipped one may be.           *)
Cancel ==
  /\ status' \in [Job -> Status]
  /\ \A j \in Job : status'[j] # status[j] =>
       status'[j] = "cancelled" /\ status[j] \notin {"success", "failure"}
  /\ UNCHANGED approved

Next ==
  \/ Approve \/ Decide \/ Cancel
  \/ \E j \in Job : Start(j) \/ \E result \in Final : End(j, result)

Spec == Init /\ [][Next]_<<status, approved>>
=============================================================================
