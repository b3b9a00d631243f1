---------------------------- MODULE ActionStatus ----------------------------
(***************************************************************************)
(* The status of a run, a job or a task of Gitea Actions, and the pure     *)
(* functions on it: models/actions/status.go and the aggregation of the    *)
(* jobs' statuses in models/actions/run_job.go.                            *)
(***************************************************************************)

(* The statuses that status.go:51 calls final; each is also a result a     *)
(* runner can report (Status(state.Result) in UpdateTaskByState).          *)
Final == {"success", "failure", "cancelled", "skipped"}

Status == Final \cup {"waiting", "running", "blocked"}

(* No status, the zero value: the row does not exist yet.                  *)
Unknown == "unknown"

IsDone(s) == s \in Final

(* The status of a run with the jobs' statuses st.  A skipped job counts   *)
(* as done, not as a failure; a blocked one makes the run "running".       *)
MutantAggregateJobStatus(st) ==  \* no case for a blocked job
  LET Some(S) == \E j \in DOMAIN st : st[j] \in S
  IN  IF \A j \in DOMAIN st : st[j] \in Final
        THEN IF Some({"failure", "cancelled"}) THEN "failure" ELSE "success"
        ELSE IF Some({"running"}) THEN "running"
        ELSE IF Some({"waiting"}) THEN "waiting" ELSE Unknown
AggregateJobStatus(st) ==
  LET Some(S) == \E j \in DOMAIN st : st[j] \in S
  IN  IF ~Some({"waiting", "running", "blocked"})
        THEN IF Some({"failure", "cancelled"}) THEN "failure" ELSE "success"
        ELSE IF Some({"running", "blocked"}) THEN "running" ELSE "waiting"
=============================================================================
