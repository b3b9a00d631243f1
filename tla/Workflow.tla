------------------------------ MODULE Workflow ------------------------------
(***************************************************************************)
(* The dependencies between the jobs of a workflow run: the resolver of    *)
(* blocked jobs (services/actions/job_emitter.go) and the choice of the    *)
(* jobs to rerun (services/actions/rerun.go), as pure functions of         *)
(*   ids    [job -> JobID], the id in the workflow, shared by a matrix,    *)
(*   needs  [job -> set of JobIDs],                                        *)
(*   always the jobs whose condition is "always()",                        *)
(*   st     [job -> status].                                               *)
(* Jobs are numbered 1 .. n in the order of their database ids.            *)
(***************************************************************************)
EXTENDS ActionStatus, Integers, Sequences, SequencesExt

(* newJobStatusResolver: a need stands for every job with that JobID.      *)
NeededBy(ids, needs, j) == {k \in DOMAIN ids : ids[k] \in needs[j]}

NeedStatuses(ids, needs, st, j) == {st[k] : k \in NeededBy(ids, needs, j)}

(* What the resolver makes of a blocked job whose needs have the statuses  *)
(* of the set S: it waits on while one is not done, is released when none  *)
(* failed or its condition is always(), and is skipped otherwise.          *)
MutantAllNeedsDone(S) == "running" \notin S  \* takes a need that has not started for a done one
AllNeedsDone(S) == S \subseteq Final
MutantAllNeedsSucceed(S) == S \cap {"failure", "cancelled"} = {}  \* forgets skipped needs
AllNeedsSucceed(S) == S \cap {"failure", "cancelled", "skipped"} = {}
MutantReleased(S, always) == AllNeedsDone(S) /\ AllNeedsSucceed(S)  \* forgets always()
Released(S, always) == AllNeedsDone(S) /\ (AllNeedsSucceed(S) \/ always)

(* The blocked jobs that one pass over st decides, and the statuses after  *)
(* it: every job is decided from the statuses before the pass.             *)
MutantDecided(ids, needs, st) ==  \* takes a running need for a done one
  {j \in DOMAIN ids : st[j] = "blocked" /\ NeedStatuses(ids, needs, st, j) \subseteq Final \cup {"running"}}
Decided(ids, needs, st) ==
  {j \in DOMAIN ids : st[j] = "blocked" /\ AllNeedsDone(NeedStatuses(ids, needs, st, j))}

Resolve(ids, needs, always, st) ==
  [j \in DOMAIN ids |->
     IF j \notin Decided(ids, needs, st) THEN st[j]
     ELSE IF Released(NeedStatuses(ids, needs, st, j), j \in always) THEN "waiting" ELSE "skipped"]

(* GetAllRerunJobs: the requested job, then, pass after pass over the jobs *)
(* in order, each job whose JobID is not among the ids collected so far    *)
(* and one of whose needs is.  Scan(...)[k] is what is collected when a    *)
(* pass that starts with acc has looked at the first k jobs, Passes(...)[p]*)
(* what it is after p passes; a pass more than there are jobs finds none.  *)
Collect(ids, needs, acc, j) ==
  IF ids[j] \notin acc.ids /\ needs[j] \cap acc.ids # {}
    THEN [list |-> Append(acc.list, j), ids |-> acc.ids \cup {ids[j]}]
    ELSE acc

Scan(ids, needs, acc) ==
  LET scan[k \in 0 .. Len(ids)] ==
        IF k = 0 THEN acc ELSE Collect(ids, needs, scan[k - 1], k)
  IN  scan

Passes(ids, needs, job) ==
  LET pass[p \in 0 .. Len(ids)] ==
        IF p = 0 THEN [list |-> <<job>>, ids |-> {ids[job]}]
        ELSE Scan(ids, needs, pass[p - 1])[Len(ids)]
  IN  pass

MutantGetAllRerunJobs(ids, needs, job) == Passes(ids, needs, job)[1].list  \* one pass only
GetAllRerunJobs(ids, needs, job) == Passes(ids, needs, job)[Len(ids)].list
=============================================================================
