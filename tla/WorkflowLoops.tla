--------------------------- MODULE WorkflowLoops ---------------------------
(***************************************************************************)
(* The two loops over the jobs of a workflow, one iteration per step:      *)
(* jobStatusResolver.Resolve (services/actions/job_emitter.go), pass after *)
(* pass, and GetAllRerunJobs (services/actions/rerun.go), job after job.   *)
(* A behavior is one call of one of them, for any workflow: nothing keeps  *)
(* needs from being circular, or from naming a job that is not there.      *)
(***************************************************************************)
EXTENDS Workflow

CONSTANTS
  IdLists,    \* the JobIDs of the jobs, one list per shape of workflow
  JobNames,   \* what needs may name
  ReadStatus  \* the statuses the jobs may have when they are read

ASSUME WorkflowLoopsAssumption == \A list \in IdLists : list \in Seq(Range(list))

VARIABLES
  ids, needs, always,  \* the workflow, as in Workflow
  before, st, passes,  \* Resolve: statuses when called and now, passes made
  job,                 \* GetAllRerunJobs: its argument, 0 when it is not called
  rerunJobs, rerunIDs, \* what it has collected
  at, found            \* the job the scan has come to; whether it found one

workflow == <<ids, needs, always>>
resolver == <<before, st, passes>>
rerun == <<job, rerunJobs, rerunIDs, at, found>>
vars == <<workflow, resolver, rerun>>

(* The jobs of a matrix share their JobID and their needs.                 *)
IsWorkflow ==
  /\ ids \in IdLists
  /\ \E needsOf \in [Range(ids) -> SUBSET JobNames] :
       needs = [j \in DOMAIN ids |-> needsOf[ids[j]]]
  /\ always \in SUBSET DOMAIN ids

ResolveCalled ==
  /\ before \in [DOMAIN ids -> ReadStatus] /\ st = before /\ passes = 0
  /\ job = 0 /\ rerunJobs = <<>> /\ rerunIDs = {}
  /\ at = Len(ids) + 1 /\ found = FALSE

(* The jobs' statuses do not matter to GetAllRerunJobs.                    *)
RerunCalled ==
  /\ before = [j \in DOMAIN ids |-> "success"] /\ st = before /\ passes = 0
  /\ job \in DOMAIN ids /\ rerunJobs = <<job>> /\ rerunIDs = {ids[job]}
  /\ at = 1 /\ found = FALSE

Init == IsWorkflow /\ (ResolveCalled \/ RerunCalled)

-----------------------------------------------------------------------------
(* One round of the loop of Resolve, which makes at most as many as there  *)
(* are jobs and ends early when a pass decides nothing.                    *)
ResolvePass ==
  /\ passes < Len(ids) /\ Decided(ids, needs, st) # {}
  /\ st' = Resolve(ids, needs, always, st)
  /\ passes' = passes + 1
  /\ UNCHANGED <<workflow, before, rerun>>

ResolveEnded == passes = Len(ids) \/ Decided(ids, needs, st) = {}

(* The loops of GetAllRerunJobs: a pass over all jobs takes each one whose *)
(* JobID is not collected yet and one of whose needs is; passes are made   *)
(* until one finds nothing.                                                *)
MutantDepends(j) == needs[j] \cap rerunIDs # {}  \* does not look the JobID up
Depends(j) == ids[j] \notin rerunIDs /\ needs[j] \cap rerunIDs # {}

MutantTake ==  \* forgets that it found one
  /\ at \in DOMAIN ids /\ Depends(at)
  /\ rerunJobs' = Append(rerunJobs, at)
  /\ rerunIDs' = rerunIDs \cup {ids[at]}
  /\ at' = at + 1
  /\ UNCHANGED <<workflow, resolver, job, found>>
Take ==
  /\ at \in DOMAIN ids /\ Depends(at)
  /\ rerunJobs' = Append(rerunJobs, at)
  /\ rerunIDs' = rerunIDs \cup {ids[at]}
  /\ found' = TRUE
  /\ at' = at + 1
  /\ UNCHANGED <<workflow, resolver, job>>

Skip ==
  /\ at \in DOMAIN ids /\ ~Depends(at)
  /\ at' = at + 1
  /\ UNCHANGED <<workflow, resolver, job, rerunJobs, rerunIDs, found>>

ScanAgain ==
  /\ at > Len(ids) /\ found
  /\ at' = 1 /\ found' = FALSE
  /\ UNCHANGED <<workflow, resolver, job, rerunJobs, rerunIDs>>

RerunEnded == job # 0 /\ at > Len(ids) /\ ~found

Next == ResolvePass \/ Take \/ Skip \/ ScanAgain
Spec == Init /\ [][Next]_vars

-----------------------------------------------------------------------------
(* When Resolve ends, nothing is left to decide, and what each pass        *)
(* decided agrees with the final statuses: the result does not depend on   *)
(* the pass in which a job was decided, nor on the bound of the loop.      *)
ResolvedConsistently ==
  ResolveEnded => \A j \in DOMAIN ids :
    LET S == NeedStatuses(ids, needs, st, j)
    IN  before[j] = "blocked" =>
          st[j] = IF ~AllNeedsDone(S) THEN "blocked"
                  ELSE IF Released(S, j \in always) THEN "waiting" ELSE "skipped"

(* The jobs that have to run again with job j: it and, transitively, every *)
(* job that needs one of them.                                             *)
DependOn(S) == {k \in DOMAIN ids : \E m \in S : ids[m] \in needs[k]}
Closed(S) == DependOn(S) \subseteq S
AllDependents(j) ==
  {k \in DOMAIN ids : \A S \in SUBSET (DOMAIN ids) : j \in S /\ Closed(S) => k \in S}

(* "GetAllRerunJobs get all jobs that need to be rerun when job should be  *)
(* rerun" (rerun.go:11), up to the JobID: some job of each id that depends *)
(* on the requested one is rerun, and no job that does not.  Of the jobs   *)
(* of a matrix, which share an id, only one is.                            *)
RerunsEveryDependentID ==
  RerunEnded =>
    /\ Range(rerunJobs) \subseteq AllDependents(job)
    /\ {ids[k] : k \in Range(rerunJobs)} = {ids[k] : k \in AllDependents(job)}

(* No job is reset before one of the jobs it needs that are to be rerun is *)
(* in the list, and none twice, nor two jobs of the same matrix.           *)
RerunOrder ==
  \A i \in DOMAIN rerunJobs :
    /\ \A k \in 1 .. i - 1 : ids[rerunJobs[k]] # ids[rerunJobs[i]]
    /\ i > 1 => \E k \in 1 .. i - 1 : ids[rerunJobs[k]] \in needs[rerunJobs[i]]

(* The function that ActionsEngine uses for Rerun is what the loop returns.*)
RerunLoopAgrees == RerunEnded => rerunJobs = GetAllRerunJobs(ids, needs, job)
=============================================================================
