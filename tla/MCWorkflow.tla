----------------------------- MODULE MCWorkflow -----------------------------
(* Workflow and WorkflowLoops over every dependency graph on a few lists   *)
(* of jobs, with and without a matrix; a name may be nobody's JobID.       *)
EXTENDS WorkflowLoops

Matrices == {<<"a", "a", "b">>, <<"a", "b", "b">>, <<"a", "b", "a">>}
Workflows == Matrices \cup {<<"a", "b", "c">>, <<"a", "b", "b", "c">>}
=============================================================================
