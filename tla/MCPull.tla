------------------------------- MODULE MCPull -------------------------------
(* Bounds and revisions for model checking PullRequest.                    *)
EXTENDS PullRequest, TLC

Nothing == {}

NoEvents == [e \in Event |-> 0]

(* Head 2 changes nothing at first and conflicts with the second base,     *)
(* head 3 with the first.                                                  *)
SomeConflicts == {<<2, 1>>, <<3, 0>>}
SomeEmpties == {<<2, 0>>}

(* A status for each head; pushes overtaken by tests, restarts and         *)
(* failures; merges twice, forced, by hand and outside; a schedule         *)
(* withdrawn.                                                              *)
PullBudgets ==
  {[NoEvents EXCEPT !.pushHead = 1, !.merge = 1, !.status = 2, !.fail = 1],
   [NoEvents EXCEPT !.pushHead = 2, !.pushBase = 1, !.crash = 1, !.fail = 1],
   [NoEvents EXCEPT !.merge = 1, !.status = 1, !.pushBase = 1, !.crash = 1],
   [NoEvents EXCEPT !.merge = 1, !.manual = 1, !.status = 1, !.crash = 1],
   [NoEvents EXCEPT !.merge = 1, !.forced = 1, !.status = 1],
   [NoEvents EXCEPT !.pushHead = 1, !.forced = 1],
   [NoEvents EXCEPT !.pushHead = 1, !.schedule = 1, !.unschedule = 1, !.status = 2]}
AutoBudgets == {[NoEvents EXCEPT !.pushBase = 1, !.schedule = 1, !.status = 1]}

Sym == Permutations(Worker) \cup Permutations(Req)
=============================================================================
