----------------------------- MODULE MCActions -----------------------------
(* Workflows and bounds for model checking ActionsEngine.                  *)
EXTENDS ActionsEngine

(* build -> test -> notify, with notify under "if: always()".              *)
ChainID == <<"build", "test", "notify">>
ChainNeeds == <<{}, {"build"}, {"test"}>>

(* Two jobs, the second needs the first.                                   *)
PairID == <<"build", "test">>
PairNeeds == <<{}, {"build"}>>

NoEvents == [op \in Op |-> 0]
ChainBudgets == {[NoEvents EXCEPT !.zombie = 2, !.crash = 1, !.pushfail = 1, !.cancel = 1, !.approve = 1]}
RerunBudgets ==
  {[NoEvents EXCEPT !.rerun = 2, !.zombie = 1],
   [NoEvents EXCEPT !.rerun = 1, !.approve = 1, !.cancel = 1],
   [NoEvents EXCEPT !.abandon = 1, !.approve = 1, !.cancel = 1, !.zombie = 1],
   [NoEvents EXCEPT !.previous = 1, !.zombie = 1, !.cancel = 1]}
OneRerunBudgets == {[NoEvents EXCEPT !.rerun = 1]}

(* Without faults and sweeps, and with everything that may fail; as many   *)
(* sweeps of abandoned jobs as there are jobs and crashes to ruin them.    *)
ProgressBudgets ==
  {[NoEvents EXCEPT !.cancel = 1],
   [NoEvents EXCEPT !.zombie = 2, !.crash = 1, !.pushfail = 1, !.abandon = 4]}

Sym == Permutations(Worker) \cup Permutations(Req)
=============================================================================
