------------------------------- MODULE MCLog -------------------------------
(* Bounds for model checking TaskLog.                                      *)
EXTENDS TaskLog

NoEvents == [e \in Event |-> 0]
LogBudgets ==
  {[NoEvents EXCEPT !.lose = 2],
   [NoEvents EXCEPT !.fail = 2, !.crash = 1],
   [NoEvents EXCEPT !.lose = 1, !.sweep = 1],
   [NoEvents EXCEPT !.fail = 1, !.sweep = 2]}
=============================================================================
