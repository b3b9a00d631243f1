------------------------------ MODULE MCFetch ------------------------------
(* Runners, jobs and bounds for model checking TaskFetch.                  *)
EXTENDS TaskFetch, TLC

CONSTANTS r1, r2, build, deploy

(* Two repositories of one owner; the second runner has one more label.    *)
TwoRepos == build :> <<1, 1>> @@ deploy :> <<1, 2>>
OneRepo == build :> <<1, 1>> @@ deploy :> <<1, 1>>
SomeLabels == {<<r1, build>>, <<r2, build>>, <<r2, deploy>>}

(* Instance, owner and repository level, as the settings pages make them.  *)
PageScopes == {r1 :> <<0, 1>> @@ r2 :> <<1, 0>>, r1 :> <<0, 0>> @@ r2 :> <<0, 2>>}

(* What generate-runner-token makes for {owner}/{repo}.                    *)
CommandScopes == {r2 :> <<1, 1>>}

NoEvents == [e \in Event |-> 0]
FetchBudgets ==
  {[NoEvents EXCEPT !.wait = 3, !.lose = 1],
   [NoEvents EXCEPT !.wait = 2, !.cancel = 1, !.restart = 1]}
CommandBudgets == {[NoEvents EXCEPT !.wait = 2]}
=============================================================================
