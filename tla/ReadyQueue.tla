----------------------------- MODULE ReadyQueue -----------------------------
(***************************************************************************)
(* What a queue of Gitea promises to the code that pushes into it: an item *)
(* that was accepted stays pending until a call of the handler gets it;    *)
(* what the handler gives back is pending again; nothing else leaves the   *)
(* queue, except for items that are given up and reported as lost.         *)
(***************************************************************************)
CONSTANTS Item, Executor

VARIABLES
  pending,  \* the items accepted for which the handler must still be called
  calls,    \* [Executor -> SUBSET Item]: the running calls of the handler
  lost      \* the items given up

Init == pending = {} /\ calls = [x \in Executor |-> {}] /\ lost = {}

Push(i) == pending' = pending \cup {i} /\ UNCHANGED <<calls, lost>>

(* An item pushed again before its call may stay pending for another one.  *)
Remain(S) == pending \ S \subseteq pending' /\ pending' \subseteq pending

Call(x, S) ==
  /\ calls[x] = {} /\ S # {} /\ S \subseteq pending
  /\ calls' = [calls EXCEPT ![x] = S]
  /\ Remain(S) /\ UNCHANGED lost

Return(x, unhandled) ==
  /\ calls[x] # {} /\ unhandled \subseteq calls[x]
  /\ calls' = [calls EXCEPT ![x] = {}]
  /\ pending' = pending \cup unhandled
  /\ UNCHANGED lost

(* A copy of the item may remain.                                          *)
GiveUp(i) ==
  /\ i \in pending /\ Remain({i})
  /\ lost' = lost \cup {i} /\ UNCHANGED calls

Next ==
  \/ \E i \in Item : Push(i) \/ GiveUp(i)
  \/ \E x \in Executor : \E S \in SUBSET Item : Call(x, S) \/ Return(x, S)

Spec == Init /\ [][Next]_<<pending, calls, lost>>
=============================================================================
