--------------------------- MODULE ExclusivePool ---------------------------
(* modules/sync/exclusive_pool.go: a pool that lets in one instance per    *)
(* identity.  The pool keeps a mutex per identity in a map and counts the  *)
(* clients that hold or wait for it; whoever checks out last removes the   *)
(* mutex from the map, and the next client makes a new one.  CheckIn is    *)
(* two steps: it finds the mutex under the pool's own lock and waits for   *)
(* it after that lock is released.                                         *)
EXTENDS Naturals, FiniteSets

CONSTANTS
  Client,     \* goroutines
  Id,         \* identities
  MaxMutex    \* mutex objects that memory may hold at a time

VARIABLES
  pool,       \* identity -> its mutex, 0 when the map has no entry
  count,      \* identity -> clients that checked in and not yet out
  locked,     \* mutex -> whether it is locked
  visit       \* client -> the identity it asked for, the mutex it found
              \* (0 when it is away) and whether Lock has returned

poolVars == <<pool, count, locked, visit>>

Mutex == 1..MaxMutex

TypeOK ==
  /\ pool \in [Id -> Mutex \cup {0}]
  /\ count \in [Id -> Nat]
  /\ locked \in [Mutex -> BOOLEAN]
  /\ visit \in [Client -> [id : Id, mutex : Mutex \cup {0}, inside : BOOLEAN]]

Away(c) == visit[c].mutex = 0
Inside(c) == visit[c].inside
Visitors(i) == {c \in Client : ~Away(c) /\ visit[c].id = i}

(* A mutex object that nothing refers to.                                  *)
Unused(m) == (\A i \in Id : pool[i] # m) /\ (\A c \in Client : visit[c].mutex # m)

Init ==
  /\ pool = [i \in Id |-> 0]
  /\ count = [i \in Id |-> 0]
  /\ locked = [m \in Mutex |-> FALSE]
  /\ \E i \in Id : visit = [c \in Client |-> [id |-> i, mutex |-> 0, inside |-> FALSE]]

Found(c, i, m) ==
  /\ pool' = [pool EXCEPT ![i] = m]
  /\ visit' = [visit EXCEPT ![c] = [id |-> i, mutex |-> m, inside |-> FALSE]]
  /\ count' = [count EXCEPT ![i] = @ + 1]

(* CheckIn up to p.lock.Unlock(): the mutex of the map, or a new one.      *)
CheckIn(c, i) ==
  /\ Away(c)
  /\ \/ /\ pool[i] # 0
        /\ Found(c, i, pool[i])
        /\ UNCHANGED locked
     \/ /\ pool[i] = 0
        /\ \E m \in Mutex : Unused(m)
        /\ LET m == CHOOSE m \in Mutex : Unused(m)
           IN Found(c, i, m) /\ locked' = [locked EXCEPT ![m] = FALSE]

(* CheckIn's lock.Lock() returns.                                          *)
Enter(c) ==
  /\ ~Away(c) /\ ~Inside(c) /\ ~locked[visit[c].mutex]
  /\ locked' = [locked EXCEPT ![visit[c].mutex] = TRUE]
  /\ visit' = [visit EXCEPT ![c].inside = TRUE]
  /\ UNCHANGED <<pool, count>>

MutantRemaining(i) == 0  \* every CheckOut removes the mutex
Remaining(i) == count[i] - 1

(* CheckOut unlocks the mutex that the map holds for the identity.         *)
CheckOut(c) ==
  LET i == visit[c].id IN
  /\ Inside(c)
  /\ locked' = [locked EXCEPT ![pool[i]] = FALSE]
  /\ pool' = [pool EXCEPT ![i] = IF Remaining(i) = 0 THEN 0 ELSE @]
  /\ count' = [count EXCEPT ![i] = Remaining(i)]
  /\ visit' = [visit EXCEPT ![c].mutex = 0, ![c].inside = FALSE]

Next == \E c \in Client : Enter(c) \/ CheckOut(c) \/ \E i \in Id : CheckIn(c, i)

Spec == Init /\ [][Next]_poolVars

(* "only one instance with same identity is in the pool at a time": the    *)
(* mutex that a waiter found must still be the one newcomers find.         *)
Exclusive ==
  \A c, d \in Client : Inside(c) /\ Inside(d) /\ visit[c].id = visit[d].id => c = d
=============================================================================
