------------------------ MODULE ExclusivePool_proofs ------------------------
(* The pool of modules/sync lets in one client per identity, for any       *)
(* number of goroutines, identities and mutexes.                           *)
EXTENDS ExclusivePool, FiniteSetTheorems, TLAPS

(* The pool counts those that have checked in.                             *)
Counted == \A i \in Id : count[i] = Cardinality(Visitors(i))

(* A client that waits or is inside has the mutex newcomers would find,    *)
(* and one that is inside has it locked.                                   *)
Shared == \A c \in Client : ~Away(c) => visit[c].mutex = pool[visit[c].id]
Held == \A c \in Client : Inside(c) => ~Away(c) /\ locked[visit[c].mutex]

(* No two identities have the same mutex.                                  *)
Apart == \A i, k \in Id : pool[i] # 0 /\ pool[i] = pool[k] => i = k

PoolInv == TypeOK /\ Counted /\ Shared /\ Held /\ Apart /\ Exclusive

Bounds == IsFiniteSet(Client) /\ MaxMutex \in Nat

(* Visitors stay finite: there are only so many goroutines.                *)
LEMMA VisitorsFinite ==
  ASSUME Bounds, NEW i \in Id
  PROVE  IsFiniteSet(Visitors(i)) /\ Cardinality(Visitors(i)) \in Nat
<1>1. Visitors(i) \subseteq Client
  BY DEF Visitors
<1> QED BY <1>1, FS_Subset, FS_CardinalityType DEF Bounds

(* The pool starts empty.                                                  *)
LEMMA PoolInit == ASSUME Bounds, Init PROVE PoolInv
<1>1. TypeOK /\ Shared /\ Held /\ Apart /\ Exclusive
  BY DEF Bounds, Init, TypeOK, Shared, Held, Apart, Exclusive, Away, Inside, Mutex
<1>2. \A i \in Id : Visitors(i) = {}
  BY DEF Init, Visitors, Away
<1> QED BY <1>1, <1>2, FS_EmptySet DEF PoolInv, Counted, Init

(* Who checks in finds the mutex of those who are there, or a new one.     *)
LEMMA CheckInKeeps ==
  ASSUME Bounds, PoolInv, NEW c \in Client, NEW j \in Id, CheckIn(c, j)
  PROVE  PoolInv'
<1> USE DEF PoolInv
<1>1. PICK m \in Mutex :
        /\ Found(c, j, m)
        /\ \/ pool[j] = m /\ UNCHANGED locked
           \/ pool[j] = 0 /\ Unused(m) /\ locked' = [locked EXCEPT ![m] = FALSE]
  <2>1. CASE pool[j] # 0
    BY <2>1 DEF CheckIn, TypeOK
  <2>2. CASE pool[j] = 0
    BY <2>2 DEF CheckIn
  <2> QED BY <2>1, <2>2
<1>2. /\ Away(c) /\ m # 0
      /\ visit' = [visit EXCEPT ![c] = [id |-> j, mutex |-> m, inside |-> FALSE]]
      /\ pool' = [pool EXCEPT ![j] = m]
      /\ count' = [count EXCEPT ![j] = @ + 1]
  BY <1>1 DEF CheckIn, Found, Mutex, Bounds
<1>3. TypeOK'
  <2>1. m \in Mutex \cup {0} /\ count[j] + 1 \in Nat
    BY DEF TypeOK
  <2>2. pool' \in [Id -> Mutex \cup {0}] /\ count' \in [Id -> Nat] /\ locked' \in [Mutex -> BOOLEAN]
    BY <1>1, <1>2, <2>1 DEF TypeOK
  <2>3. visit' \in [Client -> [id : Id, mutex : Mutex \cup {0}, inside : BOOLEAN]]
    BY <1>2, <2>1 DEF TypeOK
  <2> QED BY <2>2, <2>3 DEF TypeOK
<1>4. Shared'
  <2> SUFFICES ASSUME NEW d \in Client, ~Away(d)' PROVE visit'[d].mutex = pool'[visit'[d].id]
    BY DEF Shared
  <2>1. CASE d = c
    BY <2>1, <1>2 DEF TypeOK
  <2>2. CASE d # c
    <3>1. visit'[d] = visit[d] /\ visit[d].mutex = pool[visit[d].id] /\ visit[d].mutex # 0
      BY <2>2, <1>2 DEF TypeOK, Shared, Away
    <3>2. CASE visit[d].id = j
      BY <3>1, <3>2, <1>1, <1>2 DEF TypeOK
    <3>3. CASE visit[d].id # j
      BY <3>1, <3>3, <1>2 DEF TypeOK
    <3> QED BY <3>2, <3>3
  <2> QED BY <2>1, <2>2
<1>5. Held'
  <2> SUFFICES ASSUME NEW d \in Client, Inside(d)' PROVE ~Away(d)' /\ locked'[visit'[d].mutex]
    BY DEF Held
  <2>1. d # c /\ visit'[d] = visit[d] /\ Inside(d)
    BY <1>2 DEF Inside, TypeOK
  <2>2. ~Away(d) /\ locked[visit[d].mutex] /\ visit[d].mutex \in Mutex
    BY <2>1 DEF Held, TypeOK, Away
  <2>3. locked'[visit[d].mutex]
    BY <2>2, <1>1 DEF Unused, TypeOK
  <2> QED BY <2>1, <2>2, <2>3 DEF Away
<1>6. Apart'
  BY <1>1, <1>2 DEF Apart, Unused, TypeOK
<1>7. Exclusive'
  BY <1>2 DEF Exclusive, Inside, TypeOK
<1>8. Counted'
  <2> SUFFICES ASSUME NEW i \in Id PROVE count'[i] = Cardinality(Visitors(i)')
    BY DEF Counted
  <2>1. CASE i = j
    <3>1. Visitors(i)' = Visitors(i) \cup {c} /\ c \notin Visitors(i)
      BY <2>1, <1>2 DEF Visitors, Away, TypeOK
    <3>2. Cardinality(Visitors(i)') = Cardinality(Visitors(i)) + 1
      BY <3>1, VisitorsFinite, FS_AddElement
    <3>3. count[i] = Cardinality(Visitors(i)) /\ count'[i] = count[i] + 1
      BY <2>1, <1>2 DEF Counted, TypeOK
    <3> QED BY <3>2, <3>3
  <2>2. CASE i # j
    <3>1. Visitors(i)' = Visitors(i)
      BY <2>2, <1>2 DEF Visitors, Away, TypeOK
    <3> QED BY <3>1, <2>2, <1>2 DEF Counted, TypeOK
  <2> QED BY <2>1, <2>2
<1> QED BY <1>3, <1>4, <1>5, <1>6, <1>7, <1>8

(* Who enters has locked the mutex that everybody inside holds.            *)
LEMMA EnterKeeps ==
  ASSUME PoolInv, NEW c \in Client, Enter(c)
  PROVE  PoolInv'
<1> USE DEF PoolInv
<1>1. /\ ~Away(c) /\ ~Inside(c) /\ ~locked[visit[c].mutex]
      /\ locked' = [locked EXCEPT ![visit[c].mutex] = TRUE]
      /\ visit' = [visit EXCEPT ![c].inside = TRUE]
      /\ pool' = pool /\ count' = count /\ visit[c].mutex \in Mutex
  BY DEF Enter, TypeOK, Away
<1>2. TypeOK'
  BY <1>1 DEF TypeOK
<1>3. \A d \in Client : /\ visit'[d].id = visit[d].id /\ visit'[d].mutex = visit[d].mutex
                        /\ d # c => visit'[d] = visit[d]
  BY <1>1 DEF TypeOK
<1>4. Shared' /\ Apart'
  BY <1>1, <1>3 DEF Shared, Apart, Away
<1>5. Held'
  <2> SUFFICES ASSUME NEW d \in Client, Inside(d)' PROVE ~Away(d)' /\ locked'[visit'[d].mutex]
    BY DEF Held
  <2>1. CASE d = c
    BY <2>1, <1>1, <1>3 DEF Away, TypeOK
  <2>2. CASE d # c
    BY <2>2, <1>1, <1>3 DEF Away, Held, Inside, TypeOK
  <2> QED BY <2>1, <2>2
<1>6. Exclusive'
  <2>1. \A d \in Client : Inside(d) => visit[d].id # visit[c].id
    BY <1>1 DEF Held, Shared
  <2> QED BY <2>1, <1>3 DEF Exclusive, Inside
<1>7. Counted'
  <2>1. \A i \in Id : Visitors(i)' = Visitors(i)
    BY <1>3 DEF Visitors, Away
  <2> QED BY <2>1, <1>1 DEF Counted
<1> QED BY <1>2, <1>4, <1>5, <1>6, <1>7

(* The mutex leaves the map with the last of those who know it.            *)
LEMMA CheckOutKeeps ==
  ASSUME Bounds, PoolInv, NEW c \in Client, CheckOut(c)
  PROVE  PoolInv'
<1> USE DEF PoolInv
<1>0. PICK j \in Id : visit[c].id = j
  BY DEF TypeOK
<1>1. /\ Inside(c) /\ ~Away(c) /\ visit[c].mutex = pool[j] /\ pool[j] \in Mutex
      /\ locked' = [locked EXCEPT ![pool[j]] = FALSE]
      /\ pool' = [pool EXCEPT ![j] = IF count[j] - 1 = 0 THEN 0 ELSE @]
      /\ count' = [count EXCEPT ![j] = count[j] - 1]
      /\ visit' = [visit EXCEPT ![c].mutex = 0, ![c].inside = FALSE]
  BY <1>0 DEF CheckOut, Remaining, TypeOK, Held, Shared, Away
<1>2. /\ \A d \in Client \ {c} : visit'[d] = visit[d]
      /\ visit'[c].mutex = 0 /\ visit'[c].inside = FALSE
  BY <1>1 DEF TypeOK
<1>3. /\ Visitors(j)' = Visitors(j) \ {c} /\ c \in Visitors(j)
      /\ \A i \in Id \ {j} : Visitors(i)' = Visitors(i)
  <2>1. c \in Visitors(j) /\ \A i \in Id \ {j} : c \notin Visitors(i)
    BY <1>0, <1>1 DEF Visitors
  <2>2. \A i \in Id : Visitors(i)' = Visitors(i) \ {c}
    BY <1>1, <1>2 DEF Visitors, Away
  <2>3. \A i \in Id \ {j} : Visitors(i) \ {c} = Visitors(i)
    BY <2>1
  <2>4. \A i \in Id \ {j} : Visitors(i)' = Visitors(i)
    BY <2>2, <2>3
  <2> QED BY <2>1, <2>2, <2>4
<1>4. /\ IsFiniteSet(Visitors(j)')
      /\ Cardinality(Visitors(j)') = count[j] - 1
      /\ count[j] - 1 \in Nat
  <2>1. /\ IsFiniteSet(Visitors(j)) /\ IsFiniteSet(Visitors(j) \ {c})
        /\ Cardinality(Visitors(j) \ {c}) = Cardinality(Visitors(j)) - 1
    BY <1>1, <1>3, VisitorsFinite, FS_RemoveElement
  <2>2. Cardinality(Visitors(j) \ {c}) \in Nat
    BY <2>1, FS_CardinalityType
  <2>3. count[j] = Cardinality(Visitors(j))
    BY <1>1 DEF Counted
  <2> QED BY <2>1, <2>2, <2>3, <1>3
<1>5. TypeOK'
  BY <1>1, <1>4 DEF TypeOK
<1>6. Counted'
  BY <1>1, <1>3, <1>4 DEF Counted, TypeOK
<1>7. Shared'
  <2> SUFFICES ASSUME NEW d \in Client, ~Away(d)' PROVE visit'[d].mutex = pool'[visit'[d].id]
    BY DEF Shared
  <2>1. d # c /\ visit'[d] = visit[d] /\ ~Away(d)
    BY <1>2 DEF Away
  <2>2. visit[d].mutex = pool[visit[d].id]
    BY <2>1 DEF Shared
  <2>3. CASE visit[d].id = j
    <3>1. d \in Visitors(j)'
      BY <1>3, <2>1, <2>3 DEF Visitors
    <3>2. count[j] - 1 # 0
      BY <3>1, <1>4, FS_EmptySet
    <3> QED BY <3>2, <2>1, <2>2, <2>3, <1>1 DEF TypeOK
  <2>4. CASE visit[d].id # j
    BY <2>4, <2>1, <2>2, <1>1 DEF TypeOK
  <2> QED BY <2>3, <2>4
<1>8. Held'
  <2> SUFFICES ASSUME NEW d \in Client, Inside(d)' PROVE ~Away(d)' /\ locked'[visit'[d].mutex]
    BY DEF Held
  <2>1. d # c /\ visit'[d] = visit[d] /\ Inside(d)
    BY <1>2 DEF Inside
  <2>2. ~Away(d) /\ locked[visit[d].mutex] /\ visit[d].mutex = pool[visit[d].id]
    BY <2>1 DEF Held, Shared
  <2>3. visit[d].id \in Id /\ visit[d].id # j
    BY <2>1, <1>0, <1>1 DEF Exclusive, TypeOK
  <2>4. visit[d].mutex # pool[j]
    BY <2>2, <2>3, <1>1 DEF Apart, Away
  <2> QED BY <2>1, <2>2, <2>4, <1>1 DEF Away, TypeOK
<1>9. Apart' /\ Exclusive'
  BY <1>1, <1>2 DEF Apart, Exclusive, Inside, TypeOK
<1> QED BY <1>5, <1>6, <1>7, <1>8, <1>9

(* Every step of the pool keeps its invariant; so does standing still.     *)
LEMMA PoolNext ==
  ASSUME Bounds, PoolInv, [Next]_poolVars
  PROVE  PoolInv'
<1>1. CASE Next
  BY <1>1, CheckInKeeps, EnterKeeps, CheckOutKeeps DEF Next
<1>2. CASE UNCHANGED poolVars
  BY <1>2 DEF poolVars, PoolInv, TypeOK, Counted, Shared, Held, Apart, Exclusive, Visitors, Away, Inside
<1> QED BY <1>1, <1>2

(* "only one instance with same identity is in the pool at a time"         *)
(* (exclusive_pool.go), although the mutex of an identity comes and goes   *)
(* with its clients and is waited for outside the pool's own lock.         *)
THEOREM PoolIsExclusive == ASSUME Bounds PROVE Spec => []Exclusive
<1>1. Init => PoolInv
  BY PoolInit
<1>2. PoolInv /\ [Next]_poolVars => PoolInv'
  BY PoolNext
<1>3. PoolInv => Exclusive
  BY DEF PoolInv
<1> QED BY <1>1, <1>2, <1>3, PTL DEF Spec
=============================================================================
