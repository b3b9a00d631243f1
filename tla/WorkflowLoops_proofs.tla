------------------------ MODULE WorkflowLoops_proofs ------------------------
(***************************************************************************)
(* What the resolver of blocked jobs and GetAllRerunJobs return, for every *)
(* workflow of any size, with and without matrices; and that the loop of   *)
(* GetAllRerunJobs computes the function that ActionsEngine uses.          *)
(***************************************************************************)
EXTENDS WorkflowLoops, FiniteSetTheorems, TLAPS

TypeInv ==
  /\ Len(ids) \in Nat /\ DOMAIN ids = 1 .. Len(ids)
  /\ DOMAIN st = DOMAIN ids /\ passes \in Nat
  /\ job \in DOMAIN ids \cup {0} /\ rerunJobs \in Seq(DOMAIN ids)
  /\ at \in 1 .. Len(ids) + 1 /\ found \in BOOLEAN

Blocked == {j \in DOMAIN ids : st[j] = "blocked"}

(* A job keeps the status it was read with until it is decided, and what   *)
(* was decided follows from the needs as they are now.  A pass decides a   *)
(* job at least, so the bound on the passes cuts nothing off.              *)
ResolveInv ==
  /\ \A j \in DOMAIN ids : \/ st[j] = before[j]
                           \/ before[j] = "blocked" /\ st[j] \in {"waiting", "skipped"}
  /\ \A j \in DOMAIN ids : before[j] = "blocked" /\ st[j] # "blocked" =>
       LET S == NeedStatuses(ids, needs, st, j)
       IN  AllNeedsDone(S) /\ st[j] = IF Released(S, j \in always) THEN "waiting" ELSE "skipped"
  /\ Cardinality(Blocked) + passes <= Len(ids)

(* While a pass has found nothing, the jobs behind it whose needs are      *)
(* collected are so themselves.                                            *)
Collected == {ids[k] : k \in Range(rerunJobs)}
RerunInv ==
  /\ job # 0 => job \in Range(rerunJobs)
  /\ rerunIDs = Collected
  /\ Range(rerunJobs) \subseteq AllDependents(job)
  /\ ~found /\ job # 0 => \A j \in 1 .. at - 1 : needs[j] \cap rerunIDs # {} => ids[j] \in rerunIDs
  /\ RerunOrder

-----------------------------------------------------------------------------
LEMMA TypeInit == Init => TypeInv
<1> SUFFICES ASSUME Init PROVE TypeInv
  OBVIOUS
<1>1. ids \in Seq(Range(ids))
  BY WorkflowLoopsAssumption DEF Init, IsWorkflow
<1>2. Len(ids) \in Nat /\ DOMAIN ids = 1 .. Len(ids)
  BY <1>1
<1>4. DOMAIN st = DOMAIN ids /\ passes = 0 /\ found = FALSE
  BY DEF Init, ResolveCalled, RerunCalled
<1>5. job \in DOMAIN ids \cup {0} /\ rerunJobs \in Seq(DOMAIN ids)
  <2>1. \/ job = 0 /\ rerunJobs = <<>>
        \/ job \in DOMAIN ids /\ rerunJobs = <<job>>
    BY DEF Init, ResolveCalled, RerunCalled
  <2>2. CASE job = 0 /\ rerunJobs = <<>>
    BY <2>2
  <2>3. CASE job \in DOMAIN ids /\ rerunJobs = <<job>>
    <3>1. \A x \in DOMAIN ids : <<x>> \in Seq(DOMAIN ids)
      OBVIOUS
    <3> QED BY <2>3, <3>1
  <2> QED BY <2>1, <2>2, <2>3
<1>6. at \in 1 .. Len(ids) + 1
  BY <1>2 DEF Init, ResolveCalled, RerunCalled
<1> QED BY <1>2, <1>4, <1>5, <1>6 DEF TypeInv

LEMMA TypeNext == ASSUME TypeInv, [Next]_vars PROVE TypeInv'
<1>1. CASE ResolvePass
  BY <1>1 DEF ResolvePass, Resolve, TypeInv, workflow, rerun
<1>2. CASE Take
  <2>1. at \in 1 .. Len(ids) /\ Append(rerunJobs, at) \in Seq(DOMAIN ids)
    BY <1>2 DEF Take, TypeInv
  <2> QED BY <1>2, <2>1 DEF Take, TypeInv, workflow, resolver
<1>3. CASE Skip
  BY <1>3 DEF Skip, TypeInv, workflow, resolver
<1>4. CASE ScanAgain
  <2>1. at' = 1 /\ found' = FALSE
    BY <1>4 DEF ScanAgain
  <2>2. UNCHANGED <<ids, needs, st, passes, job, rerunJobs>>
    BY <1>4 DEF ScanAgain, workflow, resolver
  <2>3. at' \in 1 .. Len(ids) + 1
    BY <2>1 DEF TypeInv
  <2> QED BY <2>1, <2>2, <2>3 DEF TypeInv
<1>5. CASE UNCHANGED vars
  BY <1>5 DEF TypeInv, vars, workflow, resolver, rerun
<1> QED BY <1>1, <1>2, <1>3, <1>4, <1>5 DEF Next

-----------------------------------------------------------------------------
LEMMA BlockedFinite ==
  ASSUME TypeInv
  PROVE  /\ IsFiniteSet(Blocked) /\ Cardinality(Blocked) \in Nat
         /\ Cardinality(Blocked) <= Len(ids)
<1>1. IsFiniteSet(1 .. Len(ids)) /\ Cardinality(1 .. Len(ids)) = Len(ids)
  <2>1. Len(ids) \in Nat
    BY DEF TypeInv
  <2>2. 1 \in Int /\ Len(ids) \in Int
    BY <2>1
  <2>3. /\ IsFiniteSet(1 .. Len(ids))
        /\ Cardinality(1 .. Len(ids)) = IF 1 > Len(ids) THEN 0 ELSE Len(ids) - 1 + 1
    BY <2>2, FS_Interval
  <2> QED BY <2>1, <2>3
<1>2. Blocked \in SUBSET (1 .. Len(ids))
  BY DEF Blocked, TypeInv
<1>3. IsFiniteSet(Blocked) /\ Cardinality(Blocked) <= Len(ids)
  BY <1>1, <1>2, FS_Subset
<1> QED BY <1>3, FS_CardinalityType

LEMMA ResolveInit == ASSUME Init PROVE ResolveInv
<1>1. TypeInv /\ st = before /\ passes = 0
  BY TypeInit DEF Init, ResolveCalled, RerunCalled
<1> QED BY <1>1, BlockedFinite DEF ResolveInv

(* A pass takes the jobs it decides out of the blocked ones.               *)
LEMMA PassDecides ==
  ASSUME TypeInv, ResolvePass
  PROVE  /\ \A j \in DOMAIN ids : st[j] # "blocked" => st'[j] = st[j]
         /\ \A j \in DOMAIN ids : st'[j] # st[j] =>
              LET S == NeedStatuses(ids, needs, st, j)
              IN  AllNeedsDone(S) /\ st'[j] = IF Released(S, j \in always) THEN "waiting" ELSE "skipped"
         /\ Cardinality(Blocked') < Cardinality(Blocked)
<1>1. st' = Resolve(ids, needs, always, st) /\ ids' = ids
  BY DEF ResolvePass, workflow
<1>2. \A j \in DOMAIN ids : st[j] # "blocked" => st'[j] = st[j]
  BY <1>1 DEF Resolve, Decided
<1>3. \A j \in DOMAIN ids : st'[j] # st[j] =>
        LET S == NeedStatuses(ids, needs, st, j)
        IN  AllNeedsDone(S) /\ st'[j] = IF Released(S, j \in always) THEN "waiting" ELSE "skipped"
  BY <1>1 DEF Resolve, Decided
<1>4. PICK d \in DOMAIN ids : d \in Decided(ids, needs, st)
  BY DEF ResolvePass, Decided
<1>5. d \in Blocked /\ d \notin Blocked'
  BY <1>1, <1>4 DEF Resolve, Decided, Blocked
<1>6. Blocked' \in SUBSET Blocked
  BY <1>1, <1>2 DEF Blocked
<1>7. Blocked' # Blocked
  BY <1>5
<1>8. Cardinality(Blocked') <= Cardinality(Blocked) /\ IsFiniteSet(Blocked')
  BY <1>6, BlockedFinite, FS_Subset
<1>9. Cardinality(Blocked) # Cardinality(Blocked')
  BY <1>6, <1>7, BlockedFinite, FS_Subset
<1>10. Cardinality(Blocked) \in Nat /\ Cardinality(Blocked') \in Nat
  BY <1>8, BlockedFinite, FS_CardinalityType
<1>11. Cardinality(Blocked') < Cardinality(Blocked)
  BY <1>8, <1>9, <1>10
<1> QED BY <1>2, <1>3, <1>11

(* Needs that are done stay as they are, so what they decide stays.        *)
LEMMA DoneNeedsStay ==
  ASSUME TypeInv, ResolvePass, NEW j \in DOMAIN ids, AllNeedsDone(NeedStatuses(ids, needs, st, j))
  PROVE  NeedStatuses(ids', needs', st', j) = NeedStatuses(ids, needs, st, j)
<1>1. ids' = ids /\ needs' = needs
  BY DEF ResolvePass, workflow
<1>2. \A k \in NeededBy(ids, needs, j) : k \in DOMAIN ids /\ st[k] \in Final
  BY DEF NeededBy, NeedStatuses, AllNeedsDone
<1>3. \A k \in NeededBy(ids, needs, j) : st'[k] = st[k]
  BY <1>2, PassDecides DEF Final
<1> QED BY <1>1, <1>3 DEF NeedStatuses

LEMMA ResolveNext == ASSUME TypeInv, ResolveInv, [Next]_vars PROVE ResolveInv'
<1>1. CASE ResolvePass
  <2>1. UNCHANGED <<ids, needs, always, before>> /\ passes' = passes + 1
    BY <1>1 DEF ResolvePass, workflow
  <2>2. \A j \in DOMAIN ids : \/ st'[j] = before[j]
                              \/ before[j] = "blocked" /\ st'[j] \in {"waiting", "skipped"}
    <3> SUFFICES ASSUME NEW j \in DOMAIN ids
                 PROVE  \/ st'[j] = before[j]
                        \/ before[j] = "blocked" /\ st'[j] \in {"waiting", "skipped"}
      OBVIOUS
    <3>1. CASE st'[j] = st[j]
      BY <3>1 DEF ResolveInv
    <3>2. CASE st'[j] # st[j]
      <4>1. st[j] = "blocked" /\ st'[j] \in {"waiting", "skipped"}
        BY <1>1, <3>2, PassDecides
      <4> QED BY <4>1 DEF ResolveInv
    <3> QED BY <3>1, <3>2
  <2>3. ASSUME NEW j \in DOMAIN ids, before[j] = "blocked", st'[j] # "blocked"
        PROVE  LET S == NeedStatuses(ids', needs', st', j)
               IN  AllNeedsDone(S) /\ st'[j] = IF Released(S, j \in always) THEN "waiting" ELSE "skipped"
    <3> DEFINE S == NeedStatuses(ids, needs, st, j)
    <3>1. AllNeedsDone(S) /\ st'[j] = IF Released(S, j \in always) THEN "waiting" ELSE "skipped"
      <4>1. CASE st[j] # "blocked"
        BY <1>1, <2>3, <4>1, PassDecides DEF ResolveInv
      <4>2. CASE st[j] = "blocked"
        BY <1>1, <2>3, <4>2, PassDecides
      <4> QED BY <4>1, <4>2
    <3>2. NeedStatuses(ids', needs', st', j) = S
      BY <1>1, <3>1, DoneNeedsStay
    <3> QED BY <3>1, <3>2
  <2>4. Cardinality(Blocked') + passes' <= Len(ids)
    <3>1. Cardinality(Blocked') < Cardinality(Blocked) /\ Cardinality(Blocked) + passes <= Len(ids)
      BY <1>1, PassDecides DEF ResolveInv
    <3>2. TypeInv'
      BY <1>1, TypeNext DEF Next
    <3>3. Cardinality(Blocked) \in Nat
      BY BlockedFinite
    <3>4. IsFiniteSet(Blocked') /\ Cardinality(Blocked') \in Nat
      <4>1. Blocked' \in SUBSET Blocked
        BY <1>1, <2>1, PassDecides DEF Blocked
      <4> QED BY <4>1, BlockedFinite, FS_Subset, FS_CardinalityType
    <3> QED BY <2>1, <3>1, <3>3, <3>4 DEF TypeInv
  <2> QED BY <2>1, <2>2, <2>3, <2>4 DEF ResolveInv
<1>2. CASE Take \/ Skip \/ ScanAgain \/ UNCHANGED vars
  <2>1. UNCHANGED <<ids, needs, always, before, st, passes>>
    BY <1>2 DEF Take, Skip, ScanAgain, vars, workflow, resolver
  <2>2. Blocked' = Blocked
    BY <2>1 DEF Blocked
  <2> QED BY <2>1, <2>2 DEF ResolveInv
<1> QED BY <1>1, <1>2 DEF Next

(* For every workflow, circular or not, and all statuses that may be read, *)
(* the resolver decides what can be decided, by the needs' final statuses. *)
THEOREM ResolvedConsistentlyHolds == Spec => []ResolvedConsistently
<1>1. Init => TypeInv /\ ResolveInv
  BY TypeInit, ResolveInit
<1>2. TypeInv /\ ResolveInv /\ [Next]_vars => TypeInv' /\ ResolveInv'
  BY TypeNext, ResolveNext
<1>3. TypeInv /\ ResolveInv => ResolvedConsistently
  <2> SUFFICES ASSUME TypeInv, ResolveInv, ResolveEnded, NEW j \in DOMAIN ids, before[j] = "blocked"
               PROVE  LET S == NeedStatuses(ids, needs, st, j)
                      IN  st[j] = IF ~AllNeedsDone(S) THEN "blocked"
                                  ELSE IF Released(S, j \in always) THEN "waiting" ELSE "skipped"
    BY DEF ResolvedConsistently
  <2>1. CASE st[j] # "blocked"
    BY <2>1 DEF ResolveInv
  <2>2. CASE st[j] = "blocked"
    <3>1. j \in Blocked
      BY <2>2 DEF Blocked
    <3>2. Cardinality(Blocked) # 0 /\ Cardinality(Blocked) \in Nat
      BY <3>1, BlockedFinite, FS_EmptySet
    <3>3. passes # Len(ids)
      <4>1. Cardinality(Blocked) + passes <= Len(ids) /\ passes \in Nat /\ Len(ids) \in Nat
        BY DEF ResolveInv, TypeInv
      <4> QED BY <3>2, <4>1
    <3>4. j \notin Decided(ids, needs, st)
      BY <3>3 DEF ResolveEnded
    <3> QED BY <2>2, <3>4 DEF Decided
  <2> QED BY <2>1, <2>2
<1> QED BY <1>1, <1>2, <1>3, PTL DEF Spec

-----------------------------------------------------------------------------
LEMMA RerunInit == ASSUME Init PROVE RerunInv
<1>1. CASE ResolveCalled
  <2>1. job = 0 /\ rerunIDs = {} /\ DOMAIN rerunJobs = {}
    BY <1>1 DEF ResolveCalled
  <2> QED BY <2>1 DEF RerunInv, Collected, Range, RerunOrder
<1>2. CASE RerunCalled
  <2>1. job \in DOMAIN ids /\ rerunIDs = {ids[job]} /\ at = 1
    BY <1>2 DEF RerunCalled
  <2>2. DOMAIN rerunJobs = {1} /\ rerunJobs[1] = job
    BY <1>2 DEF RerunCalled
  <2>3. Range(rerunJobs) = {job}
    BY <2>2 DEF Range
  <2>4. job \in AllDependents(job)
    BY <2>1 DEF AllDependents
  <2>5. 1 .. at - 1 = {} /\ 1 .. 1 - 1 = {}
    BY <2>1
  <2>6. RerunOrder
    BY <2>2, <2>5 DEF RerunOrder
  <2>7. rerunIDs = Collected
    BY <2>1, <2>3 DEF Collected
  <2> QED BY <2>1, <2>3, <2>4, <2>5, <2>6, <2>7 DEF RerunInv
<1> QED BY <1>1, <1>2 DEF Init

(* The list after the job at has been taken.                               *)
LEMMA Longer ==
  ASSUME TypeInv, Take
  PROVE  /\ at \in DOMAIN ids /\ Len(rerunJobs) \in Nat
         /\ DOMAIN rerunJobs = 1 .. Len(rerunJobs)
         /\ DOMAIN rerunJobs' = 1 .. Len(rerunJobs) + 1
         /\ \A i \in DOMAIN rerunJobs : rerunJobs'[i] = rerunJobs[i]
         /\ rerunJobs'[Len(rerunJobs) + 1] = at
         /\ Range(rerunJobs)' = Range(rerunJobs) \cup {at}
<1>1. at \in DOMAIN ids /\ rerunJobs \in Seq(DOMAIN ids) /\ rerunJobs' = Append(rerunJobs, at)
  BY DEF Take, TypeInv
<1>2. /\ Len(rerunJobs) \in Nat
      /\ DOMAIN rerunJobs = 1 .. Len(rerunJobs)
      /\ DOMAIN rerunJobs' = 1 .. Len(rerunJobs) + 1
      /\ \A i \in DOMAIN rerunJobs : rerunJobs'[i] = rerunJobs[i]
      /\ rerunJobs'[Len(rerunJobs) + 1] = at
  BY <1>1
<1>3. DOMAIN rerunJobs' = DOMAIN rerunJobs \cup {Len(rerunJobs) + 1}
  BY <1>2
<1>4. Range(rerunJobs)' = Range(rerunJobs) \cup {at}
  BY <1>2, <1>3 DEF Range
<1> QED BY <1>1, <1>2, <1>4

(* Whoever needs the id of a dependent is one.                             *)
LEMMA DependentsGrow ==
  ASSUME NEW j, NEW m \in AllDependents(j), NEW k \in DOMAIN ids, ids[m] \in needs[k]
  PROVE  k \in AllDependents(j)
<1> SUFFICES ASSUME NEW S \in SUBSET (DOMAIN ids), j \in S, Closed(S) PROVE k \in S
  BY DEF AllDependents
<1>1. m \in S
  BY DEF AllDependents
<1> QED BY <1>1 DEF Closed, DependOn

LEMMA TakeKeepsOrder ==
  ASSUME TypeInv, RerunInv, Take
  PROVE  RerunOrder'
<1>1. ids' = ids /\ needs' = needs /\ Depends(at)
  BY DEF Take, workflow
<1> DEFINE n == Len(rerunJobs)
<1> SUFFICES ASSUME NEW i \in 1 .. n + 1
             PROVE  /\ \A k \in 1 .. i - 1 : ids[rerunJobs'[k]] # ids[rerunJobs'[i]]
                    /\ i > 1 => \E k \in 1 .. i - 1 : ids[rerunJobs'[k]] \in needs[rerunJobs'[i]]
  BY <1>1, Longer DEF RerunOrder
<1>2. n \in Nat /\ \A k \in 1 .. n : k \in DOMAIN rerunJobs /\ rerunJobs'[k] = rerunJobs[k]
  BY Longer
<1>3. \A k \in 1 .. i - 1 : k \in 1 .. n
  BY <1>2
<1>4. CASE i \in 1 .. n
  BY <1>2, <1>3, <1>4 DEF RerunInv, RerunOrder
<1>5. CASE i = n + 1
  <2>1. rerunJobs'[i] = at
    BY <1>5, Longer
  <2>2. \A k \in 1 .. i - 1 : ids[rerunJobs[k]] \in rerunIDs
    BY <1>2, <1>3 DEF RerunInv, Collected, Range
  <2>3. \A k \in 1 .. i - 1 : ids[rerunJobs'[k]] # ids[at]
    BY <1>1, <1>2, <1>3, <2>2 DEF Depends
  <2>4. PICK id \in rerunIDs : id \in needs[at]
    BY <1>1 DEF Depends
  <2>5. PICK k \in DOMAIN rerunJobs : id = ids[rerunJobs[k]]
    BY <2>4 DEF RerunInv, Collected, Range
  <2>6. k \in 1 .. i - 1
    BY <1>2, <1>5, <2>5, Longer
  <2>7. ids[rerunJobs'[k]] \in needs[at]
    BY <1>2, <2>4, <2>5, Longer
  <2> QED BY <2>1, <2>3, <2>6, <2>7
<1> QED BY <1>2, <1>4, <1>5

LEMMA TakeKeepsRerun == ASSUME TypeInv, RerunInv, Take PROVE RerunInv'
<1>1. /\ UNCHANGED <<ids, needs, job>> /\ rerunIDs' = rerunIDs \cup {ids[at]} /\ found' = TRUE
      /\ Depends(at)
  BY DEF Take, workflow
<1>2. at \in DOMAIN ids /\ Range(rerunJobs)' = Range(rerunJobs) \cup {at}
  BY Longer
<1>3. rerunIDs' = Collected'
  BY <1>1, <1>2 DEF RerunInv, Collected
<1>4. at \in AllDependents(job)
  <2>1. PICK id \in rerunIDs : id \in needs[at]
    BY <1>1 DEF Depends
  <2>2. PICK m \in Range(rerunJobs) : id = ids[m]
    BY <2>1 DEF RerunInv, Collected
  <2> QED BY <1>2, <2>1, <2>2, DependentsGrow DEF RerunInv
<1>5. AllDependents(job)' = AllDependents(job)
  BY <1>1 DEF AllDependents, Closed, DependOn
<1>6. Range(rerunJobs)' \subseteq AllDependents(job)'
  BY <1>2, <1>4, <1>5 DEF RerunInv
<1>7. job' # 0 => job' \in Range(rerunJobs)'
  BY <1>1, <1>2 DEF RerunInv
<1> QED BY <1>1, <1>3, <1>6, <1>7, TakeKeepsOrder DEF RerunInv

LEMMA RerunNext == ASSUME TypeInv, RerunInv, [Next]_vars PROVE RerunInv'
<1>1. CASE Take
  BY <1>1, TakeKeepsRerun
<1>2. CASE Skip
  <2>1. UNCHANGED <<ids, needs, job, rerunJobs, rerunIDs, found>> /\ at' = at + 1 /\ ~Depends(at)
    BY <1>2 DEF Skip, workflow
  <2>2. \A j \in 1 .. at' - 1 : j \in 1 .. at - 1 \/ j = at
    BY <2>1 DEF TypeInv
  <2>3. ~found /\ job # 0 => \A j \in 1 .. at' - 1 : needs[j] \cap rerunIDs # {} => ids[j] \in rerunIDs
    BY <2>1, <2>2 DEF RerunInv, Depends
  <2>4. Collected' = Collected /\ Range(rerunJobs)' = Range(rerunJobs)
    BY <2>1 DEF Collected
  <2>5. AllDependents(job)' = AllDependents(job)
    BY <2>1 DEF AllDependents, Closed, DependOn
  <2>6. RerunOrder'
    BY <2>1 DEF RerunInv, RerunOrder
  <2> QED BY <2>1, <2>3, <2>4, <2>5, <2>6 DEF RerunInv
<1>3. CASE ScanAgain
  <2>1. UNCHANGED <<ids, needs, job, rerunJobs, rerunIDs>> /\ at' = 1
    BY <1>3 DEF ScanAgain, workflow
  <2>2. 1 .. at' - 1 = {}
    BY <2>1
  <2>3. Collected' = Collected /\ Range(rerunJobs)' = Range(rerunJobs)
    BY <2>1 DEF Collected
  <2>4. AllDependents(job)' = AllDependents(job)
    BY <2>1 DEF AllDependents, Closed, DependOn
  <2>5. RerunOrder'
    BY <2>1 DEF RerunInv, RerunOrder
  <2> QED BY <2>1, <2>2, <2>3, <2>4, <2>5 DEF RerunInv
<1>4. CASE ResolvePass \/ UNCHANGED vars
  <2>1. UNCHANGED <<ids, needs, job, rerunJobs, rerunIDs, at, found>>
    BY <1>4 DEF ResolvePass, vars, workflow, rerun
  <2>2. Collected' = Collected /\ Range(rerunJobs)' = Range(rerunJobs)
    BY <2>1 DEF Collected
  <2>3. AllDependents(job)' = AllDependents(job)
    BY <2>1 DEF AllDependents, Closed, DependOn
  <2>4. RerunOrder'
    BY <2>1 DEF RerunInv, RerunOrder
  <2> QED BY <2>1, <2>2, <2>3, <2>4 DEF RerunInv
<1> QED BY <1>1, <1>2, <1>3, <1>4 DEF Next

LEMMA RerunInductive == Spec => [](TypeInv /\ RerunInv)
<1>1. Init => TypeInv /\ RerunInv
  BY TypeInit, RerunInit
<1>2. TypeInv /\ RerunInv /\ [Next]_vars => TypeInv' /\ RerunInv'
  BY TypeNext, RerunNext
<1> QED BY <1>1, <1>2, PTL DEF Spec

(* No job is reset before one of the jobs it needs, whatever the order of  *)
(* the jobs in the workflow.                                               *)
THEOREM RerunOrderHolds == Spec => []RerunOrder
<1>1. RerunInv => RerunOrder
  BY DEF RerunInv
<1> QED BY <1>1, RerunInductive, PTL

(* A pass that has found nothing has come to the least set that is closed  *)
(* under "needs one of them": the ids of all dependents are collected.     *)
THEOREM RerunsEveryDependentIDHolds == Spec => []RerunsEveryDependentID
<1>1. TypeInv /\ RerunInv => RerunsEveryDependentID
  <2> SUFFICES ASSUME TypeInv, RerunInv, RerunEnded
               PROVE  {ids[k] : k \in AllDependents(job)} \subseteq Collected
    BY DEF RerunsEveryDependentID, RerunInv, Collected
  <2> DEFINE S == {k \in DOMAIN ids : ids[k] \in rerunIDs}
  <2>1. \A j \in DOMAIN ids : needs[j] \cap rerunIDs # {} => ids[j] \in rerunIDs
    <3>1. DOMAIN ids = 1 .. at - 1
      BY DEF RerunEnded, TypeInv
    <3> QED BY <3>1 DEF RerunInv, RerunEnded
  <2>2. Closed(S)
    BY <2>1 DEF Closed, DependOn
  <2>3. job \in S
    BY DEF RerunInv, RerunEnded, Collected, TypeInv
  <2>4. AllDependents(job) \subseteq S
    BY <2>2, <2>3 DEF AllDependents
  <2> QED BY <2>4 DEF RerunInv
<1> QED BY <1>1, RerunInductive, PTL

-----------------------------------------------------------------------------
(* The loop against the function of Workflow.                              *)

(* Induction over the naturals, for sets: a nonempty set has a least member*)
(* and a set that holds 0 and the successor of each of its members is all. *)
LEMMA NatMin ==
  ASSUME NEW T \in SUBSET Nat, T # {}
  PROVE  \E x \in T : \A y \in T : ~(y < x)
<1> DEFINE R == {p \in Nat \X Nat : p[1] < p[2]}
<1>1. IsWellFoundedOn(R, Nat)
  BY NatLessThanWellFounded DEF OpToRel
<1>2. \E x \in T : \A y \in T : ~ (<<y, x>> \in R)
  <2> HIDE DEF R
  <2> QED BY <1>1, WFMin
<1> QED BY <1>2

LEMMA NatInd ==
  ASSUME NEW S, 0 \in S, \A n \in Nat : n \in S => n + 1 \in S
  PROVE  Nat \subseteq S
<1> SUFFICES ASSUME Nat \ S # {} PROVE FALSE
  OBVIOUS
<1>1. PICK x \in Nat \ S : \A y \in Nat \ S : ~(y < x)
  BY NatMin
<1>2. x - 1 \in Nat /\ x - 1 < x
  BY <1>1
<1>3. x - 1 \in S
  BY <1>1, <1>2
<1> QED BY <1>1, <1>2, <1>3

(* Steps on a set can be iterated, which is what a recursive function over *)
(* an interval needs to exist.                                             *)
Iterable(N, A, start, step) ==
  \E f \in [0 .. N -> A] : f[0] = start /\ \A k \in 1 .. N : f[k] = step[k][f[k - 1]]

LEMMA Iterates ==
  ASSUME NEW N \in Nat, NEW A, NEW start \in A, NEW step \in [1 .. N -> [A -> A]]
  PROVE  Iterable(N, A, start, step)
<1> DEFINE S == {m \in Nat : m <= N => Iterable(m, A, start, step)}
<1>1. 0 \in S
  <2> DEFINE f == [k \in 0 .. 0 |-> start]
  <2>1. f \in [0 .. 0 -> A] /\ f[0] = start /\ \A k \in 1 .. 0 : f[k] = step[k][f[k - 1]]
    OBVIOUS
  <2>2. Iterable(0, A, start, step)
    BY <2>1 DEF Iterable
  <2> QED BY <2>2
<1>2. ASSUME NEW m \in Nat, m \in S PROVE m + 1 \in S
  <2> SUFFICES ASSUME m + 1 <= N PROVE Iterable(m + 1, A, start, step)
    OBVIOUS
  <2>1. PICK f \in [0 .. m -> A] : f[0] = start /\ \A k \in 1 .. m : f[k] = step[k][f[k - 1]]
    BY <1>2 DEF Iterable
  <2> DEFINE g == [k \in 0 .. m + 1 |-> IF k \in 0 .. m THEN f[k] ELSE step[m + 1][f[m]]]
  <2>2. m + 1 \in 1 .. N /\ m \in 0 .. m
    OBVIOUS
  <2>3. f[m] \in A /\ step[m + 1] \in [A -> A]
    BY <2>2
  <2>4. step[m + 1][f[m]] \in A
    BY <2>3
  <2>5. g \in [0 .. m + 1 -> A]
    BY <2>4
  <2>6. \A k \in 0 .. m : k \in 0 .. m + 1 /\ g[k] = f[k]
    OBVIOUS
  <2>7. g[0] = start
    BY <2>1, <2>6
  <2>8. ASSUME NEW k \in 1 .. m PROVE g[k] = step[k][g[k - 1]]
    <3>1. k \in 0 .. m /\ k - 1 \in 0 .. m
      OBVIOUS
    <3>2. g[k] = f[k] /\ g[k - 1] = f[k - 1]
      BY <2>6, <3>1
    <3> QED BY <2>1, <3>2
  <2>9. g[m + 1] = step[m + 1][g[m + 1 - 1]]
    <3>1. m + 1 - 1 = m /\ m + 1 \in 0 .. m + 1 /\ m + 1 \notin 0 .. m
      OBVIOUS
    <3>2. g[m + 1] = step[m + 1][f[m]]
      BY <3>1
    <3> QED BY <2>2, <2>6, <3>1, <3>2
  <2>10. \A k \in 1 .. m + 1 : k \in 1 .. m \/ k = m + 1
    OBVIOUS
  <2> HIDE DEF g
  <2>11. \A k \in 1 .. m + 1 : g[k] = step[k][g[k - 1]]
    BY <2>8, <2>9, <2>10
  <2> QED BY <2>5, <2>7, <2>11 DEF Iterable
<1> HIDE DEF S
<1>3. N \in S
  BY <1>1, <1>2, NatInd
<1> QED BY <1>3 DEF S

(* What the scan of the jobs I carries: the jobs and the ids collected.    *)
Pair(I) == [list : Seq(DOMAIN I), ids : SUBSET Range(I)]

LEMMA CollectType ==
  ASSUME NEW I, NEW N, NEW acc \in Pair(I), NEW j \in DOMAIN I
  PROVE  Collect(I, N, acc, j) \in Pair(I)
<1>1. Append(acc.list, j) \in Seq(DOMAIN I)
  BY DEF Pair
<1>2. acc.ids \cup {I[j]} \in SUBSET Range(I)
  BY DEF Pair, Range
<1> QED BY <1>1, <1>2 DEF Collect, Pair

(* The recursive definitions of Workflow hold of what they define.         *)
LEMMA ScanUnfolds ==
  ASSUME NEW I, NEW N, Len(I) \in Nat, DOMAIN I = 1 .. Len(I), NEW acc \in Pair(I)
  PROVE  /\ Scan(I, N, acc)[0] = acc
         /\ \A k \in 1 .. Len(I) : Scan(I, N, acc)[k] = Collect(I, N, Scan(I, N, acc)[k - 1], k)
         /\ \A k \in 0 .. Len(I) : Scan(I, N, acc)[k] \in Pair(I)
<1> DEFINE n == Len(I)
           step == [k \in 1 .. n |-> [a \in Pair(I) |-> Collect(I, N, a, k)]]
           body(f) == [k \in 0 .. n |-> IF k = 0 THEN acc ELSE Collect(I, N, f[k - 1], k)]
           s == Scan(I, N, acc)
<1>1. step \in [1 .. n -> [Pair(I) -> Pair(I)]]
  BY CollectType
<1>2. PICK f \in [0 .. n -> Pair(I)] : f[0] = acc /\ \A k \in 1 .. n : f[k] = step[k][f[k - 1]]
  <2> HIDE DEF step, n
  <2>1. n \in Nat
    BY DEF n
  <2>2. Iterable(n, Pair(I), acc, step)
    BY <1>1, <2>1, Iterates
  <2> QED BY <2>2 DEF Iterable
<1>3. \A k \in 1 .. n : f[k - 1] \in Pair(I) /\ f[k] = Collect(I, N, f[k - 1], k)
  <2> TAKE k \in 1 .. n
  <2>1. k - 1 \in 0 .. n
    OBVIOUS
  <2>2. f[k - 1] \in Pair(I)
    BY <2>1
  <2> QED BY <1>2, <2>2
<1>4. f = body(f)
  <2>1. \A k \in 0 .. n : k # 0 => k \in 1 .. n
    OBVIOUS
  <2>2. \A k \in 0 .. n : f[k] = IF k = 0 THEN acc ELSE Collect(I, N, f[k - 1], k)
    BY <1>2, <1>3, <2>1
  <2> QED BY <2>2
<1>5. s = body(s)
  <2>1. s = CHOOSE g : g = [k \in 0 .. n |-> IF k = 0 THEN acc ELSE Collect(I, N, g[k - 1], k)]
    BY DEF Scan
  <2> HIDE DEF s
  <2> QED BY <1>4, <2>1
<1> HIDE DEF s
<1>6. s[0] = acc
  BY <1>5
<1>7. \A k \in 1 .. n : s[k] = Collect(I, N, s[k - 1], k)
  <2> TAKE k \in 1 .. n
  <2>1. k \in 0 .. n /\ k # 0
    OBVIOUS
  <2> QED BY <1>5, <2>1
<1>8. \A k \in 0 .. n : s[k] \in Pair(I)
  <2> DEFINE T == {k \in Nat : k <= n => s[k] \in Pair(I)}
  <2>1. 0 \in T
    BY <1>6
  <2>2. ASSUME NEW k \in Nat, k \in T PROVE k + 1 \in T
    <3> SUFFICES ASSUME k + 1 <= n PROVE s[k + 1] \in Pair(I)
      OBVIOUS
    <3>1. k + 1 \in 1 .. n /\ k + 1 - 1 = k /\ k <= n
      OBVIOUS
    <3>2. s[k + 1] = Collect(I, N, s[k], k + 1)
      BY <1>7, <3>1
    <3>3. s[k] \in Pair(I)
      BY <2>2, <3>1
    <3> QED BY <3>1, <3>2, <3>3, CollectType
  <2> HIDE DEF T
  <2>3. Nat \subseteq T
    BY <2>1, <2>2, NatInd
  <2> QED BY <2>3 DEF T
<1> QED BY <1>6, <1>7, <1>8 DEF s

Start(I, j) == [list |-> <<j>>, ids |-> {I[j]}]

LEMMA PassesUnfold ==
  ASSUME NEW I, NEW N, Len(I) \in Nat, DOMAIN I = 1 .. Len(I), NEW j \in DOMAIN I
  PROVE  /\ Passes(I, N, j)[0] = Start(I, j)
         /\ \A p \in 1 .. Len(I) : Passes(I, N, j)[p] = Scan(I, N, Passes(I, N, j)[p - 1])[Len(I)]
         /\ \A p \in 0 .. Len(I) : Passes(I, N, j)[p] \in Pair(I)
<1> DEFINE n == Len(I)
           pass(a) == Scan(I, N, a)[n]
           step == [p \in 1 .. n |-> [a \in Pair(I) |-> pass(a)]]
           body(f) == [p \in 0 .. n |-> IF p = 0 THEN Start(I, j) ELSE pass(f[p - 1])]
           s == Passes(I, N, j)
<1>0. \A a \in Pair(I) : pass(a) \in Pair(I)
  <2>1. n \in 0 .. n
    OBVIOUS
  <2> QED BY <2>1, ScanUnfolds
<1>1. step \in [1 .. n -> [Pair(I) -> Pair(I)]]
  <2> HIDE DEF pass
  <2> QED BY <1>0
<1>9. Start(I, j) \in Pair(I)
  <2>1. <<j>> \in Seq(DOMAIN I) /\ {I[j]} \in SUBSET Range(I)
    BY DEF Range
  <2> QED BY <2>1 DEF Start, Pair
<1>2. PICK f \in [0 .. n -> Pair(I)] : f[0] = Start(I, j) /\ \A p \in 1 .. n : f[p] = step[p][f[p - 1]]
  <2> HIDE DEF step, n
  <2>1. n \in Nat
    BY DEF n
  <2>2. Iterable(n, Pair(I), Start(I, j), step)
    BY <1>1, <1>9, <2>1, Iterates
  <2> QED BY <2>2 DEF Iterable
<1>3. \A p \in 1 .. n : f[p] = pass(f[p - 1])
  <2> TAKE p \in 1 .. n
  <2>1. p - 1 \in 0 .. n
    OBVIOUS
  <2>2. f[p - 1] \in Pair(I)
    BY <2>1
  <2> HIDE DEF pass
  <2> QED BY <1>2, <2>2
<1>4. f = body(f)
  <2>1. \A p \in 0 .. n : p # 0 => p \in 1 .. n
    OBVIOUS
  <2> HIDE DEF pass
  <2>2. \A p \in 0 .. n : f[p] = IF p = 0 THEN Start(I, j) ELSE pass(f[p - 1])
    BY <1>2, <1>3, <2>1
  <2> QED BY <2>2
<1>5. s = body(s)
  <2>1. s = CHOOSE g : g = [p \in 0 .. n |-> IF p = 0 THEN Start(I, j) ELSE Scan(I, N, g[p - 1])[n]]
    BY DEF Passes, Start
  <2> HIDE DEF s
  <2> QED BY <1>4, <2>1
<1> HIDE DEF s, pass
<1>6. s[0] = Start(I, j)
  BY <1>5
<1>7. \A p \in 1 .. n : s[p] = pass(s[p - 1])
  <2> TAKE p \in 1 .. n
  <2>1. p \in 0 .. n /\ p # 0
    OBVIOUS
  <2> QED BY <1>5, <2>1
<1>8. \A p \in 0 .. n : s[p] \in Pair(I)
  <2> DEFINE T == {p \in Nat : p <= n => s[p] \in Pair(I)}
  <2>1. 0 \in T
    BY <1>6, <1>9
  <2>2. ASSUME NEW p \in Nat, p \in T PROVE p + 1 \in T
    <3> SUFFICES ASSUME p + 1 <= n PROVE s[p + 1] \in Pair(I)
      OBVIOUS
    <3>1. p + 1 \in 1 .. n /\ p + 1 - 1 = p /\ p <= n
      OBVIOUS
    <3>2. s[p + 1] = pass(s[p])
      BY <1>7, <3>1
    <3>3. s[p] \in Pair(I)
      BY <2>2, <3>1
    <3> QED BY <1>0, <3>2, <3>3
  <2> HIDE DEF T
  <2>3. Nat \subseteq T
    BY <2>1, <2>2, NatInd
  <2> QED BY <2>3 DEF T
<1> QED BY <1>6, <1>7, <1>8 DEF s, pass

Now == [list |-> rerunJobs, ids |-> rerunIDs]
Done(p) == Passes(ids, needs, job)[p]

(* The loop is in the pass that the function makes after p others: it has  *)
(* collected what the scan has before the job at.  Each pass but the last  *)
(* has found a job, so there are fewer passes than collected jobs.         *)
InPass(p) ==
  /\ Scan(ids, needs, Done(p))[at - 1] = Now
  /\ p < Len(rerunJobs)
  /\ found => p + 1 < Len(rerunJobs)
  /\ ~found => Done(p) = Now
LoopInv == job # 0 => \E p \in 0 .. Len(ids) : InPass(p)

(* No job is collected twice.                                              *)
LEMMA ListBounded ==
  ASSUME TypeInv, RerunOrder
  PROVE  Len(rerunJobs) \in Nat /\ Len(rerunJobs) <= Len(ids)
<1> DEFINE L == Len(rerunJobs)
           n == Len(ids)
<1>1. /\ L \in Nat /\ n \in Nat /\ DOMAIN ids = 1 .. n
      /\ rerunJobs \in [1 .. L -> 1 .. n] /\ DOMAIN rerunJobs = 1 .. L
  BY DEF TypeInv
<1>2. \A i, k \in 1 .. L : rerunJobs[i] = rerunJobs[k] => i = k
  <2> SUFFICES ASSUME NEW i \in 1 .. L, NEW k \in 1 .. L, rerunJobs[i] = rerunJobs[k], i # k
               PROVE  FALSE
    OBVIOUS
  <2>1. i < k \/ k < i
    OBVIOUS
  <2>2. CASE i < k
    <3>1. i \in 1 .. k - 1
      BY <2>2
    <3> QED BY <1>1, <3>1 DEF RerunOrder
  <2>3. CASE k < i
    <3>1. k \in 1 .. i - 1
      BY <2>3
    <3> QED BY <1>1, <3>1 DEF RerunOrder
  <2> QED BY <2>1, <2>2, <2>3
<1>3. /\ IsFiniteSet(1 .. L) /\ Cardinality(1 .. L) = IF 1 > L THEN 0 ELSE L - 1 + 1
      /\ IsFiniteSet(1 .. n) /\ Cardinality(1 .. n) = IF 1 > n THEN 0 ELSE n - 1 + 1
  <2>1. 1 \in Int /\ L \in Int /\ n \in Int
    BY <1>1
  <2> HIDE DEF L, n
  <2> QED BY <2>1, FS_Interval
<1>4. Cardinality(1 .. L) = L /\ Cardinality(1 .. n) = n
  BY <1>1, <1>3
<1>5. \A x, y \in 1 .. L : x # y => rerunJobs[x] # rerunJobs[y]
  BY <1>2
<1>6. ~(Cardinality(1 .. n) < Cardinality(1 .. L))
  <2> HIDE DEF L, n
  <2> QED BY <1>1, <1>3, <1>5, FS_PigeonHole
<1> QED BY <1>1, <1>4, <1>6

LEMMA DoneUnfolds ==
  ASSUME TypeInv, job # 0
  PROVE  /\ Done(0) = Start(ids, job)
         /\ \A p \in 1 .. Len(ids) : Done(p) = Scan(ids, needs, Done(p - 1))[Len(ids)]
         /\ \A p \in 0 .. Len(ids) : Done(p) \in Pair(ids)
<1>1. Len(ids) \in Nat /\ DOMAIN ids = 1 .. Len(ids) /\ job \in DOMAIN ids
  BY DEF TypeInv
<1> QED BY <1>1, PassesUnfold DEF Done

LEMMA LoopInit == ASSUME Init PROVE LoopInv
<1> SUFFICES ASSUME job # 0 PROVE InPass(0) /\ 0 \in 0 .. Len(ids)
  BY DEF LoopInv
<1>1. TypeInv
  BY TypeInit
<1>2. job \in DOMAIN ids /\ Len(ids) \in Nat /\ DOMAIN ids = 1 .. Len(ids)
  BY <1>1 DEF TypeInv
<1>3. rerunJobs = <<job>> /\ rerunIDs = {ids[job]} /\ at = 1 /\ found = FALSE
  BY DEF Init, ResolveCalled, RerunCalled
<1>4. Done(0) = Now /\ Done(0) \in Pair(ids)
  <2>1. 0 \in 0 .. Len(ids)
    BY <1>2
  <2>2. Done(0) = Start(ids, job) /\ Done(0) \in Pair(ids)
    BY <1>1, <2>1, DoneUnfolds
  <2> QED BY <1>3, <2>2 DEF Now, Start
<1>5. Scan(ids, needs, Done(0))[0] = Done(0)
  BY <1>2, <1>4, ScanUnfolds
<1>6. at - 1 = 0 /\ 0 < Len(rerunJobs)
  BY <1>3
<1> QED BY <1>2, <1>3, <1>4, <1>5, <1>6 DEF InPass

(* An iteration of the inner loop is a step of the scan.                   *)
LEMMA Looked ==
  ASSUME TypeInv, NEW p \in 0 .. Len(ids), InPass(p), job # 0, at \in DOMAIN ids
  PROVE  Scan(ids, needs, Done(p))[at] = Collect(ids, needs, Now, at)
<1>1. Len(ids) \in Nat /\ DOMAIN ids = 1 .. Len(ids) /\ job \in DOMAIN ids
  BY DEF TypeInv
<1>2. Done(p) \in Pair(ids)
  BY <1>1, PassesUnfold DEF Done
<1>3. \A k \in 1 .. Len(ids) :
        Scan(ids, needs, Done(p))[k] = Collect(ids, needs, Scan(ids, needs, Done(p))[k - 1], k)
  BY <1>1, <1>2, ScanUnfolds
<1>4. Scan(ids, needs, Done(p))[at] = Collect(ids, needs, Scan(ids, needs, Done(p))[at - 1], at)
  BY <1>1, <1>3
<1> QED BY <1>4 DEF InPass

LEMMA LoopNext == ASSUME TypeInv, RerunInv, LoopInv, [Next]_vars PROVE LoopInv'
<1> SUFFICES ASSUME job' # 0 PROVE \E p \in 0 .. Len(ids)' : InPass(p)'
  BY DEF LoopInv
<1>1. UNCHANGED <<ids, needs, job>>
  BY DEF Next, ResolvePass, Take, Skip, ScanAgain, vars, workflow, rerun
<1>2. PICK p \in 0 .. Len(ids) : InPass(p)
  BY <1>1 DEF LoopInv
<1>3. \A q : Done(q)' = Done(q)
  BY <1>1 DEF Done
<1>4. Len(ids) \in Nat /\ DOMAIN ids = 1 .. Len(ids) /\ job \in DOMAIN ids /\ at \in Int
  BY <1>1 DEF TypeInv
<1>5. CASE Take
  <2>1. at \in DOMAIN ids /\ Depends(at) /\ at' = at + 1 /\ found' = TRUE
    BY <1>5 DEF Take
  <2>2. Scan(ids, needs, Done(p))[at] = Collect(ids, needs, Now, at)
    BY <1>1, <1>2, <2>1, Looked
  <2>3. Collect(ids, needs, Now, at) = Now'
    BY <1>5, <2>1 DEF Collect, Now, Take, Depends
  <2>4. at' - 1 = at
    BY <1>4, <2>1
  <2>5. Scan(ids, needs, Done(p))'[at' - 1] = Now'
    BY <1>1, <1>3, <2>2, <2>3, <2>4
  <2>6. Len(rerunJobs') = Len(rerunJobs) + 1 /\ Len(rerunJobs) \in Nat
    BY <1>5 DEF Take, TypeInv
  <2>7. p < Len(rerunJobs') /\ p + 1 < Len(rerunJobs')
    BY <1>2, <1>4, <2>6 DEF InPass
  <2> QED BY <1>1, <2>1, <2>5, <2>7 DEF InPass
<1>6. CASE Skip
  <2>1. at \in DOMAIN ids /\ ~Depends(at) /\ at' = at + 1 /\ UNCHANGED <<rerunJobs, rerunIDs, found>>
    BY <1>6 DEF Skip
  <2>2. Scan(ids, needs, Done(p))[at] = Collect(ids, needs, Now, at)
    BY <1>1, <1>2, <2>1, Looked
  <2>3. Collect(ids, needs, Now, at) = Now /\ Now' = Now
    BY <2>1 DEF Collect, Now, Depends
  <2>4. at' - 1 = at
    BY <1>4, <2>1
  <2>5. Scan(ids, needs, Done(p))'[at' - 1] = Now'
    BY <1>1, <1>3, <2>2, <2>3, <2>4
  <2> QED BY <1>1, <1>2, <1>3, <2>1, <2>3, <2>5 DEF InPass
<1>7. CASE ScanAgain
  <2>1. at > Len(ids) /\ found /\ at' = 1 /\ found' = FALSE /\ UNCHANGED <<rerunJobs, rerunIDs>>
    BY <1>7 DEF ScanAgain
  <2>2. at - 1 = Len(ids)
    BY <1>4, <2>1 DEF TypeInv
  <2>3. Scan(ids, needs, Done(p))[Len(ids)] = Now
    BY <1>2, <2>2 DEF InPass
  <2>4. p + 1 < Len(rerunJobs) /\ Len(rerunJobs) <= Len(ids) /\ Len(rerunJobs) \in Nat
    BY <1>2, <2>1, ListBounded DEF InPass, RerunInv
  <2>5. p + 1 \in 1 .. Len(ids) /\ p + 1 \in 0 .. Len(ids) /\ p + 1 - 1 = p
    BY <1>4, <2>4
  <2>6. Done(p + 1) = Now /\ Done(p + 1) \in Pair(ids)
    BY <1>1, <2>3, <2>5, DoneUnfolds
  <2>7. Scan(ids, needs, Done(p + 1))[0] = Done(p + 1)
    BY <1>4, <2>6, ScanUnfolds
  <2>8. Now' = Now /\ at' - 1 = 0
    BY <2>1 DEF Now
  <2>9. InPass(p + 1)'
    BY <1>1, <1>3, <2>1, <2>4, <2>6, <2>7, <2>8 DEF InPass
  <2> QED BY <1>1, <2>5, <2>9
<1>8. CASE ResolvePass \/ UNCHANGED vars
  <2>1. UNCHANGED <<rerunJobs, rerunIDs, at, found>>
    BY <1>8 DEF ResolvePass, vars, rerun
  <2> QED BY <1>1, <1>2, <1>3, <2>1 DEF InPass, Now
<1> QED BY <1>5, <1>6, <1>7, <1>8 DEF Next

(* A pass that finds nothing is followed by passes that find nothing.      *)
LEMMA Settled ==
  ASSUME TypeInv, LoopInv, RerunEnded
  PROVE  Done(Len(ids)) = Now
<1>1. Len(ids) \in Nat /\ DOMAIN ids = 1 .. Len(ids) /\ job # 0 /\ at - 1 = Len(ids)
  BY DEF TypeInv, RerunEnded
<1>2. PICK p \in 0 .. Len(ids) : InPass(p)
  BY DEF LoopInv, RerunEnded
<1>3. Done(p) = Now /\ Scan(ids, needs, Now)[Len(ids)] = Now
  BY <1>1, <1>2 DEF InPass, RerunEnded
<1> DEFINE T == {k \in Nat : p <= k /\ k <= Len(ids) => Done(k) = Now}
<1>4. 0 \in T
  BY <1>3
<1>5. ASSUME NEW k \in Nat, k \in T PROVE k + 1 \in T
  <2> SUFFICES ASSUME p <= k + 1, k + 1 <= Len(ids) PROVE Done(k + 1) = Now
    OBVIOUS
  <2>1. CASE p = k + 1
    BY <1>3, <2>1
  <2>2. CASE p <= k
    <3>1. k + 1 \in 1 .. Len(ids) /\ k + 1 - 1 = k /\ Done(k) = Now
      BY <1>1, <1>5, <2>2
    <3>2. Done(k + 1) = Scan(ids, needs, Done(k))[Len(ids)]
      BY <1>1, <3>1, DoneUnfolds
    <3> QED BY <1>3, <3>1, <3>2
  <2> QED BY <2>1, <2>2
<1> HIDE DEF T
<1>6. Nat \subseteq T
  BY <1>4, <1>5, NatInd
<1> QED BY <1>1, <1>6 DEF T

(* The loop of GetAllRerunJobs returns what the function that the engine   *)
(* uses for Rerun does: it makes fewer passes than there are jobs, and     *)
(* those the function makes after it has ended find nothing.               *)
THEOREM RerunLoopAgreesHolds == Spec => []RerunLoopAgrees
<1>1. Init => TypeInv /\ RerunInv /\ LoopInv
  BY TypeInit, RerunInit, LoopInit
<1>2. TypeInv /\ RerunInv /\ LoopInv /\ [Next]_vars => TypeInv' /\ RerunInv' /\ LoopInv'
  BY TypeNext, RerunNext, LoopNext
<1>3. TypeInv /\ LoopInv => RerunLoopAgrees
  BY Settled DEF RerunLoopAgrees, GetAllRerunJobs, Done, Now
<1> QED BY <1>1, <1>2, <1>3, PTL DEF Spec
=============================================================================
