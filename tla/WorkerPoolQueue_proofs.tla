----------------------- MODULE WorkerPoolQueue_proofs -----------------------
(* Theorems about WorkerPoolQueue for any number of workers, any capacity, *)
(* any batch length and any worker maxima: the types, the count of the     *)
(* workers, what a shutdown leaves behind, and that the pool keeps the     *)
(* promise of ReadyQueue.                                                  *)
EXTENDS WorkerPoolQueue, SequenceTheorems, FiniteSetTheorems, TLAPS

Row == [pc : {"none", "select", "handle", "requeue", "base push"}, items : Seq(Item)]
Holding == {"handle", "requeue", "base push"}

-----------------------------------------------------------------------------
(*                    Sequences, and the queue's helpers                   *)

LEMMA EmptyRange == Range(<<>>) = {}
BY DEF Range

LEMMA OneRange == ASSUME NEW i \in Item PROVE <<i>> \in Seq(Item) /\ Range(<<i>>) = {i}
BY DEF Range

LEMMA NonemptyRange ==
  ASSUME NEW s \in Seq(Item), s # <<>>
  PROVE  Range(s) # {} /\ Range(s) \subseteq Item
<1>1. 1 \in 1..Len(s) /\ Len(s) \in Nat
  BY EmptySeq
<1>2. Range(s) = {s[i] : i \in 1..Len(s)}
  BY RangeEquality
<1>3. Range(s) \subseteq Item
  BY RangeOfSeq
<1> QED BY <1>1, <1>2, <1>3

LEMMA SplitRange ==
  ASSUME NEW s \in Seq(Item), s # <<>>
  PROVE  /\ Head(s) \in Item /\ Tail(s) \in Seq(Item) /\ Len(Tail(s)) = Len(s) - 1
         /\ Range(s) = {Head(s)} \cup Range(Tail(s))
<1>1. /\ Head(s) \in Item /\ Tail(s) \in Seq(Item) /\ Len(Tail(s)) = Len(s) - 1
      /\ \A i \in 1..Len(Tail(s)) : Tail(s)[i] = s[i + 1]
  BY HeadTailProperties
<1>2. Len(s) \in Nat /\ 1 <= Len(s)
  BY EmptySeq
<1>3. Head(s) = s[1]
  OBVIOUS
<1>4. Range(s) = {s[i] : i \in 1..Len(s)} /\ Range(Tail(s)) = {Tail(s)[i] : i \in 1..Len(Tail(s))}
  BY <1>1, RangeEquality
<1>5. Range(s) \subseteq {Head(s)} \cup Range(Tail(s))
  <2> SUFFICES ASSUME NEW i \in 1..Len(s), i # 1
               PROVE  \E k \in 1..Len(Tail(s)) : Tail(s)[k] = s[i]
    BY <1>3, <1>4
  <2>1. i - 1 \in 1..Len(Tail(s)) /\ (i - 1) + 1 = i
    BY <1>1, <1>2
  <2> QED BY <2>1, <1>1
<1>6. {Head(s)} \cup Range(Tail(s)) \subseteq Range(s)
  <2>1. \A i \in 1..Len(Tail(s)) : i + 1 \in 1..Len(s)
    BY <1>1, <1>2
  <2> QED BY <1>1, <1>2, <1>3, <1>4, <2>1
<1> QED BY <1>1, <1>5, <1>6

LEMMA PushItemAdds ==
  ASSUME base \in Seq(Item), NEW i \in Item, PushItem(i)
  PROVE  /\ base' \in Seq(Item) /\ Range(base') = Range(base) \cup {i}
         /\ Len(base) \in Nat /\ Len(base') \in Nat /\ Len(base') <= Len(base) + 1
<1>1. CASE i \in Range(base)
  BY <1>1, LenProperties DEF PushItem
<1>2. CASE i \notin Range(base)
  <2>1. base' = Append(base, i)
    BY <1>2 DEF PushItem
  <2>2. base' \in Seq(Item) /\ Len(base') = Len(base) + 1
    BY <2>1, AppendProperties
  <2>3. base' = base \o <<i>>
    BY <2>1, AppendIsConcat
  <2>4. <<i>> \in Seq(Item) /\ Range(<<i>>) = {i}
    BY OneRange
  <2>5. Range(base \o <<i>>) = Range(base) \cup Range(<<i>>)
    BY <2>4, RangeConcatenation
  <2>6. Len(base) \in Nat
    BY LenProperties
  <2> QED BY <2>2, <2>3, <2>4, <2>5, <2>6
<1> QED BY <1>1, <1>2

LEMMA PartsType ==
  ASSUME NEW s \in Seq(Item), NEW p \in Parts(s)
  PROVE  p \in Seq(Item) /\ Range(p) \subseteq Range(s)
<1>1. PICK n \in 0..Len(s) : \E f \in [1..n -> DOMAIN s] : p = Chosen(s, f)
  BY DEF Parts
<1>a. PICK f \in [1..n -> DOMAIN s] : p = Chosen(s, f)
  BY <1>1
<1>2. n \in Nat /\ DOMAIN s = 1..Len(s) /\ \A k \in DOMAIN s : s[k] \in Item
  BY LenProperties, ElementOfSeq
<1>3. p \in [1..n -> Item] /\ DOMAIN p = 1..n /\ \A k \in 1..n : p[k] = s[f[k]]
  BY <1>a, <1>2 DEF Chosen
<1>4. p \in Seq(Item)
  BY <1>2, <1>3, SeqDef
<1> QED BY <1>a, <1>2, <1>3 DEF Range, Chosen

LEMMA BasePushAdds ==
  ASSUME TypeOK, NEW i \in Item, BasePush(i)
  PROVE  /\ base' \in Seq(Item) /\ Len(base') <= Length
         /\ lost' \subseteq Item
         /\ \/ Range(base') = Range(base) \cup {i} /\ lost' = lost
            \/ base' = base /\ lost' = lost \cup {i}
<1>0. base \in Seq(Item) /\ Len(base) <= Length /\ lost \subseteq Item
  BY DEF TypeOK
<1>1. CASE Room /\ PushItem(i) /\ lost' = lost
  <2>1. /\ base' \in Seq(Item) /\ Range(base') = Range(base) \cup {i}
        /\ Len(base) \in Nat /\ Len(base') \in Nat /\ Len(base') <= Len(base) + 1
    BY <1>0, <1>1, PushItemAdds
  <2>2. Len(base') <= Length
    BY <1>1, <2>1, SizeAssumption DEF Room
  <2> QED BY <1>0, <1>1, <2>1, <2>2
<1>2. CASE base' = base /\ lost' = lost \cup ({i} \ Range(base))
  <2>1. CASE i \in Range(base)
    BY <1>0, <1>2, <2>1
  <2>2. CASE i \notin Range(base)
    BY <1>0, <1>2, <2>2
  <2> QED BY <2>1, <2>2
<1> QED BY <1>1, <1>2 DEF BasePush

-----------------------------------------------------------------------------
(*                          The inductive invariant                        *)

(* The popper holds an item only while it offers it, an executor only      *)
(* while it handles or requeues, and it stands in the loop empty-handed.   *)
PopperHolds == popper.pc = "send" <=> popper.items # <<>>
HandsHold == \A x \in Executor : exec[x].pc \in Holding <=> exec[x].items # <<>>

(* doRun holds a batch only where it dispatches one, collects in its buffer*)
(* nowhere else than in its loop, and calls the handler only in a flush.   *)
HeldWhere ==
  /\ main \in {"send", "flush send"} => held # <<>> /\ buffer = <<>>
  /\ main \in {"loop", "dispatch", "flush dispatch", "flush stop", "flush wait", "flush", "done", "timeout"}
       => held = <<>>
DoRunHandles == exec[DoRun] # Absent => main \in {"flush stop", "flush"}

(* A shutdown follows the end of the context, with an empty buffer and,    *)
(* once it pushes back, without the popper.                                *)
ShutdownWhere ==
  /\ main \in {"drain", "push back", "done", "timeout"} => ~ctxRun /\ buffer = <<>>
  /\ main \in {"push back", "done", "timeout"} => popper.pc = "closed"
  /\ main = "done" => Alive = {}

(* The workers are stopped by a flush or by the end of the queue only.     *)
WorkersStopWhere == ~ctxWorker => main \in {"flush wait", "flush"}

Inv ==
  /\ TypeOK /\ PopperHolds /\ HandsHold /\ HeldWhere /\ DoRunHandles
  /\ ShutdownWhere /\ WorkersStopWhere /\ WorkersCounted

-----------------------------------------------------------------------------
(*                                Executors                                *)

LEMMA RowTypes ==
  /\ Absent \in Row /\ Waiting \in Row /\ \A b \in Seq(Item) : Handling(b) \in Row
  /\ \A pc \in Holding, s \in Seq(Item) : [pc |-> pc, items |-> s] \in Row
<1>1. <<>> \in Seq(Item)
  BY EmptySeq
<1> QED BY <1>1 DEF Row, Absent, Waiting, Handling, Holding

(* One executor changes its row: to an empty one, or to one with items.    *)
Sets(x, row) == exec' = [exec EXCEPT ![x] = row]

LEMMA SetsKeeps ==
  ASSUME exec \in [Executor -> Row], HandsHold, NEW x \in Executor, NEW row \in Row,
         Sets(x, row), row.pc \in Holding <=> row.items # <<>>
  PROVE  /\ exec' \in [Executor -> Row] /\ HandsHold'
         /\ exec'[x] = row /\ \A y \in Executor : y # x => exec'[y] = exec[y]
<1>1. exec' \in [Executor -> Row] /\ exec'[x] = row /\ \A y \in Executor : y # x => exec'[y] = exec[y]
  BY DEF Sets
<1>2. HandsHold'
  BY <1>1 DEF HandsHold
<1> QED BY <1>1, <1>2

(* What Handled leaves to an executor.                                     *)
After(x, rest, pc) ==
  IF rest # <<>> THEN [pc |-> pc, items |-> rest] ELSE IF x = DoRun THEN Absent ELSE Waiting

LEMMA AfterType ==
  ASSUME NEW x \in Executor, NEW rest \in Seq(Item), NEW pc \in Holding
  PROVE  /\ After(x, rest, pc) \in Row
         /\ After(x, rest, pc).pc \in Holding <=> After(x, rest, pc).items # <<>>
         /\ After(x, rest, pc).items = rest
         /\ rest # <<>> => After(x, rest, pc).pc = pc
         /\ x # DoRun => After(x, rest, pc).pc # "none"
         /\ rest = <<>> => After(x, rest, pc) = IF x = DoRun THEN Absent ELSE Waiting
BY RowTypes DEF After, Absent, Waiting, Holding

LEMMA HandledSets ==
  ASSUME NEW x, NEW rest, NEW pc, Handled(x, rest, pc)
  PROVE  Sets(x, After(x, rest, pc))
BY DEF Handled, Sets, After

(* Which row an action leaves to an executor.                              *)
LEMMA ExecutorSteps ==
  ASSUME TypeOK, HandsHold, PopperHolds, HeldWhere
  PROVE  /\ \A w \in Worker : DispatchToWaiting(w) => Sets(w, Handling(buffer)) /\ buffer # <<>>
         /\ \A w \in Worker : SendToWorker(w) => Sets(w, Handling(held)) /\ held # <<>>
         /\ SendFlushed => Sets(DoRun, Handling(held)) /\ held # <<>>
         /\ FlushItem => Sets(DoRun, Handling(popper.items)) /\ popper.items # <<>>
         /\ \A w \in Worker : WorkerEnds(w) => Sets(w, Absent)
BY DEF DispatchToWaiting, SendToWorker, SendFlushed, FlushItem, WorkerEnds, Sets, HeldWhere, PopperHolds, Received

(* A step of doWorkerHandle: what the executor holds next, and where the   *)
(* items that it no longer holds are.                                      *)
Leaves(x, row) ==
  /\ row \in Row /\ Sets(x, row)
  /\ row.pc \in Holding <=> row.items # <<>>
  /\ x # DoRun => row.pc # "none"
  /\ row.items = <<>> => row = IF x = DoRun THEN Absent ELSE Waiting

LEMMA HandlerReturnsLeaves ==
  ASSUME TypeOK, HandsHold, NEW x \in Executor, HandlerReturns(x)
  PROVE  \E row \in Row : /\ Leaves(x, row)
                          /\ Range(row.items) \subseteq Range(exec[x].items)
                          /\ row.pc # "handle" /\ row.pc # "base push"
<1>1. exec[x].items \in Seq(Item) /\ "requeue" \in Holding
  BY DEF TypeOK, Holding
<1>2. PICK p \in Parts(exec[x].items) : Handled(x, p, "requeue")
  BY DEF HandlerReturns
<1>3. p \in Seq(Item) /\ Range(p) \subseteq Range(exec[x].items)
  BY <1>1, <1>2, PartsType
<1> DEFINE row == After(x, p, "requeue")
<1>4. row \in Row /\ row.items = p /\ Sets(x, row)
  BY <1>1, <1>2, <1>3, AfterType, HandledSets
<1>5. row.pc # "handle" /\ row.pc # "base push"
  BY DEF After, Absent, Waiting
<1>6. Leaves(x, row)
  BY <1>1, <1>3, <1>4, AfterType DEF Leaves
<1> QED BY <1>3, <1>4, <1>5, <1>6

LEMMA RequeueLeaves ==
  ASSUME TypeOK, HandsHold, NEW x \in Executor, Requeue(x)
  PROVE  /\ base' \in Seq(Item) /\ Len(base') <= Length
         /\ \E row \in Row :
              /\ Leaves(x, row)
              /\ Range(base') \cup Range(row.items) = Range(base) \cup Range(exec[x].items)
              /\ row.pc # "handle"
<1> DEFINE s == exec[x].items
<1>1. /\ exec[x] \in Row /\ s \in Seq(Item) /\ s # <<>> /\ exec[x].pc = "requeue"
      /\ "requeue" \in Holding /\ "base push" \in Holding
  BY DEF TypeOK, Holding, Row, HandsHold, Requeue
<1>c. Head(s) \in Item /\ Tail(s) \in Seq(Item) /\ Range(s) = {Head(s)} \cup Range(Tail(s))
  BY <1>1, SplitRange
<1>2. PICK i \in Item, t \in Seq(Item) :
        i = Head(s) /\ t = Tail(s) /\ Range(s) = {i} \cup Range(t)
  BY <1>c
<1>3. base \in Seq(Item) /\ Len(base) <= Length
  BY DEF TypeOK
<1>4. CASE ctxRun /\ Room /\ PushItem(i) /\ Handled(x, t, "requeue")
  <2> DEFINE row == After(x, t, "requeue")
  <2>0. t \in Seq(Item) /\ "requeue" \in Holding
    BY <1>1, <1>2
  <2>1. /\ row \in Row /\ row.items = t
        /\ row.pc \in Holding <=> row.items # <<>>
        /\ x # DoRun => row.pc # "none"
        /\ t = <<>> => row = IF x = DoRun THEN Absent ELSE Waiting
    BY <2>0, AfterType
  <2>a. Sets(x, row)
    BY <1>4, HandledSets
  <2>2. Leaves(x, row)
    BY <2>1, <2>a DEF Leaves
  <2>3. row.pc # "handle"
    BY DEF After, Absent, Waiting
  <2>4. /\ base' \in Seq(Item) /\ Range(base') = Range(base) \cup {i}
        /\ Len(base) \in Nat /\ Len(base') \in Nat /\ Len(base') <= Len(base) + 1
    BY <1>2, <1>3, <1>4, PushItemAdds
  <2>5. Len(base') <= Length
    BY <1>4, <2>4, SizeAssumption DEF Room
  <2> HIDE DEF s, row
  <2> QED BY <1>2, <2>1, <2>2, <2>3, <2>4, <2>5 DEF s
<1>5. CASE exec' = [exec EXCEPT ![x].pc = "base push"] /\ base' = base
  <2> DEFINE row == [exec[x] EXCEPT !.pc = "base push"]
  <2>1. row \in Row /\ row.pc = "base push" /\ row.items = s
    BY <1>1 DEF Row
  <2>2. Sets(x, row)
    BY <1>5 DEF Sets
  <2>3. Leaves(x, row)
    BY <1>1, <2>1, <2>2 DEF Leaves
  <2> QED BY <1>3, <1>5, <2>1, <2>3
<1> QED BY <1>2, <1>4, <1>5 DEF Requeue

LEMMA RequeueForShutdownLeaves ==
  ASSUME TypeOK, HandsHold, NEW x \in Executor, RequeueForShutdown(x)
  PROVE  /\ base' \in Seq(Item) /\ Len(base') <= Length /\ lost' \subseteq Item
         /\ \E row \in Row :
              /\ Leaves(x, row) /\ row.pc # "handle"
              /\ \/ /\ Range(base') \cup Range(row.items) = Range(base) \cup Range(exec[x].items)
                    /\ lost' = lost
                 \/ \E i \in Item : /\ Range(exec[x].items) = {i} \cup Range(row.items)
                                    /\ base' = base /\ lost' = lost \cup {i}
<1> DEFINE s == exec[x].items
<1>1. /\ exec[x] \in Row /\ s \in Seq(Item) /\ s # <<>> /\ "requeue" \in Holding
  BY DEF TypeOK, Holding, Row, HandsHold, RequeueForShutdown
<1>c. Head(s) \in Item /\ Tail(s) \in Seq(Item) /\ Range(s) = {Head(s)} \cup Range(Tail(s))
  BY <1>1, SplitRange
<1>2. PICK i \in Item, t \in Seq(Item) :
        i = Head(s) /\ t = Tail(s) /\ Range(s) = {i} \cup Range(t)
  BY <1>c
<1>3. BasePush(i) /\ Handled(x, t, "requeue")
  BY <1>2 DEF RequeueForShutdown
<1> DEFINE row == After(x, t, "requeue")
<1>a. t \in Seq(Item) /\ "requeue" \in Holding
  BY <1>1, <1>2
<1>4. /\ row \in Row /\ row.items = t
      /\ row.pc \in Holding <=> row.items # <<>>
      /\ x # DoRun => row.pc # "none"
      /\ t = <<>> => row = IF x = DoRun THEN Absent ELSE Waiting
  BY <1>a, AfterType
<1>b. Sets(x, row)
  BY <1>3, HandledSets
<1>5. Leaves(x, row)
  BY <1>4, <1>b DEF Leaves
<1>6. row.pc # "handle"
  BY DEF After, Absent, Waiting
<1>7. /\ base' \in Seq(Item) /\ Len(base') <= Length /\ lost' \subseteq Item
      /\ \/ Range(base') = Range(base) \cup {i} /\ lost' = lost
         \/ base' = base /\ lost' = lost \cup {i}
  BY <1>2, <1>3, BasePushAdds
<1> HIDE DEF s, row
<1> QED BY <1>2, <1>4, <1>5, <1>6, <1>7 DEF s

LEMMA HandleLeaves ==
  ASSUME TypeOK, HandsHold, NEW x \in Executor, HandleStep(x)
  PROVE  \E row \in Row : Leaves(x, row)
<1>1. CASE HandlerReturns(x)
  BY <1>1, HandlerReturnsLeaves
<1>2. CASE Requeue(x)
  BY <1>2, RequeueLeaves
<1>3. CASE RequeueForShutdown(x)
  BY <1>3, RequeueForShutdownLeaves
<1> QED BY <1>1, <1>2, <1>3 DEF HandleStep

(* Every step leaves rows of that form.                                    *)
LEMMA RowsKept ==
  ASSUME TypeOK, HandsHold, PopperHolds, HeldWhere, Next
  PROVE  exec \in [Executor -> Row] /\ exec' \in [Executor -> Row] /\ HandsHold'
<1>0. /\ exec \in [Executor -> Row] /\ popper.items \in Seq(Item)
      /\ buffer \in Seq(Item) /\ held \in Seq(Item)
  <2>1. popper.items \in Seq(Item)
      <3>1. popper.items \in {<<>>} \cup {<<i>> : i \in Item}
      BY DEF TypeOK
    <3>2. <<>> \in Seq(Item) /\ \A i \in Item : <<i>> \in Seq(Item)
      BY EmptySeq, OneRange
    <3> QED BY <3>1, <3>2
  <2> QED BY <2>1 DEF TypeOK, Row
<1>1. ASSUME NEW x \in Executor, NEW row \in Row, Sets(x, row), row.pc \in Holding <=> row.items # <<>>
      PROVE  exec' \in [Executor -> Row] /\ HandsHold'
  BY <1>0, <1>1, SetsKeeps
<1>2. CASE UNCHANGED exec
  BY <1>0, <1>2 DEF HandsHold
<1>3. ASSUME NEW x \in Executor, NEW b \in Seq(Item), b # <<>>, Sets(x, Handling(b))
      PROVE  exec' \in [Executor -> Row] /\ HandsHold'
  <2>1. Handling(b) \in Row /\ (Handling(b).pc \in Holding <=> Handling(b).items # <<>>)
    BY <1>3, RowTypes DEF Handling, Holding
  <2> QED BY <1>1, <1>3, <2>1
<1>4. ASSUME NEW x \in Executor, Sets(x, Absent) \/ Sets(x, Waiting)
      PROVE  exec' \in [Executor -> Row] /\ HandsHold'
  <2>1. Absent \in Row /\ Waiting \in Row
    BY RowTypes
  <2>2. (Absent.pc \in Holding <=> Absent.items # <<>>) /\ (Waiting.pc \in Holding <=> Waiting.items # <<>>)
    BY DEF Absent, Waiting, Holding
  <2>3. CASE Sets(x, Absent)
    BY <1>1, <2>1, <2>2, <2>3
  <2>4. CASE Sets(x, Waiting)
    BY <1>1, <2>1, <2>2, <2>4
  <2> QED BY <1>4, <2>3, <2>4
<1>5. ASSUME NEW w \in Worker, DispatchToWaiting(w) \/ SendToWorker(w) \/ WorkerEnds(w)
      PROVE  exec' \in [Executor -> Row] /\ HandsHold'
  <2> w \in Executor
    BY DEF Executor
  <2> QED BY <1>0, <1>3, <1>4, <1>5, ExecutorSteps
<1>6. CASE SendFlushed \/ FlushItem
  <2> DoRun \in Executor
    BY DEF Executor
  <2> QED BY <1>0, <1>3, <1>6, ExecutorSteps
<1>7. CASE DispatchFull
  <2>1. UNCHANGED exec \/ \E w \in Worker : Sets(w, Waiting)
    BY <1>7 DEF DispatchFull, Sets
  <2>2. \A w \in Worker : w \in Executor
    BY DEF Executor
  <2>3. CASE UNCHANGED exec
    BY <1>2, <2>3
  <2>4. CASE \E w \in Worker : Sets(w, Waiting)
    <3>1. PICK w \in Worker : Sets(w, Waiting)
      BY <2>4
    <3> QED BY <1>0, <1>4, <2>2, <3>1
  <2> QED BY <2>1, <2>3, <2>4
<1>8. ASSUME NEW x \in Executor, HandleStep(x)
      PROVE  exec' \in [Executor -> Row] /\ HandsHold'
  <2>1. \E row \in Row : Leaves(x, row)
    BY <1>8, HandleLeaves
  <2> QED BY <1>1, <2>1 DEF Leaves
<1>9. CASE \/ (\E i \in Item : Push(i)) \/ (\E n \in MaxNums : SetWorkerMaxNumber(n)) \/ Cancel \/ PopperStep
           \/ ReceiveItem \/ TimerFires \/ FlushRequested \/ DispatchNothing \/ SendStopped
           \/ FlushStop \/ FlushWait \/ FlushEnd \/ ShutdownStep
  BY <1>2, <1>9 DEF Push, SetWorkerMaxNumber, Cancel, PopperStep, PopItem, PopperEnds, ReceiveItem, TimerFires,
                    FlushRequested, DispatchNothing, SendStopped, FlushStop, FlushWait, FlushEnd,
                    ShutdownStep, Return, DrainItem, DrainEnd, PushBack, ShutdownDone
<1> QED BY <1>0, <1>5, <1>6, <1>7, <1>8, <1>9
        DEF Next, MainStep, DispatchStep, FlushStep, FlushReceived, WorkerStep, WorkerStops, WorkerIdles, Executor

(* The shapes of everything else.                                          *)
LEMMA BaseKept ==
  ASSUME TypeOK, HandsHold, Next
  PROVE  base' \in Seq(Item) /\ Len(base') <= Length /\ lost' \subseteq Item
<1>0. base \in Seq(Item) /\ Len(base) \in Nat /\ Len(base) <= Length /\ lost \subseteq Item /\ held \in Seq(Item)
  BY LenProperties DEF TypeOK
<1>1. CASE UNCHANGED <<base, lost>>
  BY <1>0, <1>1
<1>2. ASSUME NEW i \in Item, Push(i)
      PROVE  base' \in Seq(Item) /\ Len(base') <= Length /\ lost' \subseteq Item
  <2>1. base' \in Seq(Item) /\ Len(base') \in Nat /\ Len(base') <= Len(base) + 1
    BY <1>0, <1>2, PushItemAdds DEF Push
  <2>2. Len(base) < Length /\ UNCHANGED lost
    BY <1>2 DEF Push, Room
  <2> QED BY <1>0, <2>1, <2>2, SizeAssumption
<1>3. CASE PopItem
  <2>1. base' = Tail(base) /\ base # <<>> /\ UNCHANGED lost
    BY <1>3 DEF PopItem
  <2>2. Tail(base) \in Seq(Item) /\ Len(Tail(base)) = Len(base) - 1
    BY <1>0, <2>1, HeadTailProperties
  <2> QED BY <1>0, <2>1, <2>2, SizeAssumption
<1>4. CASE PushBack
  <2>1. Head(held) \in Item /\ BasePush(Head(held))
    BY <1>0, <1>4, HeadTailProperties DEF PushBack
  <2> QED BY <2>1, BasePushAdds
<1>5. ASSUME NEW x \in Executor, HandleStep(x)
      PROVE  base' \in Seq(Item) /\ Len(base') <= Length /\ lost' \subseteq Item
  <2>1. CASE HandlerReturns(x)
    BY <1>1, <2>1 DEF HandlerReturns
  <2>2. CASE Requeue(x)
    BY <1>0, <2>2, RequeueLeaves DEF Requeue
  <2>3. CASE RequeueForShutdown(x)
    BY <2>3, RequeueForShutdownLeaves
  <2> QED BY <1>5, <2>1, <2>2, <2>3 DEF HandleStep
<1>6. CASE \/ (\E n \in MaxNums : SetWorkerMaxNumber(n)) \/ Cancel \/ PopperEnds
           \/ ReceiveItem \/ TimerFires \/ FlushReceived \/ DispatchStep \/ FlushStep
           \/ Return \/ DrainItem \/ DrainEnd \/ ShutdownDone
           \/ \E w \in Worker : WorkerEnds(w)
  BY <1>1, <1>6 DEF SetWorkerMaxNumber, Cancel, PopperEnds, ReceiveItem, TimerFires, FlushReceived, FlushRequested,
                    DispatchStep, DispatchNothing, DispatchFull, SendFlushed, SendStopped, DispatchToWaiting,
                    SendToWorker, FlushStep, FlushStop, FlushWait, FlushItem, FlushEnd,
                    Return, DrainItem, DrainEnd, ShutdownDone, WorkerEnds
<1> QED BY <1>2, <1>3, <1>4, <1>5, <1>6
        DEF Next, PopperStep, MainStep, ShutdownStep, WorkerStep, WorkerStops, WorkerIdles, Executor

LEMMA AliveMoves ==
  ASSUME exec \in [Executor -> Row], NEW x \in Executor, NEW row \in Row, Sets(x, row)
  PROVE  /\ x = DoRun \/ (exec[x] # Absent /\ row # Absent) => Alive' = Alive
         /\ x \in Worker /\ exec[x] = Absent /\ row # Absent => x \notin Alive /\ Alive' = Alive \cup {x}
         /\ x \in Worker /\ exec[x] # Absent /\ row = Absent => x \in Alive /\ Alive' = Alive \ {x}
<1>1. exec'[x] = row /\ \A y \in Executor : y # x => exec'[y] = exec[y]
  BY DEF Sets
<1>2. \A w \in Worker : w \in Executor /\ w # DoRun
  BY WorkerAssumption DEF Executor, DoRun
<1>3. Alive = {w \in Worker : exec[w] # Absent} /\ Alive' = {w \in Worker : exec'[w] # Absent}
  BY DEF Alive
<1> QED BY <1>1, <1>2, <1>3

(* Workers start in a dispatch only, and end one by one.                   *)
LEMMA WorkersMove ==
  ASSUME TypeOK, HandsHold, PopperHolds, HeldWhere, Next
  PROVE  \/ Alive' = Alive /\ workerNum' = workerNum
         \/ \E w \in Worker : /\ DispatchFull /\ MayStart
                              /\ w \notin Alive /\ Alive' = Alive \cup {w} /\ workerNum' = workerNum + 1
         \/ \E w \in Worker : /\ WorkerStops(w) \/ WorkerIdles(w)
                              /\ w \in Alive /\ Alive' = Alive \ {w} /\ workerNum' = workerNum - 1
<1> DEFINE Goal == \/ Alive' = Alive /\ workerNum' = workerNum
                   \/ \E w \in Worker : /\ DispatchFull /\ MayStart
                                        /\ w \notin Alive /\ Alive' = Alive \cup {w} /\ workerNum' = workerNum + 1
                   \/ \E w \in Worker : /\ WorkerStops(w) \/ WorkerIdles(w)
                                        /\ w \in Alive /\ Alive' = Alive \ {w} /\ workerNum' = workerNum - 1
<1>0. /\ exec \in [Executor -> Row] /\ buffer \in Seq(Item) /\ held \in Seq(Item)
      /\ \A w \in Worker : w \in Executor /\ w # DoRun
      /\ DoRun \in Executor /\ popper.items \in Seq(Item)
  <2>1. popper.items \in {<<>>} \cup {<<i>> : i \in Item} /\ exec \in [Executor -> Row]
    BY DEF TypeOK, Row
  <2>2. <<>> \in Seq(Item) /\ \A i \in Item : <<i>> \in Seq(Item)
    BY EmptySeq, OneRange
  <2> QED BY <2>1, <2>2, WorkerAssumption DEF TypeOK, Executor, DoRun
<1>1. CASE UNCHANGED <<exec, workerNum>>
  BY <1>1 DEF Alive
<1>2. Absent \in Row /\ Waiting \in Row /\ Waiting # Absent /\ \A b \in Seq(Item) : Handling(b) \in Row /\ Handling(b) # Absent
  BY RowTypes DEF Waiting, Absent, Handling
<1>3. ASSUME NEW w \in Worker, DispatchToWaiting(w) \/ SendToWorker(w)
      PROVE  Goal
  <2>1. exec[w] = Waiting /\ workerNum' = workerNum /\ \E b \in Seq(Item) : Sets(w, Handling(b))
    BY <1>0, <1>3, ExecutorSteps DEF DispatchToWaiting, SendToWorker
  <2> QED BY <1>0, <1>2, <2>1, AliveMoves
<1>4. CASE SendFlushed \/ FlushItem
  <2>1. workerNum' = workerNum /\ \E b \in Seq(Item) : Sets(DoRun, Handling(b))
    BY <1>0, <1>4, ExecutorSteps DEF SendFlushed, FlushItem
  <2> QED BY <1>0, <1>2, <2>1, AliveMoves
<1>5. CASE DispatchFull
  <2>1. CASE UNCHANGED <<exec, workerNum>>
    BY <1>1, <2>1
  <2>2. CASE ~UNCHANGED <<exec, workerNum>>
    <3>1. MayStart /\ workerNum' = workerNum + 1 /\ \E w \in Worker : exec[w] = Absent /\ Sets(w, Waiting)
      BY <1>5, <2>2 DEF DispatchFull, Sets
    <3> QED BY <1>0, <1>2, <1>5, <3>1, AliveMoves
  <2> QED BY <2>1, <2>2
<1>6. ASSUME NEW w \in Worker, WorkerStops(w) \/ WorkerIdles(w)
      PROVE  Goal
  <2>1. exec[w] = Waiting /\ Sets(w, Absent) /\ workerNum' = workerNum - 1
    BY <1>6, ExecutorSteps DEF WorkerStops, WorkerIdles, WorkerEnds
  <2> QED BY <1>0, <1>2, <1>6, <2>1, AliveMoves
<1>7. ASSUME NEW x \in Executor, HandleStep(x)
      PROVE  Goal
  <2>2. PICK row \in Row : Leaves(x, row)
    BY <1>7, HandleLeaves
  <2>3. workerNum' = workerNum /\ exec[x].pc # "none" /\ Absent.pc = "none"
    BY <1>7 DEF HandleStep, HandlerReturns, Requeue, RequeueForShutdown, Absent
  <2>4. x # DoRun => row # Absent
    BY <2>2 DEF Leaves, Absent
  <2> QED BY <1>0, <2>2, <2>3, <2>4, AliveMoves DEF Leaves
<1>8. CASE \/ (\E i \in Item : Push(i)) \/ (\E n \in MaxNums : SetWorkerMaxNumber(n)) \/ Cancel \/ PopperStep
           \/ ReceiveItem \/ TimerFires \/ FlushRequested \/ DispatchNothing \/ SendStopped
           \/ FlushStop \/ FlushWait \/ FlushEnd \/ ShutdownStep
  BY <1>1, <1>8 DEF Push, SetWorkerMaxNumber, Cancel, PopperStep, PopItem, PopperEnds, ReceiveItem, TimerFires,
                    FlushRequested, DispatchNothing, SendStopped, FlushStop, FlushWait, FlushEnd,
                    ShutdownStep, Return, DrainItem, DrainEnd, PushBack, ShutdownDone
<1> QED BY <1>0, <1>3, <1>4, <1>5, <1>6, <1>7, <1>8
        DEF Next, MainStep, DispatchStep, FlushStep, FlushReceived, WorkerStep

-----------------------------------------------------------------------------
(*                         Where doRun and the popper are                  *)

(* The rest of the types.                                                  *)
OtherTypes ==
  /\ popper \in [pc : {"pop", "send", "closed"}, items : {<<>>} \cup {<<i>> : i \in Item}]
  /\ main \in {"loop", "dispatch", "send", "flush dispatch", "flush send", "flush stop", "flush wait",
               "flush", "drain", "push back", "done", "timeout"}
  /\ buffer \in Seq(Item) /\ held \in Seq(Item)
  /\ timer \in BOOLEAN /\ ctxWorker \in BOOLEAN /\ ctxRun \in BOOLEAN
  /\ workerMaxNum \in MaxNums /\ pushes \in Nat

(* Where doRun is when its shutdown or a flush has got so far.             *)
Places == PopperHolds /\ HeldWhere /\ WorkersStopWhere
            /\ (main \in {"drain", "push back", "done", "timeout"} => ~ctxRun /\ buffer = <<>>)
            /\ (main \in {"push back", "done", "timeout"} => popper.pc = "closed")

LEMMA ReceivedKeeps ==
  ASSUME OtherTypes, PopperHolds, Received
  PROVE  /\ popper' \in [pc : {"pop", "send", "closed"}, items : {<<>>} \cup {<<i>> : i \in Item}]
         /\ PopperHolds' /\ popper.items \in Seq(Item) /\ popper.items # <<>> /\ popper.pc = "send"
<1>1. popper.items \in {<<>>} \cup {<<i>> : i \in Item}
  BY DEF OtherTypes
<1>2. <<>> \in Seq(Item) /\ \A i \in Item : <<i>> \in Seq(Item)
  BY EmptySeq, OneRange
<1>3. popper.items # <<>> /\ popper.pc = "send"
  BY DEF PopperHolds, Received
<1>4. popper' \in [pc : {"pop", "send", "closed"}, items : {<<>>}] /\ popper'.items = <<>> /\ popper'.pc # "send"
  BY DEF Received
<1> QED BY <1>1, <1>2, <1>3, <1>4 DEF PopperHolds

LEMMA PopperStays ==
  ASSUME OtherTypes, Places, base \in Seq(Item), PopperStep
  PROVE  OtherTypes' /\ Places'
<1>1. CASE PopItem
  <2>1. Head(base) \in Item
    BY <1>1, HeadTailProperties DEF PopItem
  <2>2. /\ popper' \in [pc : {"pop", "send", "closed"}, items : {<<>>} \cup {<<i>> : i \in Item}]
        /\ popper'.pc = "send" /\ popper'.items # <<>> /\ popper.pc = "pop"
    BY <1>1, <2>1 DEF PopItem
  <2> QED BY <1>1, <2>2 DEF PopItem, OtherTypes, Places, PopperHolds, HeldWhere, WorkersStopWhere
<1>2. CASE PopperEnds
  <2>1. /\ popper' \in [pc : {"pop", "send", "closed"}, items : {<<>>} \cup {<<i>> : i \in Item}]
        /\ popper'.pc = "closed" /\ popper'.items = popper.items /\ popper.pc = "pop"
    BY <1>2 DEF PopperEnds, OtherTypes
  <2> QED BY <1>2, <2>1 DEF PopperEnds, OtherTypes, Places, PopperHolds, HeldWhere, WorkersStopWhere
<1> QED BY <1>1, <1>2 DEF PopperStep

LEMMA MainStays ==
  ASSUME OtherTypes, Places, NEW w \in Worker,
         \/ ReceiveItem \/ TimerFires \/ FlushRequested
         \/ DispatchNothing \/ DispatchFull \/ SendFlushed \/ SendStopped \/ DispatchToWaiting(w) \/ SendToWorker(w)
         \/ FlushStep \/ ShutdownStep
  PROVE  OtherTypes' /\ Places'
<1>0. <<>> \in Seq(Item)
  BY EmptySeq
<1>1. CASE ReceiveItem
  <2>1. buffer \o popper.items \in Seq(Item)
    BY <1>1, ReceivedKeeps, ConcatProperties DEF ReceiveItem, OtherTypes, Places
  <2>2. /\ main = "loop" /\ main' \in {"loop", "dispatch"} /\ timer' \in BOOLEAN
        /\ buffer' \in Seq(Item) /\ UNCHANGED <<held, ctxWorker, workerMaxNum, ctxRun, pushes>> /\ Received
    BY <1>1, <2>1 DEF ReceiveItem, OtherTypes
  <2>3. popper' \in [pc : {"pop", "send", "closed"}, items : {<<>>} \cup {<<i>> : i \in Item}] /\ PopperHolds'
    BY <2>2, ReceivedKeeps DEF Places
  <2> QED BY <2>2, <2>3 DEF OtherTypes, Places, HeldWhere, WorkersStopWhere
<1>2. CASE TimerFires \/ FlushRequested
  BY <1>2 DEF TimerFires, FlushRequested, OtherTypes, Places, PopperHolds, HeldWhere, WorkersStopWhere
<1>3. CASE DispatchNothing \/ DispatchToWaiting(w)
  BY <1>0, <1>3 DEF DispatchNothing, DispatchToWaiting, Dispatching, Dispatched,
                    OtherTypes, Places, PopperHolds, HeldWhere, WorkersStopWhere
<1>4. CASE DispatchFull
  BY <1>0, <1>4 DEF DispatchFull, Dispatching, OtherTypes, Places, PopperHolds, HeldWhere, WorkersStopWhere
<1>5. CASE SendFlushed \/ SendToWorker(w) \/ SendStopped
  BY <1>0, <1>5 DEF SendFlushed, SendToWorker, SendStopped, TakenBack, Dispatched,
                    OtherTypes, Places, PopperHolds, HeldWhere, WorkersStopWhere
<1>6. CASE FlushStop \/ FlushWait \/ FlushEnd
  <2>1. CASE FlushStop
    BY <2>1 DEF FlushStop, OtherTypes, Places, PopperHolds, HeldWhere, WorkersStopWhere
  <2>2. CASE FlushWait
    BY <2>2 DEF FlushWait, OtherTypes, Places, PopperHolds, HeldWhere, WorkersStopWhere
  <2>3. CASE FlushEnd
    BY <2>3 DEF FlushEnd, OtherTypes, Places, PopperHolds, HeldWhere, WorkersStopWhere
  <2> QED BY <1>6, <2>1, <2>2, <2>3
<1>7. CASE FlushItem
  <2>1. Received /\ main = "flush" /\ UNCHANGED <<main, buffer, held, timer, ctxWorker, workerMaxNum, ctxRun, pushes>>
    BY <1>7 DEF FlushItem
  <2>2. popper' \in [pc : {"pop", "send", "closed"}, items : {<<>>} \cup {<<i>> : i \in Item}] /\ PopperHolds'
    BY <2>1, ReceivedKeeps DEF Places
  <2> QED BY <2>1, <2>2 DEF OtherTypes, Places, HeldWhere, WorkersStopWhere
<1>8. CASE Return \/ DrainEnd \/ ShutdownDone
  <2>1. CASE Return
    BY <1>0, <2>1 DEF Return, OtherTypes, Places, PopperHolds, HeldWhere, WorkersStopWhere
  <2>2. CASE DrainEnd
    BY <2>2 DEF DrainEnd, Drained, OtherTypes, Places, PopperHolds, HeldWhere, WorkersStopWhere
  <2>3. CASE ShutdownDone
    BY <2>3 DEF ShutdownDone, OtherTypes, Places, PopperHolds, HeldWhere, WorkersStopWhere
  <2> QED BY <1>8, <2>1, <2>2, <2>3
<1>9. CASE DrainItem
  <2>1. held \o popper.items \in Seq(Item)
    BY <1>9, ReceivedKeeps, ConcatProperties DEF DrainItem, OtherTypes, Places
  <2>2. /\ main = "drain" /\ Received /\ held' \in Seq(Item)
        /\ UNCHANGED <<main, buffer, timer, ctxWorker, workerMaxNum, ctxRun, pushes>>
    BY <1>9, <2>1 DEF DrainItem
  <2>3. popper' \in [pc : {"pop", "send", "closed"}, items : {<<>>} \cup {<<i>> : i \in Item}] /\ PopperHolds'
    BY <2>2, ReceivedKeeps DEF Places
  <2> QED BY <2>2, <2>3 DEF OtherTypes, Places, HeldWhere, WorkersStopWhere
<1>10. CASE PushBack
  <2>1. held' \in Seq(Item)
    BY <1>10, HeadTailProperties DEF PushBack, OtherTypes
  <2> QED BY <1>10, <2>1 DEF PushBack, OtherTypes, Places, PopperHolds, HeldWhere, WorkersStopWhere
<1> QED BY <1>1, <1>2, <1>3, <1>4, <1>5, <1>6, <1>7, <1>8, <1>9, <1>10 DEF FlushStep, ShutdownStep

(* The other steps leave doRun and the popper alone.                       *)
LEMMA OthersStay ==
  ASSUME OtherTypes, Places,
         \/ (\E i \in Item : Push(i)) \/ (\E n \in MaxNums : SetWorkerMaxNumber(n)) \/ Cancel
         \/ (\E x \in Executor : HandleStep(x)) \/ (\E w \in Worker : WorkerEnds(w))
         \/ UNCHANGED vars
  PROVE  OtherTypes' /\ Places' /\ UNCHANGED main
<1>0. pushes \in Nat /\ workerMaxNum \in MaxNums
  BY DEF OtherTypes
<1>1. CASE \E i \in Item : Push(i)
  <2>1. /\ UNCHANGED <<popper, main, buffer, held, timer, ctxWorker, ctxRun, workerMaxNum>>
        /\ pushes > 0 /\ pushes' = pushes - 1
    BY <1>1 DEF Push
  <2>2. pushes' \in Nat
    BY <1>0, <2>1
  <2> QED BY <2>1, <2>2 DEF OtherTypes, Places, PopperHolds, HeldWhere, WorkersStopWhere
<1>2. CASE \E n \in MaxNums : SetWorkerMaxNumber(n)
  <2>1. /\ UNCHANGED <<popper, main, buffer, held, timer, ctxWorker, ctxRun, pushes>>
        /\ workerMaxNum' \in MaxNums
    BY <1>2 DEF SetWorkerMaxNumber
  <2> QED BY <2>1 DEF OtherTypes, Places, PopperHolds, HeldWhere, WorkersStopWhere
<1>3. CASE Cancel
  BY <1>3 DEF Cancel, OtherTypes, Places, PopperHolds, HeldWhere, WorkersStopWhere
<1>4. CASE \/ (\E x \in Executor : HandleStep(x)) \/ (\E w \in Worker : WorkerEnds(w)) \/ UNCHANGED vars
  <2>1. UNCHANGED <<popper, main, buffer, held, timer, ctxWorker, ctxRun, workerMaxNum, pushes>>
    BY <1>4 DEF HandleStep, HandlerReturns, Requeue, RequeueForShutdown, WorkerEnds, vars
  <2> QED BY <2>1 DEF OtherTypes, Places, PopperHolds, HeldWhere, WorkersStopWhere
<1> QED BY <1>1, <1>2, <1>3, <1>4

LEMMA WorkerExists == \E w : w \in Worker
<1>1. 1 <= Cardinality(Worker)
  BY WorkerAssumption
<1> QED BY <1>1, FS_EmptySet

LEMMA PlacesKept ==
  ASSUME OtherTypes, Places, base \in Seq(Item), [Next]_vars
  PROVE  OtherTypes' /\ Places'
<1>1. PICK v \in Worker : TRUE
  BY WorkerExists
<1>2. CASE UNCHANGED vars
  BY <1>2, OthersStay
<1>3. CASE \/ (\E i \in Item : Push(i)) \/ (\E n \in MaxNums : SetWorkerMaxNumber(n)) \/ Cancel
           \/ \E w \in Worker : WorkerStep(w) \/ WorkerIdles(w)
  <2>1. \/ (\E i \in Item : Push(i)) \/ (\E n \in MaxNums : SetWorkerMaxNumber(n)) \/ Cancel
        \/ (\E x \in Executor : HandleStep(x)) \/ (\E w \in Worker : WorkerEnds(w))
    BY <1>3 DEF WorkerStep, WorkerStops, WorkerIdles, Executor
  <2> QED BY <2>1, OthersStay
<1>4. CASE PopperStep
  BY <1>4, PopperStays
<1>5. CASE MainStep \/ FlushReceived
  <2>1. CASE HandleStep(DoRun)
    <3>1. \E x \in Executor : HandleStep(x)
      BY <2>1 DEF Executor
    <3> QED BY <3>1, OthersStay
  <2>2. ASSUME NEW w \in Worker,
               \/ ReceiveItem \/ TimerFires \/ FlushRequested
               \/ DispatchNothing \/ DispatchFull \/ SendFlushed \/ SendStopped \/ DispatchToWaiting(w) \/ SendToWorker(w)
               \/ FlushStep \/ ShutdownStep
        PROVE  OtherTypes' /\ Places'
    BY <2>2, MainStays
  <2> QED BY <1>1, <1>5, <2>1, <2>2 DEF MainStep, DispatchStep, FlushReceived
<1> QED BY <1>2, <1>3, <1>4, <1>5 DEF Next

-----------------------------------------------------------------------------
(*                      The count, and the end of doRun                    *)

LEMMA AliveFinite == IsFiniteSet(Alive) /\ Cardinality(Alive) \in Nat
<1>1. Alive \subseteq Worker
  BY DEF Alive
<1> QED BY <1>1, WorkerAssumption, FS_Subset, FS_CardinalityType

LEMMA CountKept ==
  ASSUME TypeOK, HandsHold, PopperHolds, HeldWhere, WorkersStopWhere, WorkersCounted, [Next]_vars
  PROVE  WorkersCounted' /\ workerNum' \in Nat
<1> DEFINE Bound(n) == IF n = 0 THEN 1 ELSE n
           IsLargest(n) == \A m \in MaxNums : m <= n
<1>0. workerNum = Cardinality(Alive) /\ workerNum \in Nat
  BY AliveFinite DEF WorkersCounted
<1>1. workerNum \in Nat /\ workerMaxNum \in Nat /\ workerMaxNum \in MaxNums /\ \A n \in MaxNums : n \in Nat
  BY <1>0, WorkerAssumption DEF TypeOK
<1>a. \A n \in MaxNums : IsLargest(n) => workerNum <= Bound(n)
  BY DEF WorkersCounted
<1>b. main \in {"send", "flush send"} /\ ctxRun => workerNum >= 1
  BY DEF WorkersCounted
<1>2. CASE /\ Alive' = Alive /\ workerNum' = workerNum
           /\ main' \in {"send", "flush send"} /\ ctxRun' => workerNum >= 1
  BY <1>0, <1>a, <1>2 DEF WorkersCounted
<1>3. ASSUME NEW w \in Worker, DispatchFull, MayStart,
             w \notin Alive, Alive' = Alive \cup {w}, workerNum' = workerNum + 1
      PROVE  WorkersCounted' /\ workerNum' \in Nat
  <2>1. Cardinality(Alive') = Cardinality(Alive) + 1
    BY <1>3, AliveFinite, FS_AddElement
  <2>2. ASSUME NEW n \in MaxNums, IsLargest(n)
        PROVE  workerNum' <= Bound(n)
    <3>1. workerMaxNum <= n /\ n \in Nat
      BY <1>1, <2>2
    <3>2. (workerNum < workerMaxNum \/ workerNum = 0) /\ workerNum' = workerNum + 1
      BY <1>3 DEF MayStart
    <3> QED BY <1>1, <3>1, <3>2
  <2>3. workerNum' >= 1 /\ workerNum' \in Nat
    <3>1. workerNum' = workerNum + 1
      BY <1>3
    <3> QED BY <1>1, <3>1
  <2>4. workerNum' = Cardinality(Alive')
    BY <1>0, <1>3, <2>1
  <2> QED BY <2>2, <2>3, <2>4 DEF WorkersCounted
<1>4. ASSUME NEW w \in Worker, WorkerStops(w) \/ WorkerIdles(w),
             w \in Alive, Alive' = Alive \ {w}, workerNum' = workerNum - 1
      PROVE  WorkersCounted' /\ workerNum' \in Nat
  <2>1. Cardinality(Alive') = Cardinality(Alive) - 1 /\ Cardinality(Alive') \in Nat
    <3>1. Cardinality(Alive \ {w}) = Cardinality(Alive) - 1
      BY <1>4, AliveFinite, FS_RemoveElement
    <3>2. IsFiniteSet(Alive \ {w})
      BY AliveFinite, FS_Subset
    <3> QED BY <1>4, <3>1, <3>2, FS_CardinalityType
  <2>2. workerNum' = Cardinality(Alive') /\ workerNum' \in Nat
    BY <1>0, <1>4, <2>1
  <2>a. workerNum' = workerNum - 1
    BY <1>4
  <2>3. ASSUME NEW n \in MaxNums, IsLargest(n)
        PROVE  workerNum' <= Bound(n)
    <3>1. workerNum <= Bound(n) /\ Bound(n) \in Nat
      BY <1>1, <1>a, <2>3
    <3> HIDE DEF Bound
    <3> QED BY <1>1, <2>a, <3>1
  <2>4. main' = main /\ ctxRun' = ctxRun
    BY <1>4 DEF WorkerStops, WorkerIdles, WorkerEnds
  <2>5. ASSUME main \in {"send", "flush send"}, ctxRun
        PROVE  workerNum' >= 1
    <3>1. ctxWorker
      BY <2>5 DEF WorkersStopWhere
    <3>2. ~IsLast
      BY <1>4, <2>5, <3>1 DEF WorkerStops, WorkerIdles
    <3> QED BY <1>1, <2>a, <3>2 DEF IsLast
  <2> QED BY <2>2, <2>3, <2>4, <2>5 DEF WorkersCounted
<1>5. ASSUME Next, main' \in {"send", "flush send"}, ctxRun', workerNum' = workerNum
      PROVE  workerNum >= 1
  <2>1. (main' = main /\ (ctxRun' => ctxRun)) \/ DispatchFull
    BY <1>5 DEF Next, Push, SetWorkerMaxNumber, Cancel, PopperStep, PopItem, PopperEnds, MainStep,
           ReceiveItem, TimerFires, FlushReceived, FlushRequested, DispatchStep, DispatchNothing, SendFlushed, SendStopped,
           DispatchToWaiting, SendToWorker, Dispatched, FlushStep, FlushStop, FlushWait, FlushItem, FlushEnd,
           ShutdownStep, Return, DrainItem, DrainEnd, PushBack, ShutdownDone,
           HandleStep, HandlerReturns, Requeue, RequeueForShutdown, WorkerStep, WorkerStops, WorkerIdles, WorkerEnds
  <2>2. CASE main' = main /\ (ctxRun' => ctxRun)
    BY <1>b, <1>5, <2>2
  <2>3. CASE DispatchFull
    <3>1. ~MayStart
      <4>0. workerNum' = workerNum
        BY <1>5
      <4>1. ~(workerNum' = workerNum + 1)
        BY <1>1, <4>0
      <4> QED BY <2>3, <4>1 DEF DispatchFull
    <3> QED BY <1>1, <3>1 DEF MayStart
  <2> QED BY <2>1, <2>2, <2>3
<1>6. CASE UNCHANGED vars
  BY <1>0, <1>a, <1>b, <1>6 DEF vars, Alive, WorkersCounted
<1>7. CASE Next
  <2>1. CASE Alive' = Alive /\ workerNum' = workerNum
    BY <1>2, <1>5, <1>7, <2>1
  <2> QED BY <1>3, <1>4, <1>7, <2>1, WorkersMove
<1> QED BY <1>6, <1>7

(* doRun does not leave its flush before the handler has returned.         *)
LEMMA DoRunKept ==
  ASSUME TypeOK, HandsHold, PopperHolds, HeldWhere, DoRunHandles, [Next]_vars
  PROVE  DoRunHandles'
<1>0. exec \in [Executor -> Row] /\ DoRun \in Executor /\ \A w \in Worker : w \in Executor /\ w # DoRun
  BY WorkerAssumption DEF TypeOK, Row, Executor, DoRun
<1>1. ASSUME NEW x \in Executor, NEW row \in Row, Sets(x, row), x # DoRun
      PROVE  exec'[DoRun] = exec[DoRun]
  BY <1>0, <1>1 DEF Sets
<1>2. CASE exec'[DoRun] = exec[DoRun] /\ main' = main
  BY <1>2 DEF DoRunHandles
<1>3. CASE UNCHANGED exec /\ main \notin {"flush stop", "flush"}
  BY <1>3 DEF DoRunHandles
<1>4. CASE FlushStop \/ FlushEnd
  BY <1>4 DEF DoRunHandles, FlushStop, FlushEnd
<1>5. CASE SendFlushed \/ FlushItem
  BY <1>5 DEF DoRunHandles, SendFlushed, FlushItem
<1>6. ASSUME NEW w \in Worker, DispatchToWaiting(w) \/ SendToWorker(w)
      PROVE  DoRunHandles'
  <2>1. exec'[DoRun] = exec[DoRun] /\ main \notin {"flush stop", "flush"}
    BY <1>0, <1>6 DEF DispatchToWaiting, SendToWorker, Dispatching
  <2> QED BY <2>1 DEF DoRunHandles
<1>7. CASE DispatchFull
  <2>1. exec'[DoRun] = exec[DoRun] /\ main \notin {"flush stop", "flush"}
    BY <1>0, <1>7 DEF DispatchFull, Dispatching
  <2> QED BY <2>1 DEF DoRunHandles
<1>8. ASSUME NEW w \in Worker, WorkerEnds(w)
      PROVE  DoRunHandles'
  BY <1>0, <1>2, <1>8 DEF WorkerEnds
<1>9. ASSUME NEW x \in Executor, HandleStep(x)
      PROVE  DoRunHandles'
  <2>1. PICK row \in Row : Leaves(x, row)
    BY <1>9, HandleLeaves
  <2>2. UNCHANGED main
    BY <1>9 DEF HandleStep, HandlerReturns, Requeue, RequeueForShutdown
  <2>3. CASE x # DoRun
    BY <1>1, <1>2, <2>1, <2>2, <2>3 DEF Leaves
  <2>4. CASE x = DoRun
    <3>1. exec[DoRun].pc # "none" /\ Absent.pc = "none"
      BY <1>9, <2>4 DEF HandleStep, HandlerReturns, Requeue, RequeueForShutdown, Absent
    <3> QED BY <2>2, <3>1 DEF DoRunHandles
  <2> QED BY <2>3, <2>4
<1>10. CASE \/ (\E i \in Item : Push(i)) \/ (\E n \in MaxNums : SetWorkerMaxNumber(n)) \/ Cancel
            \/ PopperStep \/ UNCHANGED vars
  BY <1>2, <1>10 DEF Push, SetWorkerMaxNumber, Cancel, PopperStep, PopItem, PopperEnds, vars
<1>11. CASE ReceiveItem \/ TimerFires \/ FlushRequested \/ DispatchNothing \/ SendStopped \/ FlushWait \/ ShutdownStep
  <2>1. UNCHANGED exec /\ main \notin {"flush stop", "flush"}
    BY <1>11 DEF ReceiveItem, TimerFires, FlushRequested, DispatchNothing, Dispatching, SendStopped, FlushWait,
                 ShutdownStep, Return, DrainItem, DrainEnd, PushBack, ShutdownDone
  <2> QED BY <1>3, <2>1
<1> QED BY <1>0, <1>4, <1>5, <1>6, <1>7, <1>8, <1>9, <1>10, <1>11
        DEF Next, MainStep, DispatchStep, FlushStep, FlushReceived, WorkerStep, WorkerStops, WorkerIdles

(* The shutdown is done when no worker is alive, and none starts after.    *)
LEMMA DoneKept ==
  ASSUME TypeOK, HandsHold, PopperHolds, HeldWhere, main = "done" => Alive = {}, [Next]_vars
  PROVE  main' = "done" => Alive' = {}
<1>1. CASE UNCHANGED vars
  BY <1>1 DEF vars, Alive
<1>2. CASE ShutdownDone
  BY <1>2 DEF ShutdownDone, Alive
<1>3. CASE Next /\ ~ShutdownDone
  <2>1. main' = "done" => main = "done"
    BY <1>3 DEF Next, Push, SetWorkerMaxNumber, Cancel, PopperStep, PopItem, PopperEnds, MainStep,
           ReceiveItem, TimerFires, FlushReceived, FlushRequested, DispatchStep, DispatchNothing, DispatchFull, SendFlushed, SendStopped,
           DispatchToWaiting, SendToWorker, Dispatched, FlushStep, FlushStop, FlushWait, FlushItem, FlushEnd,
           ShutdownStep, Return, DrainItem, DrainEnd, PushBack,
           HandleStep, HandlerReturns, Requeue, RequeueForShutdown, WorkerStep, WorkerStops, WorkerIdles, WorkerEnds
  <2>2. DispatchFull => main # "done"
    BY DEF DispatchFull, Dispatching
  <2> QED BY <1>3, <2>1, <2>2, WorkersMove
<1> QED BY <1>1, <1>2, <1>3

-----------------------------------------------------------------------------
(*                               The invariant                             *)

LEMMA InitInv == Init => Inv
<1> SUFFICES ASSUME Init PROVE Inv
  OBVIOUS
<1>1. TypeOK
  <2>1. <<>> \in Seq(Item) /\ Len(<<>>) = 0
    BY EmptySeq
  <2>2. Absent \in Row
    BY RowTypes
  <2>3. exec \in [Executor -> Row]
    BY <2>2 DEF Init
  <2>4. Len(base) <= Length
    BY <2>1, SizeAssumption DEF Init
  <2> QED BY <2>1, <2>3, <2>4, SizeAssumption DEF Init, TypeOK, Row
<1>2. \A x \in Executor : exec[x] = Absent
  BY DEF Init
<1>3. PopperHolds /\ HandsHold /\ HeldWhere /\ DoRunHandles /\ ShutdownWhere /\ WorkersStopWhere
  BY <1>2 DEF Init, PopperHolds, HandsHold, HeldWhere, DoRunHandles, ShutdownWhere, WorkersStopWhere, Executor,
              Absent, Holding
<1>4. WorkersCounted
  <2>1. Alive = {} /\ workerNum = 0 /\ main = "loop"
    BY <1>2 DEF Init, Alive, Executor
  <2>2. Cardinality(Alive) = 0
    BY <2>1, FS_EmptySet
  <2>3. \A n \in MaxNums : 0 <= IF n = 0 THEN 1 ELSE n
    BY WorkerAssumption
  <2> QED BY <2>1, <2>2, <2>3 DEF WorkersCounted
<1> QED BY <1>1, <1>3, <1>4 DEF Inv

LEMMA NextInv == Inv /\ [Next]_vars => Inv'
<1> SUFFICES ASSUME Inv, [Next]_vars PROVE Inv'
  OBVIOUS
<1>1. OtherTypes /\ Places /\ base \in Seq(Item) /\ (main = "done" => Alive = {})
  BY DEF Inv, TypeOK, OtherTypes, Places, ShutdownWhere
<1>2. OtherTypes' /\ Places'
  BY <1>1, PlacesKept
<1>3. WorkersCounted' /\ workerNum' \in Nat
  BY CountKept DEF Inv
<1>4. DoRunHandles' /\ (main' = "done" => Alive' = {})
  BY <1>1, DoRunKept, DoneKept DEF Inv
<1>5. /\ base' \in Seq(Item) /\ Len(base') <= Length /\ lost' \subseteq Item
      /\ exec' \in [Executor -> Row] /\ HandsHold'
  <2>1. CASE Next
    BY <2>1, BaseKept, RowsKept DEF Inv
  <2>2. CASE UNCHANGED vars
    <3>1. UNCHANGED <<base, lost, exec>>
      BY <2>2 DEF vars
    <3>2. base \in Seq(Item) /\ Len(base) <= Length /\ lost \subseteq Item /\ exec \in [Executor -> Row] /\ HandsHold
      BY DEF Inv, TypeOK, Row
    <3> QED BY <3>1, <3>2 DEF HandsHold
  <2> QED BY <2>1, <2>2
<1>6. TypeOK'
  BY <1>2, <1>3, <1>5 DEF TypeOK, OtherTypes, Row
<1> QED BY <1>2, <1>3, <1>4, <1>5, <1>6 DEF Inv, Places, ShutdownWhere

LEMMA Invariance == Spec => []Inv
<1> QED BY InitInv, NextInv, PTL DEF Spec

(* The states have their shapes, and the base queue, into which producers, *)
(* failed handlers and the shutdown all push, never exceeds its length.    *)
THEOREM TypeCorrect == Spec => []TypeOK
<1>1. Inv => TypeOK
  BY DEF Inv
<1> QED BY <1>1, Invariance, PTL

(* The pool counts its workers right, never has more than it may, and no   *)
(* batch waits for a worker while the queue runs without one.              *)
THEOREM Counted == Spec => []WorkersCounted
<1>1. Inv => WorkersCounted
  BY DEF Inv
<1> QED BY <1>1, Invariance, PTL

-----------------------------------------------------------------------------
(*                               The promise                               *)

Hands == UNION {InHand(x) : x \in Executor}
Calls == [x \in Executor |-> InCall(x)]
HandOf(row) == IF row.pc \in {"requeue", "base push"} THEN Range(row.items) ELSE {}
CallOf(row) == IF row.pc = "handle" THEN Range(row.items) ELSE {}

(* A step of an executor changes its own part of Pending and of the calls. *)
LEMMA HandsMove ==
  ASSUME exec \in [Executor -> Row], NEW x \in Executor, NEW row \in Row, Sets(x, row)
  PROVE  /\ \E rest : Hands = rest \cup HandOf(exec[x]) /\ Hands' = rest \cup HandOf(row)
         /\ Calls' = [Calls EXCEPT ![x] = CallOf(row)] /\ Calls[x] = CallOf(exec[x])
<1>1. exec'[x] = row /\ \A y \in Executor : y # x => exec'[y] = exec[y]
  BY DEF Sets
<1>2. \A y \in Executor : y # x => InHand(y)' = InHand(y) /\ InCall(y)' = InCall(y)
  BY <1>1 DEF InHand, InCall
<1>3. /\ InHand(x) = HandOf(exec[x]) /\ InHand(x)' = HandOf(row)
      /\ InCall(x) = CallOf(exec[x]) /\ InCall(x)' = CallOf(row)
  BY <1>1 DEF InHand, InCall, HandOf, CallOf
<1> DEFINE rest == UNION {InHand(y) : y \in Executor \ {x}}
<1>4. Hands = rest \cup HandOf(exec[x])
  BY <1>3 DEF Hands
<1>5. Hands' = UNION {InHand(y)' : y \in Executor}
  BY DEF Hands
<1>6. Hands' = rest \cup HandOf(row)
  BY <1>2, <1>3, <1>5
<1>7. Calls' = [y \in Executor |-> InCall(y)'] /\ Calls[x] = CallOf(exec[x])
  BY <1>3 DEF Calls
<1>8. Calls' = [Calls EXCEPT ![x] = CallOf(row)]
  BY <1>2, <1>3, <1>7 DEF Calls
<1> HIDE DEF rest
<1> QED BY <1>4, <1>6, <1>7, <1>8

LEMMA HandsStay == UNCHANGED exec => UNCHANGED <<Hands, Calls>>
BY DEF Hands, Calls, InHand, InCall

LEMMA PendingIs ==
  /\ Pending = Range(base) \cup Range(popper.items) \cup Range(buffer) \cup Range(held) \cup Hands
  /\ Pending' = Range(base') \cup Range(popper.items') \cup Range(buffer') \cup Range(held') \cup Hands'
BY DEF Pending, Hands

Stays == UNCHANGED <<Pending, Calls, lost>>

(* A call gets items that were pending and leaves nothing else.            *)
LEMMA CallStarts ==
  ASSUME Inv, NEW x \in Executor, exec[x] = IF x = DoRun THEN Absent ELSE Waiting,
         NEW b \in Seq(Item), b # <<>>, Sets(x, Handling(b)), UNCHANGED <<base, lost>>,
         Range(b) \subseteq Range(popper.items) \cup Range(buffer) \cup Range(held),
         Range(popper.items) \cup Range(buffer) \cup Range(held)
           = Range(popper.items') \cup Range(buffer') \cup Range(held') \cup Range(b)
  PROVE  Promise!Call(x, Range(b)) /\ Range(b) \in SUBSET Item
<1>1. exec \in [Executor -> Row] /\ Handling(b) \in Row
  BY RowTypes DEF Inv, TypeOK, Row
<1>2. /\ HandOf(exec[x]) = {} /\ CallOf(exec[x]) = {}
      /\ HandOf(Handling(b)) = {} /\ CallOf(Handling(b)) = Range(b)
  BY DEF HandOf, CallOf, Handling, Absent, Waiting
<1>3. Hands' = Hands /\ Calls' = [Calls EXCEPT ![x] = Range(b)] /\ Calls[x] = {}
  BY <1>1, <1>2, HandsMove
<1>4. Range(b) # {} /\ Range(b) \subseteq Item
  BY NonemptyRange
<1>5. Range(b) \subseteq Pending /\ Pending \ Range(b) \subseteq Pending' /\ Pending' \subseteq Pending
  BY <1>3, PendingIs
<1> QED BY <1>3, <1>4, <1>5 DEF Promise!Call, Promise!Remain, Calls

LEMMA DispatchPromise ==
  ASSUME Inv, NEW w \in Worker, DispatchToWaiting(w) \/ SendToWorker(w) \/ SendFlushed \/ FlushItem
  PROVE  Promise!Next
<1>0. /\ buffer \in Seq(Item) /\ held \in Seq(Item) /\ popper.items \in Seq(Item)
      /\ w \in Executor /\ w # DoRun /\ DoRun \in Executor /\ Range(<<>>) = {}
  <2>1. popper.items \in {<<>>} \cup {<<i>> : i \in Item}
    BY DEF Inv, TypeOK
  <2>2. <<>> \in Seq(Item) /\ \A i \in Item : <<i>> \in Seq(Item)
    BY EmptySeq, OneRange
  <2> QED BY <2>1, <2>2, EmptyRange, WorkerAssumption DEF Inv, TypeOK, Executor, DoRun
<1>1. ASSUME NEW x \in Executor, NEW b \in Seq(Item), Promise!Call(x, Range(b)) /\ Range(b) \in SUBSET Item
      PROVE  Promise!Next
  BY <1>1 DEF Promise!Next
<1>2. CASE DispatchToWaiting(w)
  <2>1. /\ buffer # <<>> /\ exec[w] = Waiting /\ Sets(w, Handling(buffer)) /\ buffer' = <<>>
        /\ UNCHANGED <<base, popper, held, lost>>
    BY <1>2 DEF DispatchToWaiting, Sets
  <2>2. Range(buffer) \subseteq Range(popper.items) \cup Range(buffer) \cup Range(held)
    OBVIOUS
  <2>3. Range(popper.items) \cup Range(buffer) \cup Range(held)
          = Range(popper.items') \cup Range(buffer') \cup Range(held') \cup Range(buffer)
    BY <1>0, <2>1
  <2> QED BY <1>0, <1>1, <2>1, <2>2, <2>3, CallStarts
<1>3. CASE SendToWorker(w)
  <2>1. /\ held # <<>> /\ exec[w] = Waiting /\ Sets(w, Handling(held)) /\ held' = <<>>
        /\ UNCHANGED <<base, popper, buffer, lost>>
    BY <1>3 DEF SendToWorker, Sets, Inv, HeldWhere
  <2>2. Range(held) \subseteq Range(popper.items) \cup Range(buffer) \cup Range(held)
    OBVIOUS
  <2>3. Range(popper.items) \cup Range(buffer) \cup Range(held)
          = Range(popper.items') \cup Range(buffer') \cup Range(held') \cup Range(held)
    BY <1>0, <2>1
  <2> QED BY <1>0, <1>1, <2>1, <2>2, <2>3, CallStarts
<1>4. CASE SendFlushed
  <2>1. /\ held # <<>> /\ exec[DoRun] = Absent /\ Sets(DoRun, Handling(held)) /\ held' = <<>>
        /\ UNCHANGED <<base, popper, buffer, lost>>
    BY <1>4 DEF SendFlushed, Sets, Inv, HeldWhere, DoRunHandles
  <2>2. Range(held) \subseteq Range(popper.items) \cup Range(buffer) \cup Range(held)
    OBVIOUS
  <2>3. Range(popper.items) \cup Range(buffer) \cup Range(held)
          = Range(popper.items') \cup Range(buffer') \cup Range(held') \cup Range(held)
    BY <1>0, <2>1
  <2> QED BY <1>0, <1>1, <2>1, <2>2, <2>3, CallStarts
<1>5. CASE FlushItem
  <2>1. /\ popper.items # <<>> /\ exec[DoRun] = Absent /\ Sets(DoRun, Handling(popper.items)) /\ popper'.items = <<>>
        /\ UNCHANGED <<base, buffer, held, lost>>
    BY <1>5 DEF FlushItem, Received, Sets, Inv, PopperHolds
  <2>2. Range(popper.items) \subseteq Range(popper.items) \cup Range(buffer) \cup Range(held)
    OBVIOUS
  <2>3. Range(popper.items) \cup Range(buffer) \cup Range(held)
          = Range(popper.items') \cup Range(buffer') \cup Range(held') \cup Range(popper.items)
    BY <1>0, <2>1
  <2> QED BY <1>0, <1>1, <2>1, <2>2, <2>3, CallStarts
<1> QED BY <1>2, <1>3, <1>4, <1>5

(* A step of an executor that has been called.                             *)
LEMMA HandlePromise ==
  ASSUME Inv, NEW x \in Executor, HandleStep(x)
  PROVE  Promise!Next \/ Stays
<1>0. /\ TypeOK /\ HandsHold /\ exec \in [Executor -> Row] /\ exec[x].items \in Seq(Item)
      /\ base \in Seq(Item) /\ UNCHANGED <<popper, buffer, held>>
  BY DEF Inv, TypeOK, Row, HandleStep, HandlerReturns, Requeue, RequeueForShutdown
<1>1. CASE HandlerReturns(x)
  <2>1. PICK row \in Row : /\ Leaves(x, row) /\ Range(row.items) \subseteq Range(exec[x].items)
                           /\ row.pc # "handle" /\ row.pc # "base push"
    BY <1>0, <1>1, HandlerReturnsLeaves
  <2>2. exec[x].pc = "handle" /\ exec[x].items # <<>> /\ UNCHANGED <<base, lost>>
    BY <1>0, <1>1 DEF HandlerReturns, HandsHold, Holding
  <2>3. HandOf(exec[x]) = {} /\ CallOf(exec[x]) = Range(exec[x].items) /\ CallOf(row) = {}
    BY <2>1, <2>2 DEF HandOf, CallOf
  <2>4. Hands' = Hands \cup HandOf(row) /\ Calls' = [Calls EXCEPT ![x] = {}] /\ Calls[x] = Range(exec[x].items)
    BY <1>0, <2>1, <2>3, HandsMove DEF Leaves
  <2>5. Range(exec[x].items) # {} /\ Range(exec[x].items) \subseteq Item
    BY <1>0, <2>2, NonemptyRange
  <2>6. HandOf(row) \subseteq Range(exec[x].items)
    BY <2>1 DEF HandOf
  <2>7. Pending' = Pending \cup HandOf(row)
    BY <1>0, <2>2, <2>4, PendingIs
  <2>8. Promise!Return(x, HandOf(row))
    BY <2>2, <2>4, <2>5, <2>6, <2>7 DEF Promise!Return, Calls
  <2> QED BY <2>5, <2>6, <2>8 DEF Promise!Next
<1>2. ASSUME NEW row \in Row, Leaves(x, row), row.pc # "handle", exec[x].pc \in {"requeue", "base push"}
      PROVE  /\ \E rest : Hands = rest \cup Range(exec[x].items) /\ Hands' = rest \cup Range(row.items)
             /\ Calls' = Calls
  <2>1. row.items = <<>> \/ row.pc \in {"requeue", "base push"}
    BY <1>2 DEF Leaves, Holding
  <2>2. HandOf(row) = Range(row.items) /\ CallOf(row) = {}
    BY <1>2, <2>1, EmptyRange DEF HandOf, CallOf
  <2>3. HandOf(exec[x]) = Range(exec[x].items) /\ CallOf(exec[x]) = {}
    BY <1>2 DEF HandOf, CallOf
  <2>4. /\ \E rest : Hands = rest \cup HandOf(exec[x]) /\ Hands' = rest \cup HandOf(row)
        /\ Calls' = [Calls EXCEPT ![x] = CallOf(row)] /\ Calls[x] = CallOf(exec[x])
    BY <1>0, <1>2, HandsMove DEF Leaves
  <2>5. Calls' = Calls
    BY <2>2, <2>3, <2>4 DEF Calls
  <2> QED BY <2>2, <2>3, <2>4, <2>5
<1>3. CASE Requeue(x)
  <2>1. PICK row \in Row : /\ Leaves(x, row) /\ row.pc # "handle"
                           /\ Range(base') \cup Range(row.items) = Range(base) \cup Range(exec[x].items)
    BY <1>0, <1>3, RequeueLeaves
  <2>2. exec[x].pc = "requeue" /\ UNCHANGED lost
    BY <1>3 DEF Requeue
  <2>3. PICK rest : Hands = rest \cup Range(exec[x].items) /\ Hands' = rest \cup Range(row.items) /\ Calls' = Calls
    BY <1>2, <2>1, <2>2
  <2>4. Pending' = Pending
    BY <1>0, <2>1, <2>3, PendingIs
  <2> QED BY <2>2, <2>3, <2>4 DEF Stays
<1>4. CASE RequeueForShutdown(x)
  <2>1. PICK row \in Row :
           /\ Leaves(x, row) /\ row.pc # "handle"
           /\ \/ /\ Range(base') \cup Range(row.items) = Range(base) \cup Range(exec[x].items)
                 /\ lost' = lost
              \/ \E i \in Item : /\ Range(exec[x].items) = {i} \cup Range(row.items)
                                 /\ base' = base /\ lost' = lost \cup {i}
    BY <1>0, <1>4, RequeueForShutdownLeaves
  <2>2. exec[x].pc = "base push"
    BY <1>4 DEF RequeueForShutdown
  <2>3. PICK rest : Hands = rest \cup Range(exec[x].items) /\ Hands' = rest \cup Range(row.items) /\ Calls' = Calls
    BY <1>2, <2>1, <2>2
  <2>4. CASE Range(base') \cup Range(row.items) = Range(base) \cup Range(exec[x].items) /\ lost' = lost
    <3>1. Pending' = Pending
      BY <1>0, <2>3, <2>4, PendingIs
    <3> QED BY <2>3, <2>4, <3>1 DEF Stays
  <2>5. ASSUME NEW i \in Item, Range(exec[x].items) = {i} \cup Range(row.items),
               base' = base /\ lost' = lost \cup {i}
        PROVE  Promise!Next
    <3>1. i \in Pending /\ Pending \ {i} \subseteq Pending' /\ Pending' \subseteq Pending
      BY <1>0, <2>3, <2>5, PendingIs
    <3>2. Promise!GiveUp(i)
      BY <2>3, <2>5, <3>1 DEF Promise!GiveUp, Promise!Remain, Calls
    <3> QED BY <3>2 DEF Promise!Next
  <2> QED BY <2>1, <2>4, <2>5
<1> QED BY <1>1, <1>3, <1>4 DEF HandleStep

(* The steps that move items between the goroutines, and the rest.         *)
LEMMA OtherPromise ==
  ASSUME Inv,
         \/ (\E i \in Item : Push(i)) \/ (\E n \in MaxNums : SetWorkerMaxNumber(n)) \/ Cancel \/ PopperStep
         \/ ReceiveItem \/ TimerFires \/ FlushRequested \/ DispatchNothing \/ DispatchFull \/ SendStopped
         \/ FlushStop \/ FlushWait \/ FlushEnd \/ ShutdownStep \/ (\E w \in Worker : WorkerEnds(w))
         \/ UNCHANGED vars
  PROVE  Promise!Next \/ Stays
<1>0. /\ exec \in [Executor -> Row] /\ base \in Seq(Item) /\ buffer \in Seq(Item) /\ held \in Seq(Item)
      /\ popper.items \in Seq(Item) /\ Range(<<>>) = {} /\ \A w \in Worker : w \in Executor
  <2>1. popper.items \in {<<>>} \cup {<<i>> : i \in Item}
    BY DEF Inv, TypeOK
  <2>2. <<>> \in Seq(Item) /\ \A i \in Item : <<i>> \in Seq(Item)
    BY EmptySeq, OneRange
  <2> QED BY <2>1, <2>2, EmptyRange DEF Inv, TypeOK, Row, Executor
<1>1. ASSUME UNCHANGED <<Hands, Calls, lost>>,
             Range(base) \cup Range(popper.items) \cup Range(buffer) \cup Range(held)
               = Range(base') \cup Range(popper.items') \cup Range(buffer') \cup Range(held')
      PROVE  Stays
  BY <1>1, PendingIs DEF Stays
<1>2. CASE UNCHANGED <<base, popper, buffer, held, exec, lost>>
  BY <1>1, <1>2, HandsStay
<1>3. ASSUME NEW i \in Item, Push(i)
      PROVE  Promise!Next
  <2>1. Range(base') = Range(base) \cup {i}
    BY <1>0, <1>3, PushItemAdds DEF Push
  <2>2. UNCHANGED <<popper, buffer, held, lost, Hands, Calls>>
    BY <1>3, HandsStay DEF Push
  <2>3. Pending' = Pending \cup {i}
    BY <2>1, <2>2, PendingIs
  <2>4. Promise!Push(i)
    BY <2>2, <2>3 DEF Promise!Push, Calls
  <2> QED BY <2>4 DEF Promise!Next
<1>4. CASE PopItem
  <2>1. /\ base # <<>> /\ base' = Tail(base) /\ popper' = [pc |-> "send", items |-> <<Head(base)>>]
        /\ popper.pc = "pop" /\ UNCHANGED <<buffer, held, lost, Hands, Calls>>
    BY <1>4, HandsStay DEF PopItem
  <2>2. popper.items = <<>>
    BY <2>1 DEF Inv, PopperHolds
  <2>3. Head(base) \in Item /\ Range(base) = {Head(base)} \cup Range(Tail(base))
    BY <1>0, <2>1, SplitRange
  <2>4. popper'.items = <<Head(base)>> /\ Range(<<Head(base)>>) = {Head(base)}
    BY <2>1, <2>3, OneRange
  <2> QED BY <1>0, <1>1, <2>1, <2>2, <2>3, <2>4
<1>5. CASE ReceiveItem
  <2>1. buffer' = buffer \o popper.items /\ popper'.items = <<>> /\ UNCHANGED <<base, held, lost, Hands, Calls>>
    BY <1>5, HandsStay DEF ReceiveItem, Received
  <2>2. Range(buffer \o popper.items) = Range(buffer) \cup Range(popper.items)
    BY <1>0, RangeConcatenation
  <2> QED BY <1>0, <1>1, <2>1, <2>2
<1>6. CASE DrainItem
  <2>1. held' = held \o popper.items /\ popper'.items = <<>> /\ UNCHANGED <<base, buffer, lost, Hands, Calls>>
    BY <1>6, HandsStay DEF DrainItem, Received
  <2>2. Range(held \o popper.items) = Range(held) \cup Range(popper.items)
    BY <1>0, RangeConcatenation
  <2> QED BY <1>0, <1>1, <2>1, <2>2
<1>7. CASE Return
  <2>1. held' = buffer /\ buffer' = <<>> /\ held = <<>> /\ UNCHANGED <<base, popper, lost, Hands, Calls>>
    BY <1>7, HandsStay DEF Return, Inv, HeldWhere
  <2> QED BY <1>0, <1>1, <2>1
<1>8. CASE SendStopped
  <2>1. buffer' = held /\ held' = <<>> /\ buffer = <<>> /\ UNCHANGED <<base, popper, lost, Hands, Calls>>
    BY <1>8, HandsStay DEF SendStopped, TakenBack, Inv, HeldWhere
  <2> QED BY <1>0, <1>1, <2>1
<1>9. Absent \in Row /\ Waiting \in Row /\ \A row \in {Absent, Waiting} : HandOf(row) = {} /\ CallOf(row) = {}
  BY RowTypes DEF HandOf, CallOf, Absent, Waiting
<1>10. ASSUME NEW w \in Worker, NEW row \in {Absent, Waiting}, exec[w] \in {Absent, Waiting}, Sets(w, row)
       PROVE  UNCHANGED <<Hands, Calls>>
  <2>1. /\ \E rest : Hands = rest \cup HandOf(exec[w]) /\ Hands' = rest \cup HandOf(row)
        /\ Calls' = [Calls EXCEPT ![w] = CallOf(row)] /\ Calls[w] = CallOf(exec[w])
    BY <1>0, <1>9, <1>10, HandsMove
  <2>2. Hands' = Hands
    BY <1>9, <1>10, <2>1
  <2>3. Calls' = Calls
    BY <1>9, <1>10, <2>1 DEF Calls
  <2> QED BY <2>2, <2>3
<1>11. CASE DispatchFull
  <2>1. held' = buffer /\ buffer' = <<>> /\ held = <<>> /\ UNCHANGED <<base, popper, lost>>
    BY <1>11 DEF DispatchFull, Dispatching, Inv, HeldWhere
  <2>2. UNCHANGED <<Hands, Calls>>
    <3>1. CASE UNCHANGED exec
      BY <3>1, HandsStay
    <3>2. CASE ~UNCHANGED exec
      <4>1. PICK w \in Worker : exec[w] = Absent /\ Sets(w, Waiting)
        BY <1>11, <3>2 DEF DispatchFull, Sets
      <4> QED BY <1>10, <4>1
    <3> QED BY <3>1, <3>2
  <2> QED BY <1>0, <1>1, <2>1, <2>2
<1>12. ASSUME NEW w \in Worker, WorkerEnds(w)
       PROVE  Stays
  <2>1. exec[w] = Waiting /\ Sets(w, Absent) /\ UNCHANGED <<base, popper, buffer, held, lost>>
    BY <1>12 DEF WorkerEnds, Sets
  <2>2. UNCHANGED <<Hands, Calls>>
    BY <1>10, <2>1
  <2> QED BY <1>1, <2>1, <2>2
<1>13. CASE PushBack
  <2>1. /\ held # <<>> /\ BasePush(Head(held)) /\ held' = Tail(held)
        /\ UNCHANGED <<popper, buffer, Hands, Calls>>
    BY <1>13, HandsStay DEF PushBack
  <2>2. PICK i \in Item : i = Head(held) /\ Range(held) = {i} \cup Range(Tail(held))
    BY <1>0, <2>1, SplitRange
  <2>3. \/ Range(base') = Range(base) \cup {i} /\ lost' = lost
        \/ base' = base /\ lost' = lost \cup {i}
    BY <2>1, <2>2, BasePushAdds DEF Inv
  <2>4. CASE Range(base') = Range(base) \cup {i} /\ lost' = lost
    BY <1>1, <2>1, <2>2, <2>4
  <2>5. CASE base' = base /\ lost' = lost \cup {i}
    <3>1. i \in Pending /\ Pending \ {i} \subseteq Pending' /\ Pending' \subseteq Pending
      BY <2>1, <2>2, <2>5, PendingIs
    <3>2. Promise!GiveUp(i)
      BY <2>1, <2>5, <3>1 DEF Promise!GiveUp, Promise!Remain, Calls
    <3> QED BY <3>2 DEF Promise!Next
  <2> QED BY <2>3, <2>4, <2>5
<1>14. CASE \/ (\E n \in MaxNums : SetWorkerMaxNumber(n)) \/ Cancel
            \/ TimerFires \/ FlushRequested \/ DispatchNothing \/ FlushStop \/ FlushWait \/ FlushEnd
            \/ DrainEnd \/ ShutdownDone \/ UNCHANGED vars
  <2>1. UNCHANGED <<base, popper, buffer, held, exec, lost>>
    BY <1>14 DEF SetWorkerMaxNumber, Cancel, TimerFires, FlushRequested, DispatchNothing,
                 FlushStop, FlushWait, FlushEnd, DrainEnd, ShutdownDone, vars
  <2> QED BY <1>2, <2>1
<1>15. CASE PopperEnds
  <2>1. UNCHANGED <<base, buffer, held, exec, lost>> /\ popper'.items = popper.items
    BY <1>15 DEF PopperEnds, Inv, TypeOK
  <2> QED BY <1>1, <2>1, HandsStay
<1> QED BY <1>3, <1>4, <1>5, <1>6, <1>7, <1>8, <1>11, <1>12, <1>13, <1>14, <1>15 DEF PopperStep, ShutdownStep

LEMMA StepKeepsPromise == Inv /\ [Next]_vars => Promise!Next \/ Stays
<1> SUFFICES ASSUME Inv, [Next]_vars PROVE Promise!Next \/ Stays
  OBVIOUS
<1>1. PICK v \in Worker : TRUE
  BY WorkerExists
<1>2. ASSUME NEW w \in Worker, DispatchToWaiting(w) \/ SendToWorker(w) \/ SendFlushed \/ FlushItem
      PROVE  Promise!Next
  BY <1>2, DispatchPromise
<1>3. ASSUME NEW x \in Executor, HandleStep(x)
      PROVE  Promise!Next \/ Stays
  BY <1>3, HandlePromise
<1> QED BY <1>1, <1>2, <1>3, OtherPromise
        DEF Next, MainStep, DispatchStep, FlushStep, FlushReceived, WorkerStep, WorkerStops, WorkerIdles, Executor

(* The pool implements the promise: through batching, worker starts and    *)
(* ends, flushes, requeueing and shutdown, no accepted item disappears     *)
(* without a call of the handler or a report of its loss.                  *)
THEOREM PoolKeepsPromise == Spec => KeepsPromise
<1>1. Init => Promise!Init
  <2> SUFFICES ASSUME Init PROVE Promise!Init
    OBVIOUS
  <2>1. \A x \in Executor : InHand(x) = {} /\ InCall(x) = {}
    <3>1. Absent.pc = "none"
      BY DEF Absent
    <3>2. \A x \in Executor : exec[x].pc = "none"
      BY <3>1 DEF Init
    <3> QED BY <3>2 DEF InHand, InCall
  <2>2. Pending = {}
    BY <2>1, EmptyRange DEF Init, Pending
  <2> QED BY <2>1, <2>2 DEF Init, Promise!Init
<1>2. Inv /\ [Next]_vars => [Promise!Next]_<<Pending, [x \in Executor |-> InCall(x)], lost>>
  BY StepKeepsPromise DEF Stays, Calls
<1> QED BY <1>1, <1>2, Invariance, PTL DEF Spec, KeepsPromise, Promise!Spec

(* Between the end of its context and a shutdown that ends in time, every  *)
(* pending item enters a call, is reported as lost or stays pending; at the*)
(* end those that stayed are all in the base queue, with no worker alive.  *)
THEOREM ShutdownKeeps == Spec => ShutdownKeepsItems
<1>1. ASSUME Inv, main = "done"
      PROVE  Pending = Range(base) /\ Alive = {}
  <2>1. buffer = <<>> /\ held = <<>> /\ popper.pc = "closed" /\ Alive = {}
    BY <1>1 DEF Inv, ShutdownWhere, HeldWhere
  <2>2. popper.items = <<>>
    BY <1>1, <2>1 DEF Inv, PopperHolds
  <2>3. exec[DoRun] = Absent
    BY <1>1 DEF Inv, DoRunHandles
  <2>4. \A x \in Executor : exec[x] = Absent
    BY <2>1, <2>3 DEF Executor, Alive
  <2>5. \A x \in Executor : InHand(x) = {}
    <3>1. Absent.pc = "none"
      BY DEF Absent
    <3>2. \A x \in Executor : exec[x].pc = "none"
      BY <2>4, <3>1
    <3> QED BY <3>2 DEF InHand
  <2> QED BY <2>1, <2>2, <2>5, EmptyRange DEF Pending
<1> DEFINE Safe == \A i \in Pending : i \in Pending' \cup lost' \/ \E x \in Executor : i \in InCall(x)'
<1>2. ASSUME Inv, [Next]_vars
      PROVE  Safe
  <2>1. CASE Stays
    BY <2>1 DEF Stays
  <2>2. CASE \E i \in Item : Promise!Push(i)
    BY <2>2 DEF Promise!Push
  <2>3. CASE \E i \in Item : Promise!GiveUp(i)
    BY <2>3 DEF Promise!GiveUp, Promise!Remain
  <2>4. ASSUME NEW x \in Executor, NEW S \in SUBSET Item, Promise!Call(x, S)
        PROVE  Safe
    <3>1. Pending \ S \subseteq Pending' /\ Calls' = [Calls EXCEPT ![x] = S]
      BY <2>4 DEF Promise!Call, Promise!Remain, Calls
    <3>2. Calls'[x] = S
      BY <3>1 DEF Calls
    <3>3. Calls'[x] = InCall(x)'
      BY DEF Calls
    <3> QED BY <3>1, <3>2, <3>3
  <2>5. ASSUME NEW x \in Executor, NEW S \in SUBSET Item, Promise!Return(x, S)
        PROVE  Safe
    BY <2>5 DEF Promise!Return
  <2>6. Promise!Next \/ Stays
    BY <1>2, StepKeepsPromise
  <2> QED BY <2>1, <2>2, <2>3, <2>4, <2>5, <2>6 DEF Promise!Next
<1>3. Inv => (main = "done" => Pending = Range(base) /\ Alive = {})
  BY <1>1
<1>4. Inv /\ [Next]_vars => [~ctxRun => Safe]_vars
  BY <1>2
<1> QED BY <1>3, <1>4, Invariance, PTL DEF Spec, ShutdownKeepsItems
=============================================================================
