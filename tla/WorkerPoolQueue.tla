-------------------------- MODULE WorkerPoolQueue --------------------------
(***************************************************************************)
(* WorkerPoolQueue (modules/queue) over a unique base queue whose PushItem *)
(* and PopItem are atomic (levelqueue and redis hold a mutex).  Processes: *)
(* the goroutine of popItemByChan, doRun, the workers, and the callers of  *)
(* Push, FlushWithContext, SetWorkerMaxNumber and Cancel.                  *)
(*                                                                         *)
(* All channels are unbuffered: a send and its receive are one step, and a *)
(* sender that does not find the receiver waiting takes its default case.  *)
(***************************************************************************)
EXTENDS Integers, Sequences, FiniteSets, Functions

CONSTANTS
  Item,        \* what is pushed
  Length,      \* capacity of the base queue
  BatchLength, \* items per batch
  MaxNums,     \* the values of workerMaxNum
  MaxPushes,   \* bound on the pushes of the producers
  Contended,   \* other producers may take whatever room the base queue has
  Flushes,     \* somebody flushes the queue
  Worker       \* worker goroutines

ASSUME SizeAssumption == Length \in Nat \ {0} /\ BatchLength \in Nat \ {0} /\ MaxPushes \in Nat /\ Contended \in BOOLEAN /\ Flushes \in BOOLEAN
ASSUME WorkerAssumption ==
  MaxNums \subseteq Nat /\ IsFiniteSet(Worker) /\ "doRun" \notin Worker /\ \A n \in MaxNums \cup {1} : n <= Cardinality(Worker)

DoRun == "doRun"
Executor == Worker \cup {DoRun}  \* who calls the handler: doFlush does it itself

VARIABLES
  base,       \* the base queue: a sequence of items
  popper,     \* the goroutine of popItemByChan: [pc, items], with the item it holds
  main,       \* where doRun is
  buffer,     \* wg.batchBuffer
  held,       \* the batch doRun dispatches or, at the end, the items to push back
  timer,      \* batchDispatchC is armed
  exec,       \* [Executor -> [pc, items]]: doWorkerHandle and the worker's loop
  ctxWorker,  \* the workers' context is alive
  workerNum, workerMaxNum,
  ctxRun,     \* the queue's context is alive
  lost,       \* items logged as failed to requeue
  pushes      \* how many more items are pushed

vars == <<base, popper, main, buffer, held, timer, exec, ctxWorker, workerNum, workerMaxNum, ctxRun, lost, pushes>>

Absent == [pc |-> "none", items |-> <<>>]
Waiting == [pc |-> "select", items |-> <<>>]
Handling(batch) == [pc |-> "handle", items |-> batch]
Alive == {w \in Worker : exec[w] # Absent}

Init ==
  /\ base = <<>> /\ buffer = <<>> /\ held = <<>> /\ lost = {}
  /\ popper = [pc |-> "pop", items |-> <<>>]
  /\ main = "loop" /\ timer = FALSE
  /\ exec = [x \in Executor |-> Absent]
  /\ ctxWorker = TRUE /\ ctxRun = TRUE
  /\ workerNum = 0 /\ workerMaxNum \in MaxNums
  /\ pushes = MaxPushes

-----------------------------------------------------------------------------
(* PushItem of a unique base queue: a full queue is waited for, until the  *)
(* timeout; an item that is queued already is not queued again, an error.  *)
MutantRoom == Len(base) <= Length  \* off by one
Room == Len(base) < Length

(* The popper makes room at once, unless it has ended or doRun does not    *)
(* take the item it offers: doRun waits for a worker to take its batch, in *)
(* a flush for the workers to end, or is itself in a call of the handler.  *)
(* So the base queue stays full until a timeout only when the popper is    *)
(* held up, or when other producers fill it again each time.               *)
HeldUp ==
  \/ popper.pc = "closed"
  \/ /\ popper.pc = "send"
     /\ \/ main \in {"send", "flush send"} /\ ctxRun /\ \A w \in Worker : exec[w] # Waiting
        \/ main = "flush wait" /\ Alive # {}
        \/ exec[DoRun] # Absent
TimesOut == ~Room /\ (Contended \/ HeldUp)
PushItem(i) == base' = IF i \in Range(base) THEN base ELSE Append(base, i)

(* Push of a producer; when it times out it returns an error.              *)
Push(i) ==
  /\ ctxRun /\ Room /\ PushItem(i)
  /\ pushes > 0 /\ pushes' = pushes - 1
  /\ UNCHANGED <<popper, main, buffer, held, timer, exec, ctxWorker, workerNum, workerMaxNum, ctxRun, lost>>

SetWorkerMaxNumber(n) ==
  /\ workerMaxNum' = n
  /\ UNCHANGED <<base, popper, main, buffer, held, timer, exec, ctxWorker, workerNum, ctxRun, lost, pushes>>

Cancel ==
  /\ ctxRun /\ ctxRun' = FALSE
  /\ UNCHANGED <<base, popper, main, buffer, held, timer, exec, ctxWorker, workerNum, workerMaxNum, lost, pushes>>

-----------------------------------------------------------------------------
(* popItemByChan: PopItem looks at the context before it tries to take an  *)
(* item, so that it may still take one when the context is canceled.       *)
PopItem ==
  /\ popper.pc = "pop" /\ base # <<>>
  /\ popper' = [pc |-> "send", items |-> <<Head(base)>>]
  /\ base' = Tail(base)
  /\ UNCHANGED <<main, buffer, held, timer, exec, ctxWorker, workerNum, workerMaxNum, ctxRun, lost, pushes>>

PopperEnds ==
  /\ popper.pc = "pop" /\ ~ctxRun
  /\ popper' = [popper EXCEPT !.pc = "closed"]
  /\ UNCHANGED <<base, main, buffer, held, timer, exec, ctxWorker, workerNum, workerMaxNum, ctxRun, lost, pushes>>

(* The item goes through popItemChan to doRun.                             *)
Received ==
  /\ popper.pc = "send"
  /\ popper' = [pc |-> IF ctxRun THEN "pop" ELSE "closed", items |-> <<>>]

-----------------------------------------------------------------------------
(*                                  doRun                                  *)

ReceiveItem ==
  /\ main = "loop" /\ Received
  /\ buffer' = buffer \o popper.items
  /\ IF Len(buffer') >= BatchLength
       THEN main' = "dispatch" /\ UNCHANGED timer
       ELSE timer' = TRUE /\ UNCHANGED main
  /\ UNCHANGED <<base, held, exec, ctxWorker, workerNum, workerMaxNum, ctxRun, lost, pushes>>

TimerFires ==
  /\ main = "loop" /\ timer
  /\ timer' = FALSE /\ main' = "dispatch"
  /\ UNCHANGED <<base, popper, buffer, held, exec, ctxWorker, workerNum, workerMaxNum, ctxRun, lost, pushes>>

FlushRequested ==
  /\ Flushes /\ main = "loop" /\ main' = "flush dispatch"
  /\ UNCHANGED <<base, popper, buffer, held, timer, exec, ctxWorker, workerNum, workerMaxNum, ctxRun, lost, pushes>>

(* doDispatchBatchToWorker, up to the end of its critical section.  The    *)
(* batch finds a worker waiting, or a new worker is started if there may   *)
(* be one more; a worker between two rounds of its loop is not waiting.    *)
Dispatching == main \in {"dispatch", "flush dispatch"}
Dispatched == main' = IF main \in {"dispatch", "send"} THEN "loop" ELSE "flush stop"

DispatchNothing ==
  /\ Dispatching /\ buffer = <<>> /\ Dispatched
  /\ UNCHANGED <<base, popper, buffer, held, timer, exec, ctxWorker, workerNum, workerMaxNum, ctxRun, lost, pushes>>

DispatchToWaiting(w) ==
  /\ Dispatching /\ buffer # <<>> /\ exec[w] = Waiting /\ Dispatched
  /\ exec' = [exec EXCEPT ![w] = Handling(buffer)]
  /\ buffer' = <<>>
  /\ UNCHANGED <<base, popper, held, timer, ctxWorker, workerNum, workerMaxNum, ctxRun, lost, pushes>>

MutantMayStart == workerNum < workerMaxNum  \* no worker at all when the maximum is 0
MayStart == workerNum < workerMaxNum \/ (workerNum = 0 /\ workerMaxNum = 0)
DispatchFull ==
  /\ Dispatching /\ buffer # <<>>
  /\ held' = buffer /\ buffer' = <<>>
  /\ main' = IF main = "dispatch" THEN "send" ELSE "flush send"
  /\ \/ /\ MayStart
        /\ \E w \in Worker : exec[w] = Absent /\ exec' = [exec EXCEPT ![w] = Waiting]
        /\ workerNum' = workerNum + 1
     \/ /\ ~MayStart
        /\ UNCHANGED <<exec, workerNum>>
  /\ UNCHANGED <<base, popper, timer, ctxWorker, workerMaxNum, ctxRun, lost, pushes>>

(* Its blocking select: a worker takes the batch; a flush request makes    *)
(* doRun handle it; or the queue is stopped and takes the batch back.      *)
SendToWorker(w) ==
  /\ main \in {"send", "flush send"} /\ exec[w] = Waiting /\ Dispatched
  /\ exec' = [exec EXCEPT ![w] = Handling(held)]
  /\ held' = <<>>
  /\ UNCHANGED <<base, popper, buffer, timer, ctxWorker, workerNum, workerMaxNum, ctxRun, lost, pushes>>

SendFlushed ==
  /\ Flushes /\ main = "send" /\ main' = "flush stop"
  /\ exec' = [exec EXCEPT ![DoRun] = Handling(held)]
  /\ held' = <<>>
  /\ UNCHANGED <<base, popper, buffer, timer, ctxWorker, workerNum, workerMaxNum, ctxRun, lost, pushes>>

MutantTakenBack(batch) == <<>>  \* the batch is forgotten
TakenBack(batch) == batch
MutantSendStopped == FALSE  \* the select has no case for the canceled context
SendStopped ==
  /\ main \in {"send", "flush send"} /\ ~ctxRun /\ Dispatched
  /\ buffer' = TakenBack(held) /\ held' = <<>>
  /\ UNCHANGED <<base, popper, timer, exec, ctxWorker, workerNum, workerMaxNum, ctxRun, lost, pushes>>

(* doFlush: the workers are stopped and waited for, then doRun pops and    *)
(* handles item by item until the base queue has been seen empty, although *)
(* the popper may still hold an item.  The batch channel, which it drains  *)
(* first, holds nothing.                                                   *)
FlushStop ==
  /\ main = "flush stop" /\ exec[DoRun] = Absent
  /\ main' = "flush wait" /\ ctxWorker' = FALSE
  /\ UNCHANGED <<base, popper, buffer, held, timer, exec, workerNum, workerMaxNum, ctxRun, lost, pushes>>

FlushWait ==
  /\ main = "flush wait" /\ Alive = {}
  /\ main' = "flush"
  /\ UNCHANGED <<base, popper, buffer, held, timer, exec, ctxWorker, workerNum, workerMaxNum, ctxRun, lost, pushes>>

FlushItem ==
  /\ main = "flush" /\ exec[DoRun] = Absent /\ Received
  /\ exec' = [exec EXCEPT ![DoRun] = Handling(popper.items)]
  /\ UNCHANGED <<base, main, buffer, held, timer, ctxWorker, workerNum, workerMaxNum, ctxRun, lost, pushes>>

FlushEnd ==
  /\ main = "flush" /\ exec[DoRun] = Absent
  /\ base = <<>> \/ ~ctxRun
  /\ main' = "loop" /\ ctxWorker' = TRUE
  /\ UNCHANGED <<base, popper, buffer, held, timer, exec, workerNum, workerMaxNum, ctxRun, lost, pushes>>

(* The deferred shutdown: everything on the fly is collected, until the    *)
(* popper has closed its channel, and pushed back into the base queue.     *)
Return ==
  /\ main = "loop" /\ ~ctxRun
  /\ main' = "drain" /\ held' = buffer /\ buffer' = <<>>
  /\ UNCHANGED <<base, popper, timer, exec, ctxWorker, workerNum, workerMaxNum, ctxRun, lost, pushes>>

DrainItem ==
  /\ main = "drain" /\ Received
  /\ held' = held \o popper.items
  /\ UNCHANGED <<base, main, buffer, timer, exec, ctxWorker, workerNum, workerMaxNum, ctxRun, lost, pushes>>

MutantDrained == TRUE  \* does not wait for the popper
Drained == popper.pc = "closed"
DrainEnd ==
  /\ main = "drain" /\ Drained
  /\ main' = "push back"
  /\ UNCHANGED <<base, popper, buffer, held, timer, exec, ctxWorker, workerNum, workerMaxNum, ctxRun, lost, pushes>>

(* basePushForShutdown, item by item: when the base queue stays full, the  *)
(* item is given up.                                                       *)
BasePush(i) ==
  \/ /\ Room /\ PushItem(i)
     /\ UNCHANGED lost
  \/ /\ TimesOut /\ lost' = lost \cup ({i} \ Range(base))
     /\ UNCHANGED base

PushBack ==
  /\ main = "push back" /\ held # <<>>
  /\ BasePush(Head(held)) /\ held' = Tail(held)
  /\ UNCHANGED <<popper, main, buffer, timer, exec, ctxWorker, workerNum, workerMaxNum, ctxRun, pushes>>

(* The workers are waited for, but not longer than the shutdown timeout.   *)
ShutdownDone ==
  /\ main = "push back" /\ held = <<>>
  /\ \/ Alive = {} /\ main' = "done"
     \/ Alive # {} /\ main' = "timeout"
  /\ UNCHANGED <<base, popper, buffer, held, timer, exec, ctxWorker, workerNum, workerMaxNum, ctxRun, lost, pushes>>

-----------------------------------------------------------------------------
(*                    Workers, and doWorkerHandle                          *)

(* A worker ends when its context is canceled or the batch channel closed, *)
(* and, after a while without a batch, unless it is the last one.          *)
MutantIsLast == FALSE  \* the last worker ends as well
IsLast == workerNum <= 1
WorkerEnds(w) ==
  /\ exec[w] = Waiting
  /\ exec' = [exec EXCEPT ![w] = Absent]
  /\ workerNum' = workerNum - 1
  /\ UNCHANGED <<base, popper, main, buffer, held, timer, ctxWorker, workerMaxNum, ctxRun, lost, pushes>>
WorkerStops(w) == (~ctxWorker \/ ~ctxRun) /\ WorkerEnds(w)
WorkerIdles(w) == ~IsLast /\ WorkerEnds(w)

(* What is left to requeue; with nothing left the worker waits again.      *)
Handled(x, rest, pc) ==
  exec' = [exec EXCEPT ![x] = IF rest # <<>> THEN [pc |-> pc, items |-> rest]
                              ELSE IF x = DoRun THEN Absent ELSE Waiting]

(* The handler returns the items it could not handle, in their order; it   *)
(* returns none when it has panicked.                                      *)
Chosen(items, at) == [n \in DOMAIN at |-> items[at[n]]]
Parts(items) ==
  {Chosen(items, at) : at \in {f \in UNION {[1..n -> DOMAIN items] : n \in 0..Len(items)} :
                                 \A k, n \in DOMAIN f : k < n => f[k] < f[n]}}
HandlerReturns(x) ==
  /\ exec[x].pc = "handle"
  /\ \E unhandled \in Parts(exec[x].items) : Handled(x, unhandled, "requeue")
  /\ UNCHANGED <<base, popper, main, buffer, held, timer, ctxWorker, workerNum, workerMaxNum, ctxRun, lost, pushes>>

(* An item that is queued already is an error of Push like any other.      *)
Requeue(x) ==
  /\ exec[x].pc = "requeue"
  /\ \/ /\ ctxRun /\ Room /\ Head(exec[x].items) \notin Range(base)
        /\ PushItem(Head(exec[x].items))
        /\ Handled(x, Tail(exec[x].items), "requeue")
     \/ /\ ~ctxRun \/ TimesOut \/ (Room /\ Head(exec[x].items) \in Range(base))
        /\ exec' = [exec EXCEPT ![x].pc = "base push"]
        /\ UNCHANGED base
  /\ UNCHANGED <<popper, main, buffer, held, timer, ctxWorker, workerNum, workerMaxNum, ctxRun, lost, pushes>>

(* Push has failed: basePushForShutdown, whose timeout is never 0, tries   *)
(* once more, whether or not the queue is being shut down.                 *)
RequeueForShutdown(x) ==
  /\ exec[x].pc = "base push"
  /\ BasePush(Head(exec[x].items))
  /\ Handled(x, Tail(exec[x].items), "requeue")
  /\ UNCHANGED <<popper, main, buffer, held, timer, ctxWorker, workerNum, workerMaxNum, ctxRun, pushes>>

HandleStep(x) == HandlerReturns(x) \/ Requeue(x) \/ RequeueForShutdown(x)

PopperStep == PopItem \/ PopperEnds
DispatchStep ==
  \/ DispatchNothing \/ DispatchFull \/ SendStopped
  \/ \E w \in Worker : DispatchToWaiting(w) \/ SendToWorker(w)
FlushStep == FlushStop \/ FlushWait \/ FlushItem \/ FlushEnd
ShutdownStep == Return \/ DrainItem \/ DrainEnd \/ PushBack \/ ShutdownDone
MainStep ==
  \/ ReceiveItem \/ TimerFires
  \/ DispatchStep \/ FlushStep \/ ShutdownStep
  \/ HandleStep(DoRun)
FlushReceived == FlushRequested \/ SendFlushed  \* somebody flushes the queue
WorkerStep(w) == WorkerStops(w) \/ HandleStep(w)

Next ==
  \/ \E i \in Item : Push(i)
  \/ \E n \in MaxNums : SetWorkerMaxNumber(n)
  \/ Cancel
  \/ PopperStep
  \/ MainStep
  \/ FlushReceived
  \/ \E w \in Worker : WorkerStep(w) \/ WorkerIdles(w)

Spec == Init /\ [][Next]_vars

(* Goroutines run, and handlers return; nobody has to push, flush, cancel  *)
(* or change the maximum.  A select that has several cases ready chooses   *)
(* at random: flush requests cannot keep doRun from taking an item or from *)
(* noticing the end of its context.                                        *)
FairSpec ==
  /\ Spec
  /\ WF_vars(PopperStep) /\ WF_vars(MainStep) /\ SF_vars(ReceiveItem \/ Return)
  /\ \A w \in Worker : WF_vars(WorkerStep(w))

-----------------------------------------------------------------------------
(*                              Properties                                 *)

(* The shapes of the state; the base queue never holds more than its length*)
(* allows, whoever pushes.                                                 *)
TypeOK ==
  /\ base \in Seq(Item) /\ Len(base) <= Length
  /\ popper \in [pc : {"pop", "send", "closed"}, items : {<<>>} \cup {<<i>> : i \in Item}]
  /\ main \in {"loop", "dispatch", "send", "flush dispatch", "flush send", "flush stop", "flush wait",
               "flush", "drain", "push back", "done", "timeout"}
  /\ buffer \in Seq(Item) /\ held \in Seq(Item)
  /\ exec \in [Executor -> [pc : {"none", "select", "handle", "requeue", "base push"}, items : Seq(Item)]]
  /\ timer \in BOOLEAN /\ ctxWorker \in BOOLEAN /\ ctxRun \in BOOLEAN
  /\ workerNum \in Nat /\ workerMaxNum \in MaxNums
  /\ lost \subseteq Item /\ pushes \in Nat

(* The items for which the handler must still be called are those in the   *)
(* base queue and those that some goroutine holds.                         *)
InHand(x) == IF exec[x].pc \in {"requeue", "base push"} THEN Range(exec[x].items) ELSE {}
InCall(x) == IF exec[x].pc = "handle" THEN Range(exec[x].items) ELSE {}
Pending == Range(base) \cup Range(popper.items) \cup Range(buffer) \cup Range(held)
             \cup UNION {InHand(x) : x \in Executor}

(* The pool keeps the promise of a queue through batching, dispatching,    *)
(* worker starts and ends, flushes, requeueing and shutdown: no accepted   *)
(* item disappears without a call of the handler or a report of its loss.  *)
Promise == INSTANCE ReadyQueue WITH pending <- Pending, calls <- [x \in Executor |-> InCall(x)]
KeepsPromise == Promise!Spec

(* workerNum counts the workers, it does not go beyond the largest maximum *)
(* that was set (one worker if that is 0), and as long as the queue runs,  *)
(* no batch waits for a worker without there being one.                    *)
WorkersCounted ==
  /\ workerNum = Cardinality(Alive)
  /\ \A n \in MaxNums : (\A m \in MaxNums : m <= n) => workerNum <= IF n = 0 THEN 1 ELSE n
  /\ main \in {"send", "flush send"} /\ ctxRun => workerNum >= 1

(* While the queue shuts down, an item for which the handler must still be *)
(* called stays pending unless it enters a call or is reported as lost.    *)
(* When ShutdownWait returns in time, every item that is still pending is  *)
(* in the base queue, and no goroutine is left that could touch it.        *)
ShutdownKeepsItems ==
  /\ [](main = "done" => Pending = Range(base) /\ Alive = {})
  /\ [][~ctxRun => \A i \in Pending : i \in Pending' \cup lost' \/ \E x \in Executor : i \in InCall(x)']_vars

(* While the queue runs, every accepted item comes before the handler or   *)
(* is reported as lost.                                                    *)
EveryItemCalled ==
  \A i \in Item : i \in Pending ~> (i \in lost \/ ~ctxRun \/ \E x \in Executor : i \in InCall(x))

(* The shutdown ends.                                                      *)
ShutdownEnds == ~ctxRun ~> main \in {"done", "timeout"}

(* What the handler returns unhandled goes back to the base queue: "no item*)
(* is skipped or lost due to transient failures" (queue.go:28).  While the *)
(* queue runs, no item is given up unless another copy of it is pending.   *)
UnhandledItemsKept == [][ctxRun => \A i \in lost' \ lost : i \in Pending']_vars
=============================================================================
