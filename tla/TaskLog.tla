------------------------------ MODULE TaskLog ------------------------------
(* The log of one task on its way from the runner to the storage:          *)
(* routers/api/actions/runner.UpdateLog, modules/actions/log.go over       *)
(* models/dbfs, and the archiving that stopTasks of                        *)
(* services/actions/clear_tasks.go does on its own.                        *)
(*                                                                         *)
(* Row k of the log starts where the first k - 1 rows end, whoever writes  *)
(* it, so a file is told by how many rows it holds.  A write reads the     *)
(* size and the last block, then saves them: two steps.                    *)
EXTENDS Integers

CONSTANTS
  Call,       \* UpdateLog calls that the server may work on at a time
  MaxRows,    \* rows that the task logs
  Budgets     \* functions [Event -> Nat]

VARIABLES
  task,       \* action_task: log_length and log_in_storage
  file,       \* rows of the dbfs file, or Absent
  archive,    \* rows of the file in the storage, or Absent
  call,       \* the calls, each with its copy of the row
  runner,     \* external: the reporter of act_runner
  sweep,      \* where stopTasks is with this task
  swept,      \* history: whether the task has been swept
  overlap,    \* history: whether two writers of the log have overlapped
  left        \* what is left of the budget

vars == <<task, file, archive, call, runner, sweep, swept, overlap, left>>

Event == {"lose", "fail", "crash", "sweep"}
Absent == -1
Length == Absent .. MaxRows
NoCall == "none"

ASSUME RowsAssumption == MaxRows \in Nat /\ NoCall \notin Call
ASSUME BudgetsAssumption == Budgets \subseteq [Event -> Nat]

CallRow == [pc : {"idle", "read", "open", "save", "transfer", "update", "remove", "ack"},
            index : 0..MaxRows, upto : 0..MaxRows, noMore : BOOLEAN, len : 0..MaxRows, view : 0..MaxRows]
RunnerRow == [rows : 0..MaxRows, offset : 0..MaxRows, closing : BOOLEAN, done : BOOLEAN,
              busy : Call \cup {NoCall}]

TypeOK ==
  /\ task \in [len : 0..MaxRows, stored : BOOLEAN]
  /\ file \in Length /\ archive \in Length
  /\ call \in [Call -> CallRow]
  /\ runner \in RunnerRow
  /\ sweep \in {"idle", "transfer", "mark", "remove"}
  /\ swept \in BOOLEAN /\ overlap \in BOOLEAN
  /\ left \in [Event -> Nat]

IdleCall == [pc |-> "idle", index |-> 0, upto |-> 0, noMore |-> FALSE, len |-> 0, view |-> 0]
Init ==
  /\ task = [len |-> 0, stored |-> FALSE]
  /\ file = Absent /\ archive = Absent
  /\ call = [c \in Call |-> IdleCall]
  /\ runner = [rows |-> 0, offset |-> 0, closing |-> FALSE, done |-> FALSE, busy |-> NoCall]
  /\ sweep = "idle" /\ swept = FALSE /\ overlap = FALSE
  /\ left \in Budgets

Spend(e) == left[e] > 0 /\ left' = [left EXCEPT ![e] = @ - 1]
-----------------------------------------------------------------------------
(* The runner logs rows until it closes; it sends what is not acknowledged *)
(* yet, one call at a time, and does not close before all of it is.        *)
Log ==
  /\ ~runner.closing /\ runner.rows < MaxRows
  /\ runner' = [runner EXCEPT !.rows = @ + 1]
  /\ UNCHANGED <<task, file, archive, call, sweep, swept, overlap, left>>

Close ==
  /\ ~runner.closing
  /\ runner' = [runner EXCEPT !.closing = TRUE]
  /\ UNCHANGED <<task, file, archive, call, sweep, swept, overlap, left>>

Send(c) ==
  /\ call[c].pc = "idle" /\ runner.busy = NoCall /\ ~runner.done
  /\ runner.closing \/ runner.rows > runner.offset
  /\ call' = [call EXCEPT ![c] = [IdleCall EXCEPT !.pc = "read", !.index = runner.offset,
                                                  !.upto = runner.rows, !.noMore = runner.closing]]
  /\ runner' = [runner EXCEPT !.busy = c]
  /\ UNCHANGED <<task, file, archive, sweep, swept, overlap, left>>

(* The connection breaks while the server goes on; the runner will retry.  *)
Lose ==
  /\ runner.busy # NoCall /\ Spend("lose")
  /\ runner' = [runner EXCEPT !.busy = NoCall]
  /\ UNCHANGED <<task, file, archive, call, sweep, swept, overlap>>

Hangup(c) == runner' = IF runner.busy = c THEN [runner EXCEPT !.busy = NoCall] ELSE runner
Return(c) == call' = [call EXCEPT ![c] = IdleCall] /\ Hangup(c)
Goes(c, pc) == call' = [call EXCEPT ![c].pc = pc] /\ UNCHANGED runner
-----------------------------------------------------------------------------
(* UpdateLog reads the row; what it has already is acknowledged, whether   *)
(* the log is archived or not.                                             *)
Writing(c) == call[c].pc \in {"open", "save", "transfer", "update"}
NothingNew(c) == call[c].upto = call[c].index \/ call[c].index > task.len \/ call[c].upto <= task.len
MutantUpdateLog(c) ==  \* refuses an archived log before it looks at the rows
  /\ call[c].pc = "read"
  /\ \/ task.stored /\ Return(c) /\ UNCHANGED overlap
     \/ /\ ~task.stored /\ NothingNew(c)
        /\ call' = [call EXCEPT ![c].pc = "ack", ![c].len = task.len]
        /\ UNCHANGED <<runner, overlap>>
     \/ /\ ~task.stored /\ ~NothingNew(c)
        /\ call' = [call EXCEPT ![c].pc = "open", ![c].len = task.len]
        /\ overlap' = (overlap \/ sweep # "idle" \/ \E d \in Call : Writing(d))
        /\ UNCHANGED runner
  /\ UNCHANGED <<task, file, archive, sweep, swept, left>>
UpdateLog(c) ==
  /\ call[c].pc = "read"
  /\ \/ /\ NothingNew(c)
        /\ call' = [call EXCEPT ![c].pc = "ack", ![c].len = task.len]
        /\ UNCHANGED <<runner, overlap>>
     \/ ~NothingNew(c) /\ task.stored /\ Return(c) /\ UNCHANGED overlap
     \/ /\ ~NothingNew(c) /\ ~task.stored
        /\ call' = [call EXCEPT ![c].pc = "open", ![c].len = task.len]
        /\ overlap' = (overlap \/ sweep # "idle" \/ \E d \in Call : Writing(d))
        /\ UNCHANGED runner
  /\ UNCHANGED <<task, file, archive, sweep, swept, left>>

(* WriteLogs creates the file for the first row only, and refuses one that *)
(* is shorter than the row says.                                           *)
MutantSize(f) == f  \* does not create the file
Size(f) == IF f = Absent THEN 0 ELSE f
CanWrite(len) == IF file = Absent THEN len = 0 ELSE file >= len
WriteLogs(c) ==
  /\ call[c].pc = "open"
  /\ \/ /\ CanWrite(call[c].len)
        /\ file' = Size(file)
        /\ call' = [call EXCEPT ![c].pc = "save", ![c].view = Size(file)]
        /\ UNCHANGED runner
     \/ ~CanWrite(call[c].len) /\ Return(c) /\ UNCHANGED file
  /\ UNCHANGED <<task, archive, sweep, swept, overlap, left>>

(* The rows go after the first log_length ones; a file that has been       *)
(* removed meanwhile takes them without an error.                          *)
Written(c) == IF call[c].upto > call[c].view THEN call[c].upto ELSE call[c].view
WriteFile(c) ==
  /\ call[c].pc = "save"
  /\ file' = IF file = Absent THEN Absent ELSE Written(c)
  /\ Goes(c, IF call[c].noMore THEN "transfer" ELSE "update")
  /\ UNCHANGED <<task, archive, sweep, swept, overlap, left>>

(* TransferLogs copies the file; the caller removes it later.              *)
MutantTransferLogs(c) ==  \* removes it at once
  /\ call[c].pc = "transfer"
  /\ IF file = Absent THEN Return(c) /\ UNCHANGED <<archive, file>>
                      ELSE archive' = file /\ file' = Absent /\ Goes(c, "update")
  /\ UNCHANGED <<task, sweep, swept, overlap, left>>
TransferLogs(c) ==
  /\ call[c].pc = "transfer"
  /\ IF file = Absent THEN Return(c) /\ UNCHANGED archive
                      ELSE archive' = file /\ Goes(c, "update")
  /\ UNCHANGED <<task, file, sweep, swept, overlap, left>>

UpdateTask(c) ==
  /\ call[c].pc = "update"
  /\ task' = [len |-> call[c].upto, stored |-> call[c].noMore]
  /\ call' = [call EXCEPT ![c].pc = IF call[c].noMore THEN "remove" ELSE "ack", ![c].len = call[c].upto]
  /\ UNCHANGED <<file, archive, runner, sweep, swept, overlap, left>>

Remove(c) ==
  /\ call[c].pc = "remove"
  /\ file' = Absent
  /\ Goes(c, "ack")
  /\ UNCHANGED <<task, archive, sweep, swept, overlap, left>>

(* The runner drops what is acknowledged; one that closes is done when all *)
(* of it is, and never goes back behind what was acknowledged before.      *)
Ack(c) ==
  LET ack == call[c].len IN
  /\ call[c].pc = "ack"
  /\ call' = [call EXCEPT ![c] = IdleCall]
  /\ runner' = IF runner.busy # c THEN runner
               ELSE [runner EXCEPT !.busy = NoCall,
                                   !.offset = IF ack < @ THEN @ ELSE ack,
                                   !.done = call[c].noMore /\ ack >= runner.rows]
  /\ UNCHANGED <<task, file, archive, sweep, swept, overlap, left>>

(* The database or the storage fails a call somewhere.                     *)
Fail(c) ==
  /\ call[c].pc # "idle" /\ Spend("fail")
  /\ Return(c)
  /\ UNCHANGED <<task, file, archive, sweep, swept, overlap>>
-----------------------------------------------------------------------------
(* stopTasks, for a task that has run too long or not reported for long:   *)
(* it archives the log as UpdateLog does, but saves log_in_storage only.   *)
SweepBegins ==
  /\ sweep = "idle" /\ Spend("sweep")
  /\ sweep' = "transfer"
  /\ swept' = TRUE
  /\ overlap' = (overlap \/ \E c \in Call : Writing(c))
  /\ UNCHANGED <<task, file, archive, call, runner>>

SweepTransfers ==
  /\ sweep = "transfer"
  /\ IF file = Absent THEN sweep' = "idle" /\ UNCHANGED archive
                      ELSE sweep' = "mark" /\ archive' = file
  /\ UNCHANGED <<task, file, call, runner, swept, overlap, left>>

SweepMarks ==
  /\ sweep = "mark"
  /\ task' = [task EXCEPT !.stored = TRUE]
  /\ sweep' = "remove"
  /\ UNCHANGED <<file, archive, call, runner, swept, overlap, left>>

SweepRemoves ==
  /\ sweep = "remove"
  /\ file' = Absent
  /\ sweep' = "idle"
  /\ UNCHANGED <<task, archive, call, runner, swept, overlap, left>>

Crash ==
  /\ Spend("crash")
  /\ call' = [c \in Call |-> IdleCall]
  /\ runner' = [runner EXCEPT !.busy = NoCall]
  /\ sweep' = "idle"
  /\ UNCHANGED <<task, file, archive, swept, overlap>>

Serve(c) ==
  \/ UpdateLog(c) \/ WriteLogs(c) \/ WriteFile(c) \/ TransferLogs(c) \/ UpdateTask(c) \/ Remove(c) \/ Ack(c)

Sweep == SweepTransfers \/ SweepMarks \/ SweepRemoves

Next ==
  \/ Log \/ Close \/ Lose
  \/ \E c \in Call : Send(c) \/ Serve(c) \/ Fail(c)
  \/ SweepBegins \/ Sweep \/ Crash

Spec == Init /\ [][Next]_vars

(* Calls are served, the sweep goes on, and a runner closes in the end and *)
(* retries what was not acknowledged.                                      *)
FairSpec ==
  /\ Spec
  /\ WF_vars(Close) /\ WF_vars(\E c \in Call : Send(c)) /\ WF_vars(Sweep)
  /\ \A c \in Call : WF_vars(Serve(c))
-----------------------------------------------------------------------------
(* What the server says it has can be read where the row says it is.       *)
Readable == Size(IF task.stored THEN archive ELSE file)
LogsAreStored == runner.offset <= task.len /\ task.len <= Readable

(* No acknowledged row is lost by retries, late calls, failures between    *)
(* any two steps, crashes or sweeps, unless two writers overlap: a retry   *)
(* or a sweep that begins while the server still works on a call.          *)
RowsAreKept == ~overlap => LogsAreStored

(* Every row is acknowledged in the end, also if the answer to the call    *)
(* that archived them was lost, unless the task is swept or writers        *)
(* overlap.                                                                *)
UploadEnds == <>(swept \/ overlap \/ (runner.done /\ runner.offset = runner.rows))
=============================================================================
