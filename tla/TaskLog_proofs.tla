--------------------------- MODULE TaskLog_proofs ---------------------------
(* Theorems about TaskLog for any number of rows, calls, failures, crashes *)
(* and sweeps.                                                             *)
EXTENDS TaskLog, TLAPS

LEMMA SpendType ==
  ASSUME left \in [Event -> Nat], NEW e \in Event, Spend(e)
  PROVE  left' \in [Event -> Nat]
BY DEF Spend

LEMMA IdleType == IdleCall \in CallRow
BY RowsAssumption DEF IdleCall, CallRow

LEMMA AbsentType == Absent \in Length /\ 0 \in 0..MaxRows
BY RowsAssumption DEF Absent, Length

LEMMA HangupType ==
  ASSUME runner \in RunnerRow, NEW c \in Call, Hangup(c)
  PROVE  runner' \in RunnerRow
<1>1. [runner EXCEPT !.busy = NoCall] \in RunnerRow
  BY DEF RunnerRow
<1> QED BY <1>1 DEF Hangup

LEMMA ReturnType ==
  ASSUME call \in [Call -> CallRow], runner \in RunnerRow, NEW c \in Call, Return(c)
  PROVE  call' \in [Call -> CallRow] /\ runner' \in RunnerRow
BY IdleType, HangupType DEF Return

LEMMA GoesType ==
  ASSUME call \in [Call -> CallRow], NEW c \in Call,
         NEW pc \in {"transfer", "update", "ack"}, Goes(c, pc)
  PROVE  call' \in [Call -> CallRow]
<1>1. [call[c] EXCEPT !.pc = pc] \in CallRow
  BY DEF CallRow
<1> QED BY <1>1 DEF Goes

(* What the runner does, and its lost answers.                             *)
LEMMA RunnerTypes ==
  ASSUME TypeOK, Log \/ Close \/ Lose \/ \E c \in Call : Send(c)
  PROVE  TypeOK'
<1> USE DEF TypeOK
<1>1. CASE Log
  <2>1. [runner EXCEPT !.rows = @ + 1] \in RunnerRow
    BY <1>1, RowsAssumption DEF Log, RunnerRow
  <2> QED BY <1>1, <2>1 DEF Log
<1>2. CASE Close
  <2>1. [runner EXCEPT !.closing = TRUE] \in RunnerRow
    BY DEF RunnerRow
  <2> QED BY <1>2, <2>1 DEF Close
<1>3. CASE Lose
  <2>1. [runner EXCEPT !.busy = NoCall] \in RunnerRow
    BY DEF RunnerRow
  <2> QED BY <1>3, <2>1, SpendType DEF Lose, Event
<1>4. ASSUME NEW c \in Call, Send(c) PROVE TypeOK'
  <2>1. [runner EXCEPT !.busy = c] \in RunnerRow
    BY DEF RunnerRow
  <2>2. runner.offset \in 0..MaxRows /\ runner.rows \in 0..MaxRows /\ runner.closing \in BOOLEAN
    BY DEF RunnerRow
  <2>3. \A i, u \in 0..MaxRows, b \in BOOLEAN :
          [IdleCall EXCEPT !.pc = "read", !.index = i, !.upto = u, !.noMore = b] \in CallRow
    BY AbsentType DEF IdleCall, CallRow
  <2>4. [IdleCall EXCEPT !.pc = "read", !.index = runner.offset, !.upto = runner.rows,
                         !.noMore = runner.closing] \in CallRow
    BY <2>2, <2>3
  <2> QED BY <1>4, <2>1, <2>4 DEF Send
<1> QED BY <1>1, <1>2, <1>3, <1>4

LEMMA ServeTypes ==
  ASSUME TypeOK, NEW c \in Call, Serve(c) \/ Fail(c)
  PROVE  TypeOK'
<1> USE DEF TypeOK
<1>0. call[c] \in CallRow /\ Size(file) \in 0..MaxRows
  BY RowsAssumption DEF Size, Length, Absent
<1>1. CASE UpdateLog(c)
  <2>1. \A pc \in {"ack", "open"} : [call[c] EXCEPT !.pc = pc, !.len = task.len] \in CallRow
    BY <1>0 DEF CallRow
  <2>2. overlap' \in BOOLEAN
    BY <1>1 DEF UpdateLog
  <2>3. CASE NothingNew(c)
    <3>1. CASE call' = [call EXCEPT ![c].pc = "ack", ![c].len = task.len] /\ UNCHANGED runner
      BY <1>1, <2>1, <2>2, <3>1 DEF UpdateLog
    <3> QED BY <1>1, <2>3, <3>1 DEF UpdateLog
  <2>4. CASE ~NothingNew(c) /\ task.stored
    BY <1>1, <2>2, <2>4, ReturnType DEF UpdateLog
  <2>5. CASE ~NothingNew(c) /\ ~task.stored
    <3>1. CASE call' = [call EXCEPT ![c].pc = "open", ![c].len = task.len] /\ UNCHANGED runner
      BY <1>1, <2>1, <2>2, <3>1 DEF UpdateLog
    <3> QED BY <1>1, <2>5, <3>1 DEF UpdateLog
  <2> QED BY <2>3, <2>4, <2>5
<1>2. CASE WriteLogs(c)
  <2>1. [call[c] EXCEPT !.pc = "save", !.view = Size(file)] \in CallRow
    BY <1>0 DEF CallRow
  <2>2. Size(file) \in Length
    BY <1>0 DEF Length, Absent
  <2>3. CASE call' = [call EXCEPT ![c].pc = "save", ![c].view = Size(file)] /\ UNCHANGED runner
    BY <1>2, <2>1, <2>2, <2>3 DEF WriteLogs
  <2>4. CASE Return(c)
    BY <1>2, <2>2, <2>4, ReturnType DEF WriteLogs
  <2> QED BY <1>2, <2>3, <2>4 DEF WriteLogs
<1>3. CASE WriteFile(c)
  <2>1. Written(c) \in Length /\ Absent \in Length
    BY <1>0, AbsentType DEF Written, CallRow, Length, Absent
  <2>2. call' \in [Call -> CallRow] /\ runner' = runner
    BY <1>3, GoesType DEF WriteFile, Goes
  <2> QED BY <1>3, <2>1, <2>2 DEF WriteFile
<1>4. CASE TransferLogs(c)
  BY <1>4, ReturnType, GoesType DEF TransferLogs, Goes
<1>5. CASE UpdateTask(c)
  <2>1. \A pc \in {"remove", "ack"} : [call[c] EXCEPT !.pc = pc, !.len = call[c].upto] \in CallRow
    BY <1>0 DEF CallRow
  <2>2. [len |-> call[c].upto, stored |-> call[c].noMore] \in [len : 0..MaxRows, stored : BOOLEAN]
    BY <1>0 DEF CallRow
  <2> QED BY <1>5, <2>1, <2>2 DEF UpdateTask
<1>6. CASE Remove(c)
  <2>1. call' \in [Call -> CallRow] /\ runner' = runner
    BY <1>6, GoesType DEF Remove, Goes
  <2> QED BY <1>6, <2>1, AbsentType DEF Remove
<1>7. CASE Ack(c)
  <2>1. call[c].len \in 0..MaxRows /\ call[c].noMore \in BOOLEAN /\ runner.offset \in 0..MaxRows
    BY <1>0 DEF CallRow, RunnerRow
  <2>2. \A k \in 0..MaxRows, b \in BOOLEAN : [runner EXCEPT !.busy = NoCall, !.offset = k, !.done = b] \in RunnerRow
    BY DEF RunnerRow
  <2>3. runner' \in RunnerRow
    <3>1. (IF call[c].len < runner.offset THEN runner.offset ELSE call[c].len) \in 0..MaxRows
      BY <2>1
    <3>2. (call[c].noMore /\ call[c].len >= runner.rows) \in BOOLEAN
      BY <2>1
    <3> QED BY <1>7, <2>2, <3>1, <3>2 DEF Ack
  <2> QED BY <1>7, <2>3, IdleType DEF Ack
<1>8. CASE Fail(c)
  BY <1>8, ReturnType, SpendType DEF Fail, Event
<1> QED BY <1>1, <1>2, <1>3, <1>4, <1>5, <1>6, <1>7, <1>8 DEF Serve

LEMMA SweepTypes ==
  ASSUME TypeOK, SweepBegins \/ Sweep \/ Crash
  PROVE  TypeOK'
<1> USE DEF TypeOK
<1>1. CASE SweepBegins
  BY <1>1, SpendType DEF SweepBegins, Event
<1>2. CASE Sweep
  <2>1. [task EXCEPT !.stored = TRUE] \in [len : 0..MaxRows, stored : BOOLEAN]
    OBVIOUS
  <2>2. CASE SweepTransfers
    BY <2>2 DEF SweepTransfers
  <2>3. CASE SweepMarks
    BY <2>1, <2>3 DEF SweepMarks
  <2>4. CASE SweepRemoves
    BY <2>4, AbsentType DEF SweepRemoves
  <2> QED BY <1>2, <2>2, <2>3, <2>4 DEF Sweep
<1>3. CASE Crash
  <2>1. [runner EXCEPT !.busy = NoCall] \in RunnerRow
    BY DEF RunnerRow
  <2> QED BY <1>3, <2>1, IdleType, SpendType DEF Crash, Event
<1> QED BY <1>1, <1>2, <1>3

LEMMA TypesKept == ASSUME TypeOK, [Next]_vars PROVE TypeOK'
<1>1. CASE UNCHANGED vars
  BY <1>1 DEF vars, TypeOK
<1> QED BY <1>1, RunnerTypes, ServeTypes, SweepTypes DEF Next

LEMMA TypesStart == Init => TypeOK
<1> SUFFICES ASSUME Init PROVE TypeOK
  OBVIOUS
<1>1. runner \in RunnerRow /\ task \in [len : 0..MaxRows, stored : BOOLEAN]
  BY AbsentType DEF Init, RunnerRow
<1>2. call \in [Call -> CallRow]
  BY IdleType DEF Init
<1>3. left \in [Event -> Nat]
  BY BudgetsAssumption DEF Init
<1> QED BY <1>1, <1>2, <1>3, AbsentType DEF Init, TypeOK

(* The row, the files and the calls keep their shapes, and nobody counts   *)
(* more rows than the task logs.                                           *)
THEOREM TypeOKHolds == Spec => []TypeOK
BY TypesStart, TypesKept, PTL DEF Spec
-----------------------------------------------------------------------------
(* While no two writers have overlapped, a call that writes is alone: the  *)
(* row still is what the call has read, and the file what it has opened.   *)
(* Whatever is archived is complete before the row says so, and the row    *)
(* says so before the file is removed.                                     *)
Alone ==
  \A c \in Call : Writing(c) => sweep = "idle" /\ \A d \in Call : Writing(d) => d = c

KnowsRow ==
  \A c \in Call : Writing(c) =>
    ~task.stored /\ call[c].len = task.len /\ call[c].upto > task.len

KnowsFile ==
  \A c \in Call :
    /\ call[c].pc = "save" => file # Absent /\ call[c].view = file
    /\ call[c].pc \in {"transfer", "update"} => file # Absent /\ call[c].upto <= file
    /\ call[c].pc = "update" /\ call[c].noMore => call[c].upto <= Size(archive)

Answers ==
  \A c \in Call :
    /\ call[c].pc = "remove" => task.stored
    /\ call[c].pc \in {"remove", "ack"} => call[c].len <= task.len

FileHasAll == file # Absent => task.len <= file

Archives ==
  /\ sweep = "mark" => task.len <= Size(archive)
  /\ sweep = "remove" => task.stored

Kept == LogsAreStored /\ Alone /\ KnowsRow /\ KnowsFile /\ Answers /\ FileHasAll /\ Archives
KeptInv == TypeOK /\ (~overlap => Kept)

LEMMA Numbers ==
  ASSUME TypeOK
  PROVE  /\ task.len \in Nat /\ runner.offset \in Nat /\ file \in Int /\ archive \in Int
         /\ file = Absent \/ file >= 0
         /\ archive = Absent \/ archive >= 0
         /\ \A c \in Call : call[c].upto \in Nat /\ call[c].len \in Nat /\ call[c].view \in Nat
         /\ \A c \in Call : call[c].noMore \in BOOLEAN
<1>1. \A n \in Length : n \in Int /\ (n = Absent \/ n >= 0)
  BY RowsAssumption DEF Length, Absent
<1>2. \A c \in Call : call[c].upto \in 0..MaxRows /\ call[c].len \in 0..MaxRows /\ call[c].view \in 0..MaxRows
  BY DEF TypeOK, CallRow
<1>3. \A c \in Call : call[c].noMore \in BOOLEAN
  BY DEF TypeOK, CallRow
<1>4. task.len \in 0..MaxRows /\ runner.offset \in 0..MaxRows
  BY DEF TypeOK, RunnerRow
<1>5. 0..MaxRows \subseteq Nat
  OBVIOUS
<1> QED BY <1>1, <1>2, <1>3, <1>4, <1>5 DEF TypeOK

(* A call that returns, whether it has failed or not, disturbs nothing.    *)
LEMMA ReturnKeeps ==
  ASSUME TypeOK, Kept, NEW c \in Call, Return(c), UNCHANGED <<task, file, archive, sweep>>
  PROVE  Kept'
<1>1. runner'.offset = runner.offset
  BY DEF Return, Hangup, TypeOK, RunnerRow
<1>2. call'[c].pc = "idle" /\ \A d \in Call : d # c => call'[d] = call[d]
  BY DEF Return, IdleCall, TypeOK
<1>3. LogsAreStored'
  BY <1>1 DEF Kept, LogsAreStored, Readable, Size
<1>4. Alone' /\ KnowsRow'
  BY <1>2 DEF Kept, Alone, KnowsRow, Writing
<1>5. KnowsFile' /\ Answers'
  BY <1>2 DEF Kept, KnowsFile, Answers, Size
<1>6. FileHasAll' /\ Archives'
  BY DEF Kept, FileHasAll, Archives, Size
<1> QED BY <1>3, <1>4, <1>5, <1>6 DEF Kept

(* So does whatever the runner does without the server.                    *)
LEMMA RunnerKeeps ==
  ASSUME TypeOK, Kept, Log \/ Close \/ Lose \/ \E c \in Call : Send(c)
  PROVE  Kept'
<1>1. UNCHANGED <<task, file, archive, sweep>> /\ runner'.offset = runner.offset
  BY DEF Log, Close, Lose, Send, TypeOK, RunnerRow
<1>2. \A d \in Call : call'[d] = call[d] \/ call'[d].pc = "read"
  <2>1. CASE UNCHANGED call
    BY <2>1
  <2>2. ASSUME NEW c \in Call, Send(c), NEW d \in Call PROVE call'[d] = call[d] \/ call'[d].pc = "read"
    BY <2>2 DEF Send, TypeOK, IdleCall
  <2> QED BY <2>1, <2>2 DEF Log, Close, Lose
<1>3. LogsAreStored'
  BY <1>1 DEF Kept, LogsAreStored, Readable, Size
<1>4. Alone' /\ KnowsRow'
  BY <1>1, <1>2 DEF Kept, Alone, KnowsRow, Writing
<1>5. KnowsFile' /\ Answers'
  BY <1>1, <1>2 DEF Kept, KnowsFile, Answers, Size
<1>6. FileHasAll' /\ Archives'
  BY <1>1 DEF Kept, FileHasAll, Archives, Size
<1> QED BY <1>3, <1>4, <1>5, <1>6 DEF Kept

LEMMA UpdateLogKeeps ==
  ASSUME TypeOK, Kept, NEW c \in Call, UpdateLog(c), ~overlap'
  PROVE  Kept'
<1>1. CASE ~NothingNew(c) /\ task.stored
  BY <1>1, ReturnKeeps DEF UpdateLog
<1>2. CASE NothingNew(c)
  <2>1. UNCHANGED <<task, file, archive, sweep, runner>>
    BY <1>2 DEF UpdateLog
  <2>2. call'[c].pc = "ack" /\ call'[c].len = task.len /\ \A d \in Call : d # c => call'[d] = call[d]
    BY <1>2 DEF UpdateLog, TypeOK, CallRow
  <2>3. LogsAreStored' /\ FileHasAll' /\ Archives'
    BY <2>1 DEF Kept, LogsAreStored, Readable, Size, FileHasAll, Archives
  <2>4. Alone' /\ KnowsRow'
    BY <2>1, <2>2 DEF Kept, Alone, KnowsRow, Writing
  <2>5. KnowsFile' /\ Answers'
    BY <2>1, <2>2, Numbers DEF Kept, KnowsFile, Answers, Size
  <2> QED BY <2>3, <2>4, <2>5 DEF Kept
<1>3. CASE ~NothingNew(c) /\ ~task.stored
  <2>1. UNCHANGED <<task, file, archive, sweep, runner>>
    BY <1>3 DEF UpdateLog
  <2>2. /\ call'[c].pc = "open" /\ call'[c].len = task.len /\ call'[c].upto = call[c].upto
        /\ \A d \in Call : d # c => call'[d] = call[d]
    BY <1>3 DEF UpdateLog, TypeOK, CallRow
  <2>3. sweep = "idle" /\ \A d \in Call : ~Writing(d)
    BY <1>3 DEF UpdateLog
  <2>4. LogsAreStored' /\ FileHasAll' /\ Archives'
    BY <2>1 DEF Kept, LogsAreStored, Readable, Size, FileHasAll, Archives
  <2>5. call[c].upto > task.len
    BY <1>3, Numbers DEF NothingNew
  <2>6. Alone' /\ KnowsRow'
    BY <1>3, <2>1, <2>2, <2>3, <2>5 DEF Alone, KnowsRow, Writing
  <2>7. KnowsFile' /\ Answers'
    BY <2>1, <2>2 DEF Kept, KnowsFile, Answers, Size
  <2> QED BY <2>4, <2>6, <2>7 DEF Kept
<1> QED BY <1>1, <1>2, <1>3

LEMMA WriteLogsKeeps ==
  ASSUME TypeOK, Kept, NEW c \in Call, WriteLogs(c)
  PROVE  Kept'
<1>1. CASE ~CanWrite(call[c].len)
  BY <1>1, ReturnKeeps DEF WriteLogs
<1>2. CASE CanWrite(call[c].len)
  <2>1. UNCHANGED <<task, archive, sweep, runner>> /\ file' = Size(file)
    BY <1>2 DEF WriteLogs
  <2>2. /\ call'[c].pc = "save" /\ call'[c].view = Size(file)
        /\ call'[c].len = call[c].len /\ call'[c].upto = call[c].upto
        /\ \A d \in Call : d # c => call'[d] = call[d]
    BY <1>2 DEF WriteLogs, TypeOK, CallRow
  <2>3. Writing(c) /\ \A d \in Call : Writing(d) => d = c
    BY DEF WriteLogs, Writing, Kept, Alone
  <2>4. Size(file) # Absent /\ Size(file)' = Size(file) /\ task.len <= Size(file)
    <3>1. Size(file) \in Nat /\ Size(file) # Absent
      BY Numbers DEF Size, Absent
    <3>2. Size(file)' = Size(file)
      BY <2>1, <3>1 DEF Size
    <3>3. call[c].len = task.len
      BY <2>3 DEF Kept, KnowsRow
    <3>4. task.len <= Size(file)
      BY <1>2, <3>3, Numbers DEF Size, CanWrite
    <3> QED BY <3>1, <3>2, <3>4
  <2>5. LogsAreStored' /\ FileHasAll' /\ Archives'
    BY <2>1, <2>4 DEF Kept, LogsAreStored, Readable, Size, FileHasAll, Archives
  <2>6. Alone' /\ KnowsRow'
    BY <2>1, <2>2, <2>3 DEF Kept, Alone, KnowsRow, Writing
  <2>7. KnowsFile'
    BY <2>1, <2>2, <2>3, <2>4 DEF KnowsFile, Writing
  <2>8. Answers'
    BY <2>1, <2>2 DEF Kept, Answers
  <2> QED BY <2>5, <2>6, <2>7, <2>8 DEF Kept
<1> QED BY <1>1, <1>2

LEMMA WriteFileKeeps ==
  ASSUME TypeOK, Kept, NEW c \in Call, WriteFile(c)
  PROVE  Kept'
<1>1. UNCHANGED <<task, archive, sweep, runner>>
  BY DEF WriteFile, Goes
<1>2. /\ call'[c].pc \in {"transfer", "update"} /\ (call'[c].pc = "update" => ~call'[c].noMore)
      /\ call'[c].len = call[c].len /\ call'[c].upto = call[c].upto
      /\ \A d \in Call : d # c => call'[d] = call[d]
  BY Numbers DEF WriteFile, Goes, TypeOK, CallRow
<1>3. Writing(c) /\ \A d \in Call : Writing(d) => d = c
  BY DEF WriteFile, Writing, Kept, Alone
<1>4. file # Absent /\ call[c].view = file
  BY DEF WriteFile, Kept, KnowsFile
<1>5. file' = Written(c)
  BY <1>4 DEF WriteFile
<1>6. file' >= file /\ file' >= call[c].upto /\ file' # Absent /\ file' \in Nat
  BY <1>4, <1>5, Numbers DEF Written, Absent
<1>7. ~task.stored
  BY <1>3 DEF Kept, KnowsRow
<1>8. LogsAreStored' /\ FileHasAll' /\ Archives'
  BY <1>1, <1>4, <1>6, <1>7, Numbers DEF Kept, LogsAreStored, Readable, Size, FileHasAll, Archives
<1>9. Alone' /\ KnowsRow'
  BY <1>1, <1>2, <1>3 DEF Kept, Alone, KnowsRow, Writing
<1>10. KnowsFile'
  BY <1>1, <1>2, <1>3, <1>6, Numbers DEF KnowsFile, Writing
<1>11. Answers'
  BY <1>1, <1>2 DEF Kept, Answers
<1> QED BY <1>8, <1>9, <1>10, <1>11 DEF Kept

LEMMA TransferLogsKeeps ==
  ASSUME TypeOK, Kept, NEW c \in Call, TransferLogs(c)
  PROVE  Kept'
<1>1. Writing(c) /\ (\A d \in Call : Writing(d) => d = c) /\ sweep = "idle" /\ ~task.stored
  BY DEF TransferLogs, Writing, Kept, Alone, KnowsRow
<1>2. file # Absent /\ call[c].upto <= file
  BY DEF TransferLogs, Kept, KnowsFile
<1>3. UNCHANGED <<task, file, sweep, runner>> /\ archive' = file
  BY <1>2 DEF TransferLogs, Goes
<1>4. /\ call'[c].pc = "update" /\ call'[c].len = call[c].len /\ call'[c].upto = call[c].upto
      /\ \A d \in Call : d # c => call'[d] = call[d]
  BY <1>2 DEF TransferLogs, Goes, TypeOK, CallRow
<1>5. LogsAreStored' /\ FileHasAll' /\ Archives'
  BY <1>1, <1>3 DEF Kept, LogsAreStored, Readable, Size, FileHasAll, Archives
<1>6. Alone' /\ KnowsRow'
  BY <1>1, <1>3, <1>4 DEF Kept, Alone, KnowsRow, Writing
<1>7. KnowsFile'
  BY <1>1, <1>2, <1>3, <1>4 DEF KnowsFile, Writing, Size
<1>8. Answers'
  BY <1>3, <1>4 DEF Kept, Answers
<1> QED BY <1>5, <1>6, <1>7, <1>8 DEF Kept

(* The row takes over what the call has written, or archived.              *)
LEMMA UpdateTaskKeeps ==
  ASSUME TypeOK, Kept, NEW c \in Call, UpdateTask(c)
  PROVE  Kept'
<1>1. Writing(c) /\ (\A d \in Call : Writing(d) => d = c) /\ sweep = "idle"
  BY DEF UpdateTask, Writing, Kept, Alone
<1>2. ~task.stored /\ call[c].upto > task.len
  BY <1>1 DEF Kept, KnowsRow
<1>3. /\ file # Absent /\ call[c].upto <= file
      /\ call[c].noMore => call[c].upto <= Size(archive)
  BY DEF UpdateTask, Kept, KnowsFile
<1>4. UNCHANGED <<file, archive, sweep, runner>> /\ task'.len = call[c].upto /\ task'.stored = call[c].noMore
  BY DEF UpdateTask
<1>5. /\ call'[c].pc \in {"remove", "ack"} /\ (call'[c].pc = "remove" => call[c].noMore)
      /\ call'[c].len = call[c].upto
      /\ \A d \in Call : d # c => call'[d] = call[d]
  BY DEF UpdateTask, TypeOK, CallRow
<1>6. LogsAreStored' /\ FileHasAll' /\ Archives'
  BY <1>1, <1>2, <1>3, <1>4, Numbers DEF Kept, LogsAreStored, Readable, Size, FileHasAll, Archives
<1>7. \A d \in Call : ~(Writing(d)')
  BY <1>1, <1>5 DEF Writing
<1>8. Alone' /\ KnowsRow'
  BY <1>7 DEF Alone, KnowsRow
<1>9. KnowsFile'
  BY <1>7 DEF KnowsFile, Writing
<1>10. Answers'
  BY <1>2, <1>4, <1>5, Numbers DEF Kept, Answers
<1> QED BY <1>6, <1>8, <1>9, <1>10 DEF Kept

(* A file is removed only when the row says that it is archived.           *)
LEMMA RemoveKeeps ==
  ASSUME TypeOK, Kept, NEW c \in Call, Remove(c)
  PROVE  Kept'
<1>1. task.stored /\ \A d \in Call : ~Writing(d)
  BY DEF Remove, Kept, Answers, KnowsRow
<1>2. UNCHANGED <<task, archive, sweep, runner>> /\ file' = Absent
  BY DEF Remove, Goes
<1>3. /\ call'[c].pc = "ack" /\ call'[c].len = call[c].len /\ call[c].len <= task.len
      /\ \A d \in Call : d # c => call'[d] = call[d]
  BY DEF Remove, Goes, TypeOK, CallRow, Kept, Answers
<1>4. LogsAreStored' /\ FileHasAll' /\ Archives'
  BY <1>1, <1>2 DEF Kept, LogsAreStored, Readable, Size, FileHasAll, Archives
<1>5. \A d \in Call : ~(Writing(d)')
  BY <1>1, <1>3 DEF Writing
<1>6. Alone' /\ KnowsRow' /\ KnowsFile'
  BY <1>5 DEF Alone, KnowsRow, KnowsFile, Writing
<1>7. Answers'
  BY <1>2, <1>3 DEF Kept, Answers
<1> QED BY <1>4, <1>6, <1>7 DEF Kept

LEMMA AckKeeps ==
  ASSUME TypeOK, Kept, NEW c \in Call, Ack(c)
  PROVE  Kept'
<1>1. UNCHANGED <<task, file, archive, sweep>> /\ call'[c].pc = "idle" /\ \A d \in Call : d # c => call'[d] = call[d]
  BY DEF Ack, TypeOK, IdleCall
<1>2. runner'.offset \in {runner.offset, call[c].len} /\ call[c].len <= task.len
  BY DEF Ack, TypeOK, RunnerRow, Kept, Answers
<1>3. LogsAreStored'
  BY <1>1, <1>2 DEF Kept, LogsAreStored, Readable, Size
<1>4. Alone' /\ KnowsRow'
  BY <1>1 DEF Kept, Alone, KnowsRow, Writing
<1>5. KnowsFile' /\ Answers'
  BY <1>1 DEF Kept, KnowsFile, Answers, Size
<1>6. FileHasAll' /\ Archives'
  BY <1>1 DEF Kept, FileHasAll, Archives, Size
<1> QED BY <1>3, <1>4, <1>5, <1>6 DEF Kept

LEMMA SweepKeeps ==
  ASSUME TypeOK, Kept, SweepBegins \/ Sweep, ~overlap'
  PROVE  Kept'
<1>1. UNCHANGED <<call, runner>> /\ \A d \in Call : ~Writing(d)
  BY DEF SweepBegins, Sweep, SweepTransfers, SweepMarks, SweepRemoves, Kept, Alone
<1>2. Alone' /\ KnowsRow' /\ KnowsFile'
  BY <1>1 DEF Alone, KnowsRow, KnowsFile, Writing
<1>3. CASE SweepBegins
  BY <1>1, <1>2, <1>3 DEF SweepBegins, Kept, LogsAreStored, Readable, Size, Answers, FileHasAll, Archives
<1>4. CASE SweepTransfers
  BY <1>1, <1>2, <1>4 DEF SweepTransfers, Kept, LogsAreStored, Readable, Size, Answers, FileHasAll, Archives
<1>5. CASE SweepMarks
  <2>1. UNCHANGED <<file, archive>> /\ task'.len = task.len /\ task'.stored /\ sweep' = "remove"
    BY <1>5 DEF SweepMarks, TypeOK
  <2> QED BY <1>1, <1>2, <1>5, <2>1 DEF SweepMarks, Kept, LogsAreStored, Readable, Size, Answers, FileHasAll, Archives
<1>6. CASE SweepRemoves
  BY <1>1, <1>2, <1>6 DEF SweepRemoves, Kept, LogsAreStored, Readable, Size, Answers, FileHasAll, Archives
<1> QED BY <1>3, <1>4, <1>5, <1>6 DEF Sweep

LEMMA CrashKeeps ==
  ASSUME TypeOK, Kept, Crash
  PROVE  Kept'
<1>1. UNCHANGED <<task, file, archive>> /\ runner'.offset = runner.offset /\ sweep' = "idle"
  BY DEF Crash, TypeOK, RunnerRow
<1>2. \A d \in Call : call'[d].pc = "idle"
  BY DEF Crash, IdleCall
<1>3. LogsAreStored' /\ FileHasAll' /\ Archives'
  BY <1>1 DEF Kept, LogsAreStored, Readable, Size, FileHasAll, Archives
<1>4. Alone' /\ KnowsRow' /\ KnowsFile' /\ Answers'
  BY <1>2 DEF Alone, KnowsRow, KnowsFile, Answers, Writing
<1> QED BY <1>3, <1>4 DEF Kept

LEMMA KeptStep == ASSUME KeptInv, [Next]_vars PROVE KeptInv'
<1> USE DEF KeptInv
<1>1. TypeOK'
  BY TypesKept
<1>2. ASSUME ~overlap' PROVE Kept'
  <2>1. ~overlap
    BY <1>2 DEF Next, vars, Log, Close, Lose, Send, Serve, UpdateLog, WriteLogs, WriteFile, TransferLogs, UpdateTask,
                Remove, Ack, Fail, SweepBegins, Sweep, SweepTransfers, SweepMarks, SweepRemoves, Crash
  <2>2. Kept
    BY <2>1
  <2>3. CASE UNCHANGED vars
    BY <2>2, <2>3 DEF vars, Kept, LogsAreStored, Readable, Size, Alone, KnowsRow, KnowsFile, Answers, FileHasAll, Archives, Writing
  <2>4. CASE Log \/ Close \/ Lose \/ \E c \in Call : Send(c)
    BY <2>2, <2>4, RunnerKeeps
  <2>5. ASSUME NEW c \in Call, Serve(c) PROVE Kept'
    BY <1>2, <2>2, <2>5, UpdateLogKeeps, WriteLogsKeeps, WriteFileKeeps, TransferLogsKeeps, UpdateTaskKeeps, RemoveKeeps, AckKeeps
       DEF Serve
  <2>6. ASSUME NEW c \in Call, Fail(c) PROVE Kept'
    BY <2>2, <2>6, ReturnKeeps DEF Fail
  <2>7. CASE SweepBegins \/ Sweep
    BY <1>2, <2>2, <2>7, SweepKeeps
  <2>8. CASE Crash
    BY <2>2, <2>8, CrashKeeps
  <2> QED BY <2>3, <2>4, <2>5, <2>6, <2>7, <2>8 DEF Next
<1> QED BY <1>1, <1>2

LEMMA KeptStarts == Init => KeptInv
<1> SUFFICES ASSUME Init PROVE Kept
  BY TypesStart DEF KeptInv
<1>1. \A c \in Call : call[c].pc = "idle"
  BY DEF Init, IdleCall
<1>2. Alone /\ KnowsRow /\ KnowsFile /\ Answers
  BY <1>1 DEF Alone, KnowsRow, KnowsFile, Answers, Writing
<1> QED BY <1>2 DEF Init, Kept, LogsAreStored, Readable, Size, FileHasAll, Archives

(* What the server has acknowledged stays readable where the row says it   *)
(* is, through retries, failures between any two steps, crashes and        *)
(* sweeps, as long as no two writers have overlapped.                      *)
THEOREM RowsAreKeptHolds == Spec => []RowsAreKept
<1>1. KeptInv => RowsAreKept
  BY DEF KeptInv, Kept, RowsAreKept
<1> QED BY <1>1, KeptStarts, KeptStep, PTL DEF Spec
=============================================================================
