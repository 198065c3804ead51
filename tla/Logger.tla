------------------------------ MODULE Logger ------------------------------
(***************************************************************************)
(* The logger of stlog (stlog/stlog.go, stlog/filelog.go; stnet has a copy *)
(* of both): callers put records in a channel, one goroutine gathers them  *)
(* and writes them to a file that is rotated by size and by day, callers   *)
(* of Close stop it.                                                       *)
(*                                                                         *)
(* Records are numbered in the order in which they enter the channel, and  *)
(* size is counted in records.  The files of a day are numbered as their   *)
(* names are: 0 is the one being written, 1 is ".001" and so on; a file    *)
(* that does not exist is <<>>.                                            *)
(***************************************************************************)
EXTENDS Integers, Sequences, Functions

CONSTANTS
  Closers,     \* goroutines that call Close
  QueueLen,    \* capacity of recv (1024*1024)
  Batch,       \* records that are gathered before a write (1024)
  MaxSize,     \* FileLogWriter.maxsize
  MaxBackup,   \* FileLogWriter.maxbackup
  Daily,       \* FileLogWriter.daily
  MaxRecs,     \* bound: records
  MaxFaults,   \* bound: failing file operations
  MaxEvents    \* bound: calls of SetFileLevel and midnights

ASSUME LogAssumption ==
  /\ QueueLen \in Nat /\ Batch \in Nat \ {0} /\ MaxSize \in Nat /\ MaxBackup \in Nat /\ Daily \in BOOLEAN
  /\ MaxRecs \in Nat /\ MaxFaults \in Nat /\ MaxEvents \in Nat

VARIABLES
  recv,    \* Logger.recv: numbers of records, 0 for the record of Close
  clos,    \* Logger.clos is closed
  wait,    \* Logger.wait is closed
  made,    \* number of records accepted so far
  buff,    \* the buffer of the writing goroutine
  count,   \* its counter
  on,      \* Logger.file admits the records
  fw,      \* Logger.fileWrite: file ("nil", "open", "closed"), cursize, daily_opendate, filename's day, and faults so far
  disk,    \* the files of each day
  day,     \* today
  skipped, \* records that the level kept out of the file
  failed,  \* records of writes that failed
  gone,    \* records of files that were overwritten by a rotation
  cpc,     \* where each caller of Close is
  before,  \* for each caller of Close the number of records accepted before its record
  spc,     \* where SetFileLevel is
  sets     \* calls of it so far

logVars == <<recv, clos, wait, made, buff, count, on, fw, disk, day, skipped, failed, gone, cpc, before, spc, sets>>

Days == 1 .. MaxEvents + 1

Slots == 0 .. IF MaxBackup < 2 THEN 0 ELSE MaxBackup - 1

NewFileWriter == [file |-> "nil", cursize |-> 0, opened |-> 1, name |-> 1, faults |-> 0]

\* NewFileLogger
LogInit ==
  /\ recv = <<>> /\ clos = FALSE /\ wait = FALSE /\ made = 0 /\ buff = <<>> /\ count = 0 /\ on = TRUE
  /\ fw = NewFileWriter /\ disk = [d \in Days |-> [i \in Slots |-> <<>>]] /\ day = 1
  /\ skipped = {} /\ failed = {} /\ gone = {}
  /\ cpc = [c \in Closers |-> "idle"] /\ before = [c \in Closers |-> 0]
  /\ spc = "idle" /\ sets = 0

panicked == \E c \in Closers : cpc[c] = "panic"

-----------------------------------------------------------------------------
(* FileLogWriter.  Each operator gives the set of its outcomes; a file     *)
(* operation may fail while faults are left.                               *)

MayFail(f) == IF f.faults < MaxFaults THEN {TRUE, FALSE} ELSE {FALSE}
Fault(f, fails) == IF fails THEN [f EXCEPT !.faults = @ + 1] ELSE f

\* w.file stays nil if it cannot be opened.
newFileWriter(f, d) ==
  LET name == IF Daily THEN day ELSE f.name
      g == [f EXCEPT !.opened = day, !.name = name]
  IN {IF fails THEN Fault(g, TRUE) ELSE [g EXCEPT !.file = "open", !.cursize = Len(d[name][0])] :
        fails \in MayFail(f)}

\* Renamed upwards, one after the other from the oldest, down to the one that becomes stop; the
\* ones below stay where they are since a rename failed.
renameFiles(files, stop) ==
  IF MaxBackup < 2 \/ stop = MaxBackup THEN files
  ELSE [i \in Slots |->
          IF i < stop - 1 THEN files[i]
          ELSE IF i > stop - 1 /\ files[i - 1] # <<>> THEN files[i - 1]
          ELSE IF i = MaxBackup - 1 THEN files[i] ELSE <<>>]

\* The error of renameFiles is not looked at.
rotate(f, d, large) ==
  LET closed == [f EXCEPT !.file = "nil"]
      stops == IF ~large \/ MaxBackup < 2 THEN {1} ELSE IF MayFail(f) = {FALSE} THEN {1} ELSE 1 .. MaxBackup
  IN UNION {LET e == IF large THEN [d EXCEPT ![f.name] = renameFiles(@, stop)] ELSE d
            IN {[f |-> g, d |-> e] : g \in newFileWriter(Fault(closed, stop > 1), e)} : stop \in stops}

\* Fprint to a file that was closed fails.
Append0(f, d, msg) ==
  {IF f.file # "open" \/ fails
   THEN [f |-> Fault(f, fails), d |-> d, ok |-> FALSE]
   ELSE [f |-> [f EXCEPT !.cursize = @ + Len(msg)], d |-> [d EXCEPT ![f.name][0] = @ \o msg], ok |-> TRUE] :
     fails \in MayFail(f)}

oversize(f) == MaxSize > 0 /\ f.cursize >= MaxSize

\* The file is opened if it is not, and turned over if it is too large or of an earlier day.
Opened == IF fw.file = "nil" THEN newFileWriter(fw, disk) ELSE {fw}
TurnedOver(f) ==
  IF f.file # "nil" /\ (oversize(f) \/ (Daily /\ day # f.opened))
  THEN rotate(f, disk, oversize(f)) ELSE {[f |-> f, d |-> disk]}

write(msg) ==
  UNION {UNION {IF g.f.file = "nil" THEN {[f |-> g.f, d |-> g.d, ok |-> FALSE]} ELSE Append0(g.f, g.d, msg) :
                  g \in TurnedOver(f)} : f \in Opened}

OnDisk(d) == UNION {UNION {Range(d[n][i]) : i \in Slots} : n \in Days}

\* The records of msg are written, or are lost with the error.
Flush(msg) ==
  IF msg = <<>> THEN UNCHANGED <<fw, disk, failed, gone>>
  ELSE \E r \in write(msg) :
         /\ fw' = r.f /\ disk' = r.d
         /\ failed' = IF r.ok THEN failed ELSE failed \cup Range(msg)
         /\ gone' = gone \cup (OnDisk(disk) \ OnDisk(r.d))

-----------------------------------------------------------------------------
(* The channel and its users *)

\* A call of Debug, Info... whose select puts the record in the channel.  It may also take the case
\* of a closed clos, and takes the default if the channel is full: the record is dropped.
intLogf ==
  /\ ~panicked /\ made < MaxRecs /\ Len(recv) < QueueLen
  /\ recv' = Append(recv, made + 1) /\ made' = made + 1
  /\ UNCHANGED <<clos, wait, buff, count, on, fw, disk, day, skipped, failed, gone, cpc, before, spc, sets>>

\* Mutant: the buffer is not reset after a write.
GatheredKept(n, msg) ==
  /\ buff' = msg
  /\ IF n >= Batch THEN count' = 0 /\ Flush(msg)
                   ELSE count' = n /\ UNCHANGED <<fw, disk, failed, gone>>

\* Gathered: what the loop does after its select, with the counter n and the buffer msg.
Gathered(n, msg) ==
  IF n >= Batch
  THEN count' = 0 /\ buff' = <<>> /\ Flush(msg)
  ELSE count' = n /\ buff' = msg /\ UNCHANGED <<fw, disk, failed, gone>>

\* case <-tk.C
Tick ==
  /\ ~panicked /\ ~wait
  /\ Gathered(Batch, buff)
  /\ UNCHANGED <<recv, clos, wait, made, on, day, skipped, cpc, before, spc, sets>>

\* case rec := <-log.recv, for a record that is not the one of Close.
TakeRecord ==
  /\ ~panicked /\ ~wait /\ recv # <<>> /\ Head(recv) # 0
  /\ recv' = Tail(recv)
  /\ skipped' = IF on THEN skipped ELSE skipped \cup {Head(recv)}
  /\ Gathered(count + 1, IF on THEN Append(buff, Head(recv)) ELSE buff)
  /\ UNCHANGED <<clos, wait, made, on, day, cpc, before, spc, sets>>

\* The record of Close: what was gathered is written, close(log.wait).
TakeClose ==
  /\ ~panicked /\ ~wait /\ recv # <<>> /\ Head(recv) = 0
  /\ recv' = Tail(recv) /\ wait' = TRUE /\ buff' = <<>> /\ Flush(buff)
  /\ UNCHANGED <<clos, made, count, on, day, skipped, cpc, before, spc, sets>>

Goto(c, from, to) == ~panicked /\ cpc[c] = from /\ cpc' = [cpc EXCEPT ![c] = to]

CloseCall(c) ==
  /\ Goto(c, "idle", "send")
  /\ UNCHANGED <<recv, clos, wait, made, buff, count, on, fw, disk, day, skipped, failed, gone, before, spc, sets>>

\* Mutant: Close does not send its record.
CloseSendNone(c) ==
  /\ Goto(c, "send", "check")
  /\ before' = [before EXCEPT ![c] = made]
  /\ UNCHANGED <<recv, clos, wait, made, buff, count, on, fw, disk, day, skipped, failed, gone, spc, sets>>

\* log.recv <- rec, which waits for room.
CloseSend(c) ==
  /\ Goto(c, "send", "check")
  /\ Len(recv) < QueueLen
  /\ recv' = Append(recv, 0) /\ before' = [before EXCEPT ![c] = made]
  /\ UNCHANGED <<clos, wait, made, buff, count, on, fw, disk, day, skipped, failed, gone, spc, sets>>

\* The select of Close.
CloseCheck(c) ==
  /\ Goto(c, "check", IF clos THEN "returned" ELSE "close")
  /\ UNCHANGED <<recv, clos, wait, made, buff, count, on, fw, disk, day, skipped, failed, gone, before, spc, sets>>

\* close(log.clos): a panic, which ends the program, if somebody else was faster.
CloseClos(c) ==
  /\ Goto(c, "close", IF clos THEN "panic" ELSE "wait")
  /\ clos' = TRUE
  /\ UNCHANGED <<recv, wait, made, buff, count, on, fw, disk, day, skipped, failed, gone, before, spc, sets>>

\* <-log.wait, fileWrite.close()
CloseWait(c) ==
  /\ Goto(c, "wait", "done")
  /\ wait
  /\ fw' = IF fw.file = "open" THEN [fw EXCEPT !.file = "closed"] ELSE fw
  /\ UNCHANGED <<recv, clos, wait, made, buff, count, on, disk, day, skipped, failed, gone, before, spc, sets>>

\* SetFileLevel(lvl, ...): the level is set before the file.
SetFileLevel(lvl) ==
  /\ ~panicked /\ spc = "idle" /\ sets + day <= MaxEvents
  /\ sets' = sets + 1 /\ spc' = (IF lvl THEN "open" ELSE "close") /\ on' = lvl
  /\ UNCHANGED <<recv, clos, wait, made, buff, count, fw, disk, day, skipped, failed, gone, cpc, before>>

SetFile ==
  /\ ~panicked /\ spc # "idle" /\ spc' = "idle"
  /\ fw' = IF spc = "open" THEN [NewFileWriter EXCEPT !.faults = fw.faults, !.opened = day]
           ELSE IF fw.file = "open" THEN [fw EXCEPT !.file = "closed"] ELSE fw
  /\ UNCHANGED <<recv, clos, wait, made, buff, count, on, disk, day, skipped, failed, gone, cpc, before, sets>>

Midnight ==
  /\ ~panicked /\ Daily /\ sets + day <= MaxEvents /\ day' = day + 1
  /\ UNCHANGED <<recv, clos, wait, made, buff, count, on, fw, disk, skipped, failed, gone, cpc, before, spc, sets>>

LogNext ==
  \/ intLogf \/ Tick \/ TakeRecord \/ TakeClose
  \/ \E c \in Closers : CloseCall(c) \/ CloseSend(c) \/ CloseCheck(c) \/ CloseClos(c) \/ CloseWait(c)
  \/ \E lvl \in BOOLEAN : SetFileLevel(lvl)
  \/ SetFile \/ Midnight

LogSpec == LogInit /\ [][LogNext]_logVars

\* The goroutines run.  A channel serves its blocked senders in their order, before any select that
\* would not block.
LogFair ==
  /\ WF_logVars(TakeRecord) /\ WF_logVars(TakeClose)
  /\ \A c \in Closers : /\ SF_logVars(CloseSend(c)) /\ WF_logVars(CloseCheck(c))
                         /\ WF_logVars(CloseClos(c)) /\ WF_logVars(CloseWait(c))

-----------------------------------------------------------------------------
\* Position a of file i of day n comes before position b of file j of day k.
Earlier(n, i, a, k, j, b) == n < k \/ (n = k /\ (i > j \/ (i = j /\ a < b)))
InOrder(d) ==
  \A n, k \in Days, i, j \in Slots : \A a \in DOMAIN d[n][i], b \in DOMAIN d[k][j] :
    Earlier(n, i, a, k, j, b) => d[n][i][a] < d[k][j][b]

\* Read from the oldest backup of the first day to the file being written, the files hold records in
\* the order in which they were logged and none twice, whatever rename, open or write failed and
\* however often the file was set again.
DiskInOrder == InOrder(disk)

\* The callers of Close whose record has entered the channel, and the records accepted before any of these.
Closing == {c \in Closers : cpc[c] \notin {"idle", "send"}}
Early(r) == \A c \in Closing : r <= before[c]

\* A record has left the program.
Left(r) == r \in OnDisk(disk) \cup gone \cup failed \cup skipped

\* When the call of Close that stops the logger returns, every record that was accepted before the
\* first call of Close has left the program: it is in a file, in one that a rotation has since
\* overwritten, its write failed, or the level had kept it out.
FlushedOnClose ==
  (\E c \in Closers : cpc[c] = "done") => \A r \in 1 .. made : Early(r) => Left(r)

Bounded(d) == \A n \in Days, i \in Slots : Len(d[n][i]) < MaxSize + Batch

\* While nothing fails, no file grows past maxsize by more than one write, if there are backups.
FileSizeBounded ==
  MaxBackup >= 2 /\ MaxSize > 0 /\ fw.faults = 0 => Bounded(disk)

\* Once somebody calls Close, a call of Close returns after the last write, or two of them have
\* met in close(log.clos).
CloseReturns ==
  (\E c \in Closers : cpc[c] = "send") ~> ((\E c \in Closers : cpc[c] = "done") \/ panicked)

\* The files are the log: in the order of the calls and each record once (write and rotate of
\* FileLogWriter), no file much larger than maxsize, and complete when Close has returned.
RecordsKept == DiskInOrder /\ FileSizeBounded /\ FlushedOnClose

-----------------------------------------------------------------------------
FileWriters == [file : {"nil", "open", "closed"}, cursize : Nat, opened : Days, name : Days, faults : Nat]
Disks == [Days -> [Slots -> Seq(Nat)]]

\* The types of the variables; the counter of the writing goroutine stays below Batch.
LogTypeOK ==
  /\ recv \in Seq(Nat) /\ clos \in BOOLEAN /\ wait \in BOOLEAN /\ made \in Nat
  /\ buff \in Seq(Nat) /\ count \in 0 .. Batch - 1 /\ on \in BOOLEAN
  /\ fw \in FileWriters /\ disk \in Disks /\ day \in Days
  /\ skipped \subseteq Nat /\ failed \subseteq Nat /\ gone \subseteq Nat
  /\ cpc \in [Closers -> {"idle", "send", "check", "close", "wait", "done", "returned", "panic"}]
  /\ before \in [Closers -> 0 .. made]
  /\ spc \in {"idle", "open", "close"} /\ sets \in Nat

\* The file being written is the newest one, and cursize is its size.
InStep(f, d) ==
  /\ f.name <= day /\ (~Daily => day = 1)
  /\ f.file # "nil" => f.cursize = Len(d[f.name][0]) /\ (Daily => f.name = f.opened)
  /\ \A n \in Days, i \in Slots : n > (IF f.file = "nil" THEN day ELSE f.name) => d[n][i] = <<>>

\* Records go from the channel to the buffer and from there to the files in the order of their numbers.
Newer(v, d) == \A n \in Days, i \in Slots : \A a \in DOMAIN d[n][i] : d[n][i][a] < v
OnTheirWay ==
  /\ Newer(made + 1, disk) /\ Len(buff) <= count
  /\ \A a \in DOMAIN buff : Newer(buff[a], disk) /\ buff[a] <= made
  /\ \A a, b \in DOMAIN buff : a < b => buff[a] < buff[b]
  /\ \A j \in DOMAIN recv : recv[j] <= made
  /\ \A k \in DOMAIN recv : recv[k] # 0 =>
       /\ Newer(recv[k], disk) /\ \A a \in DOMAIN buff : buff[a] < recv[k]
       /\ \A j \in DOMAIN recv : j < k => recv[j] < recv[k]

\* Every record has left the program or is on its way, and behind the first record of Close are only
\* records that were accepted after it.
Accounted ==
  /\ \A r \in 1 .. made : Left(r) \/ r \in Range(buff) \/ r \in Range(recv)
  /\ (wait \/ \E k \in DOMAIN recv : recv[k] = 0) => Closing # {}
  /\ Closing # {} /\ ~wait =>
       \E k \in DOMAIN recv : /\ recv[k] = 0 /\ \A j \in DOMAIN recv : j < k => recv[j] # 0
                              /\ \A j \in DOMAIN recv : j > k /\ recv[j] # 0 => ~Early(recv[j])
  /\ wait => buff = <<>> /\ \A j \in DOMAIN recv : recv[j] # 0 => ~Early(recv[j])
  /\ (\E c \in Closers : cpc[c] = "done") => wait

LogInv == LogTypeOK /\ InStep(fw, disk) /\ OnTheirWay /\ Accounted /\ DiskInOrder /\ FileSizeBounded
===========================================================================
