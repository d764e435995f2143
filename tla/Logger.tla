------------------------------- MODULE Logger --------------------------------
(***************************************************************************)
(* startLogging() and stopLogging() of crunch/Logger.c and, line for line  *)
(* the same, of crunch++/logger.cxx, step by step, for several threads of  *)
(* several engine processes that log to the same files.  What differs is   *)
(* the printing: the C++ engine flushes every line of its report.          *)
(*                                                                         *)
(* A log redirects file descriptor 1 and the variable `stdout' of its      *)
(* process into a file, while results keep going to a copy of the old      *)
(* descriptor.  Descriptor 1 is redirected under an flock() of the file.   *)
(* Text sits in the buffer of a FILE until it is flushed.  It is of the    *)
(* engine's report or of a test; of the files, only whether there is some  *)
(* of the report in them is kept.                                          *)
(*                                                                         *)
(* What fopen() and dup() return is looked at, what fdopen() and flock()   *)
(* return is not; each of the four may fail.  That dup2() between two open *)
(* descriptors fails is not considered.                                    *)
(***************************************************************************)
EXTENDS Integers

CONSTANTS
  Procs, Threads,
  ProcOf,         \* the process of each thread
  Mixes,          \* which of the processes may be C++ engines
  Paths,          \* the files named to startLogging()
  MaxLogs         \* bound: successful allocations of a testLog

ASSUME ProcOfAssumption == ProcOf \in [Threads -> Procs]
ASSUME MixesAssumption == Mixes \subseteq SUBSET Procs
ASSUME SystemAssumption == Procs # {} /\ Paths # {}
ASSUME BoundsAssumption == MaxLogs \in Nat

VARIABLES
  isTTY,          \* the console is a terminal, and so line buffered
  cxx,            \* the processes that are C++ engines
  logger,         \* the log that is on, per process; 0 is NULL
  stdoutVar,      \* what `stdout' points at: 0 the real one, l the file of l
  fd1,            \* what descriptor 1 is open on: 0 the console, l the file of l
  log,            \* the testLog objects
  lock,           \* whose open file holds the flock of a path
  pc,             \* where a thread is in startLogging() or stopLogging()
  mine,           \* the log it is at work on, or was handed
  realBuf,        \* the buffer of the real stdout
  fileBuf,        \* the buffer of a log's file
  outBuf,         \* the buffer of a log's stdout_, the copy of the old stdout
  content,        \* what of the report is in the files
  alive           \* processes that have not exited

procVars == <<isTTY, cxx, logger, stdoutVar, fd1, alive>>
bufVars  == <<realBuf, fileBuf, outBuf>>
vars == <<procVars, log, lock, pc, mine, bufVars, content>>

Logs   == 1..MaxLogs
Report == "report"
Output == "output"
Text   == {Report, Output}

path(l) == log[l].path
Unused == [state |-> "unused", path |-> CHOOSE f \in Paths : TRUE,
           proc |-> CHOOSE p \in Procs : TRUE, copy |-> 0, real |-> 0,
           unlocked |-> FALSE]

\* What a write of s to the file f, or to the descriptor d (0 the console),
\* does to the files.
ToFile(f, s) == [content EXCEPT ![f] = @ \cup (s \cap {Report})]
Written(d, s) == IF d = 0 THEN content ELSE ToFile(path(d), s)

Init ==
  /\ isTTY \in BOOLEAN
  /\ cxx \in Mixes
  /\ logger = [p \in Procs |-> 0]
  /\ stdoutVar = [p \in Procs |-> 0]
  /\ fd1 = [p \in Procs |-> 0]
  /\ alive = Procs
  /\ log = [l \in Logs |-> Unused]
  /\ lock = [f \in Paths |-> 0]
  /\ pc = [t \in Threads |-> "idle"]
  /\ mine = [t \in Threads |-> 0]
  /\ realBuf = [p \in Procs |-> {}]
  /\ fileBuf = [l \in Logs |-> {}]
  /\ outBuf = [l \in Logs |-> {}]
  /\ content = [f \in Paths |-> {}]

At(t, label) == pc[t] = label /\ ProcOf[t] \in alive
Goto(t, label) == pc' = [pc EXCEPT ![t] = label]

----------------------------------------------------------------------------
(* startLogging().  Where it returns NULL before it allocated anything it   *)
(* changes nothing, and is not a step.                                      *)

\* The check of `logger', and the allocation.
MayStart_Always(p) == TRUE
MayStart(p) == logger[p] = 0

StartLogging(t, f) ==
  /\ At(t, "idle")
  /\ MayStart(ProcOf[t])
  /\ \E l \in Logs :
       /\ log[l].state = "unused" /\ \A k \in 1..(l - 1) : log[k].state # "unused"
       /\ log' = [log EXCEPT ![l] = [@ EXCEPT !.state = "allocated", !.path = f,
                                             !.proc = ProcOf[t]]]
       /\ mine' = [mine EXCEPT ![t] = l]
  /\ Goto(t, "open")
  /\ UNCHANGED <<procVars, lock, bufVars, content>>

\* fopen(fileName, "w"), which empties the file.
OpenFile(t) ==
  /\ At(t, "open")
  /\ content' = [content EXCEPT ![path(mine[t])] = {}]
  /\ Goto(t, "dup")
  /\ UNCHANGED <<procVars, log, lock, mine, bufVars>>

OpenFileFails(t) ==
  /\ At(t, "open")
  /\ log' = [log EXCEPT ![mine[t]].state = "freed"]
  /\ mine' = [mine EXCEPT ![t] = 0]
  /\ Goto(t, "idle")
  /\ UNCHANGED <<procVars, lock, bufVars, content>>

\* The old stdout and descriptor 1 are saved, and `stdout' is the file.
Dup(t) ==
  LET p == ProcOf[t] IN
  /\ At(t, "dup")
  /\ log' = [log EXCEPT ![mine[t]].real = stdoutVar[p], ![mine[t]].copy = fd1[p]]
  /\ stdoutVar' = [stdoutVar EXCEPT ![p] = mine[t]]
  /\ Goto(t, "publish")
  /\ UNCHANGED <<isTTY, cxx, logger, fd1, alive, lock, mine, bufVars, content>>

\* dup() fails: stdout is put back, the object freed, the FILE left open.
DupFails_Unchecked(t) ==
  /\ At(t, "dup")
  /\ log' = [log EXCEPT ![mine[t]].real = stdoutVar[ProcOf[t]], ![mine[t]].copy = -1]
  /\ stdoutVar' = [stdoutVar EXCEPT ![ProcOf[t]] = mine[t]]
  /\ Goto(t, "publish")
  /\ UNCHANGED <<isTTY, cxx, logger, fd1, alive, lock, mine, bufVars, content>>

DupFails(t) ==
  /\ At(t, "dup")
  /\ log' = [log EXCEPT ![mine[t]].state = "leaked"]
  /\ mine' = [mine EXCEPT ![t] = 0]
  /\ Goto(t, "idle")
  /\ UNCHANGED <<procVars, lock, bufVars, content>>

Publish(t) ==
  /\ At(t, "publish")
  /\ logger' = [logger EXCEPT ![ProcOf[t]] = mine[t]]
  /\ Goto(t, "fdopen")
  /\ UNCHANGED <<isTTY, cxx, stdoutVar, fd1, alive, log, lock, mine, bufVars, content>>

Fdopen(t) ==
  /\ At(t, "fdopen")
  /\ log' = [log EXCEPT ![mine[t]].state = "ready"]
  /\ Goto(t, "lock")
  /\ UNCHANGED <<procVars, lock, mine, bufVars, content>>

\* fdopen() fails, and nobody looks: the log that is published stays without a
\* stream for the report.
FdopenFails(t) ==
  /\ At(t, "fdopen")
  /\ log' = [log EXCEPT ![mine[t]].state = "broken"]
  /\ Goto(t, "lock")
  /\ UNCHANGED <<procVars, lock, mine, bufVars, content>>

\* flock(LOCK_EX) waits for as long as another open file holds the lock.
MayLock_Always(l) == TRUE
MayLock(l) == lock[path(l)] \in {0, l}

Lock(t) ==
  /\ At(t, "lock")
  /\ MayLock(mine[t])
  /\ lock' = [lock EXCEPT ![path(mine[t])] = mine[t]]
  /\ Goto(t, "redirect")
  /\ UNCHANGED <<procVars, log, mine, bufVars, content>>

\* flock() fails, for want of memory or at a signal, and nobody looks.
LockFails(t) ==
  /\ At(t, "lock")
  /\ log' = [log EXCEPT ![mine[t]].unlocked = TRUE]
  /\ Goto(t, "redirect")
  /\ UNCHANGED <<procVars, lock, mine, bufVars, content>>

\* dup2(fileFD, STDOUT_FILENO), and the log is returned.
Redirect(t) ==
  /\ At(t, "redirect")
  /\ fd1' = [fd1 EXCEPT ![ProcOf[t]] = mine[t]]
  /\ Goto(t, "idle")
  /\ UNCHANGED <<isTTY, cxx, logger, stdoutVar, alive, log, lock, mine, bufVars, content>>

----------------------------------------------------------------------------
(* stopLogging().                                                           *)

\* A log that is not the one that is on is not stopped.
StopLogging(t) ==
  /\ At(t, "idle") /\ mine[t] # 0
  /\ IF logger[ProcOf[t]] = mine[t]
     THEN Goto(t, "restore") /\ mine' = mine
     ELSE pc' = pc /\ mine' = [mine EXCEPT ![t] = 0]
  /\ UNCHANGED <<procVars, log, lock, bufVars, content>>

\* dup2(logger_->fd, STDOUT_FILENO)
OldFd1_Kept(t) == fd1[ProcOf[t]]
OldFd1(t) == log[mine[t]].copy

Restore(t) ==
  /\ At(t, "restore")
  /\ fd1' = [fd1 EXCEPT ![ProcOf[t]] = OldFd1(t)]
  /\ Goto(t, "unlock")
  /\ UNCHANGED <<isTTY, cxx, logger, stdoutVar, alive, log, lock, mine, bufVars, content>>

Freed(l) == [f \in Paths |-> IF lock[f] = l THEN 0 ELSE lock[f]]

Unlock(t) ==
  /\ At(t, "unlock")
  /\ lock' = Freed(mine[t])
  /\ Goto(t, "stdout")
  /\ UNCHANGED <<procVars, log, mine, bufVars, content>>

RestoreStdout(t) ==
  /\ At(t, "stdout")
  /\ stdoutVar' = [stdoutVar EXCEPT ![ProcOf[t]] = log[mine[t]].real]
  /\ Goto(t, "clear")
  /\ UNCHANGED <<isTTY, cxx, logger, fd1, alive, log, lock, mine, bufVars, content>>

\* logger = NULL
Cleared_Kept(t) == logger[ProcOf[t]]
Cleared(t) == 0

Clear(t) ==
  /\ At(t, "clear")
  /\ logger' = [logger EXCEPT ![ProcOf[t]] = Cleared(t)]
  /\ Goto(t, "close")
  /\ UNCHANGED <<isTTY, cxx, stdoutVar, fd1, alive, log, lock, mine, bufVars, content>>

\* Both FILEs are closed, which flushes them, and the object is freed.  The
\* lock is gone by then.
Close(t) ==
  LET l == mine[t] IN
  /\ At(t, "close") /\ log[l].state = "ready"
  /\ content' = [Written(log[l].copy, outBuf[l]) EXCEPT
                   ![path(l)] = @ \cup (fileBuf[l] \cap {Report})]
  /\ outBuf' = [outBuf EXCEPT ![l] = {}]
  /\ fileBuf' = [fileBuf EXCEPT ![l] = {}]
  /\ log' = [log EXCEPT ![l].state = "freed"]
  /\ mine' = [mine EXCEPT ![t] = 0]
  /\ Goto(t, "idle")
  /\ UNCHANGED <<procVars, lock, realBuf>>

----------------------------------------------------------------------------
(* A FILE that is not there, or was closed: the process dies of it.  What    *)
(* its buffers hold is lost, and the kernel drops its locks.                 *)

LogsOf(p) == {l \in Logs : log[l].proc = p /\ log[l].state # "unused"}

Killed(p) ==
  /\ alive' = alive \ {p}
  /\ lock' = [f \in Paths |-> IF lock[f] \in LogsOf(p) THEN 0 ELSE lock[f]]
  /\ realBuf' = [realBuf EXCEPT ![p] = {}]
  /\ fileBuf' = [l \in Logs |-> IF l \in LogsOf(p) THEN {} ELSE fileBuf[l]]
  /\ outBuf' = [l \in Logs |-> IF l \in LogsOf(p) THEN {} ELSE outBuf[l]]
  /\ UNCHANGED <<isTTY, cxx, logger, stdoutVar, fd1, log, pc, mine, content>>

\* fclose() of a log without a stream for the report.
CloseNull(t) ==
  /\ At(t, "close") /\ log[mine[t]].state # "ready"
  /\ Killed(ProcOf[t])

----------------------------------------------------------------------------
(* What is printed meanwhile.                                               *)

\* A thread that may print: it is in neither function.
Prints(t) == At(t, "idle")

\* The text goes into a buffer, or straight on if the FILE is line buffered
\* and open on the terminal.
Through(d) == isTTY /\ d = 0

PutReal(p, s) ==
  /\ realBuf' = IF Through(fd1[p]) THEN realBuf
                ELSE [realBuf EXCEPT ![p] = @ \cup s]
  /\ UNCHANGED <<fileBuf, outBuf>>

PutFile(l, s) ==
  /\ fileBuf' = [fileBuf EXCEPT ![l] = @ \cup s]
  /\ UNCHANGED <<realBuf, outBuf>>

PutOut(l, s) ==
  /\ outBuf' = IF Through(log[l].copy) THEN outBuf
               ELSE [outBuf EXCEPT ![l] = @ \cup s]
  /\ UNCHANGED <<realBuf, fileBuf>>

\* vaTestPrintf(): the report goes to the copy of the old stdout while a log
\* is on, and to `stdout' otherwise.
Stdout_(p) == logger[p]

\* The fflush() of logger.cxx.
Flushes_Never(p) == FALSE
Flushes(p) == p \in cxx

ReportLine(t) ==
  LET p == ProcOf[t]
      l == Stdout_(p) IN
  /\ Prints(t) /\ ~Flushes(p)
  /\ IF l # 0
     THEN log[l].state = "ready" /\ PutOut(l, {Report})
     ELSE IF stdoutVar[p] = 0 THEN PutReal(p, {Report})
                              ELSE PutFile(stdoutVar[p], {Report})
  /\ UNCHANGED <<procVars, log, lock, pc, mine, content>>

\* The line is written at once, after what the buffer held.
FlushedReportLine(t) ==
  LET p == ProcOf[t]
      l == Stdout_(p)
      f == stdoutVar[p] IN
  /\ Prints(t) /\ Flushes(p)
  /\ IF l # 0
     THEN /\ log[l].state = "ready"
          /\ content' = Written(log[l].copy, outBuf[l] \cup {Report})
          /\ outBuf' = [outBuf EXCEPT ![l] = {}]
          /\ UNCHANGED <<realBuf, fileBuf>>
     ELSE IF f = 0
     THEN /\ content' = Written(fd1[p], realBuf[p] \cup {Report})
          /\ realBuf' = [realBuf EXCEPT ![p] = {}]
          /\ UNCHANGED <<fileBuf, outBuf>>
     ELSE /\ content' = Written(f, fileBuf[f] \cup {Report})
          /\ fileBuf' = [fileBuf EXCEPT ![f] = {}]
          /\ UNCHANGED <<realBuf, outBuf>>
  /\ UNCHANGED <<procVars, log, lock, pc, mine>>

\* A line of the report, while the log that is on has no stream for it.
ReportLineNull(t) ==
  LET p == ProcOf[t] IN
  /\ Prints(t)
  /\ logger[p] # 0 /\ log[logger[p]].state # "ready"
  /\ Killed(p)

\* The test prints with stdio, which uses `stdout'.
TestLine(t) ==
  LET l == stdoutVar[ProcOf[t]] IN
  /\ Prints(t)
  /\ l # 0 /\ PutFile(l, {Output})
  /\ UNCHANGED <<procVars, log, lock, pc, mine, content>>

\* Buffers that fill up are written out.
FlushReal(p) ==
  /\ p \in alive /\ realBuf[p] # {}
  /\ content' = Written(fd1[p], realBuf[p])
  /\ realBuf' = [realBuf EXCEPT ![p] = {}]
  /\ UNCHANGED <<procVars, log, lock, pc, mine, fileBuf, outBuf>>

FlushFile(l) ==
  /\ log[l].proc \in alive /\ fileBuf[l] # {}
  /\ content' = ToFile(path(l), fileBuf[l])
  /\ fileBuf' = [fileBuf EXCEPT ![l] = {}]
  /\ UNCHANGED <<procVars, log, lock, pc, mine, realBuf, outBuf>>

FlushOut(l) ==
  /\ log[l].proc \in alive /\ outBuf[l] # {}
  /\ content' = Written(log[l].copy, outBuf[l])
  /\ outBuf' = [outBuf EXCEPT ![l] = {}]
  /\ UNCHANGED <<procVars, log, lock, pc, mine, realBuf, fileBuf>>

\* The engine ends, perhaps with a log still on: exit() flushes every buffer,
\* and the kernel drops the locks with the descriptors.
\* What the FILEs of its logs and their copies of stdout hold for the file f,
\* and what the whole process does.
FilesHold(p, f) == UNION {fileBuf[l] : l \in {k \in LogsOf(p) : path(k) = f}}
CopiesHold(p, f) ==
  UNION {outBuf[l] : l \in {k \in LogsOf(p) : log[k].copy # 0 /\ path(log[k].copy) = f}}
LeftFor(p, f) ==
  FilesHold(p, f) \cup CopiesHold(p, f)
    \cup (IF fd1[p] # 0 /\ path(fd1[p]) = f THEN realBuf[p] ELSE {})

Exit(p) ==
  /\ p \in alive
  /\ \A t \in Threads : ProcOf[t] = p => pc[t] = "idle"
  /\ alive' = alive \ {p}
  /\ lock' = [f \in Paths |-> IF lock[f] \in LogsOf(p) THEN 0 ELSE lock[f]]
  /\ content' = [f \in Paths |-> content[f] \cup (LeftFor(p, f) \cap {Report})]
  /\ realBuf' = [realBuf EXCEPT ![p] = {}]
  /\ fileBuf' = [l \in Logs |-> IF l \in LogsOf(p) THEN {} ELSE fileBuf[l]]
  /\ outBuf' = [l \in Logs |-> IF l \in LogsOf(p) THEN {} ELSE outBuf[l]]
  /\ UNCHANGED <<isTTY, cxx, logger, stdoutVar, fd1, log, pc, mine>>

----------------------------------------------------------------------------
(* The system.                                                              *)

\* The steps inside the two functions.
Inside(t) ==
  \/ OpenFile(t) \/ OpenFileFails(t) \/ Dup(t) \/ DupFails(t) \/ Publish(t)
  \/ Fdopen(t) \/ FdopenFails(t) \/ Lock(t) \/ Redirect(t)
  \/ Restore(t) \/ Unlock(t) \/ RestoreStdout(t) \/ Clear(t)
  \/ Close(t) \/ CloseNull(t)

Printing ==
  \/ \E t \in Threads : ReportLine(t) \/ FlushedReportLine(t) \/ TestLine(t)
  \/ \E p \in Procs : FlushReal(p)
  \/ \E l \in Logs : FlushFile(l) \/ FlushOut(l)

Done == alive = {} /\ UNCHANGED vars

Next ==
  \/ \E t \in Threads, f \in Paths : StartLogging(t, f)
  \/ \E t \in Threads : StopLogging(t) \/ Inside(t) \/ LockFails(t) \/ ReportLineNull(t)
  \/ Printing
  \/ \E p \in Procs : Exit(p)
  \/ Done

Spec == Init /\ [][Next]_vars

\* Threads that are inside one of the functions are scheduled, and every
\* process that has nothing left to do exits.  No flock() need fail.
FairSpec == /\ Spec
            /\ \A t \in Threads : WF_vars(Inside(t))
            /\ \A p \in Procs : WF_vars(Exit(p))

----------------------------------------------------------------------------
(* Properties.                                                              *)

ProcType ==
  /\ isTTY \in BOOLEAN /\ cxx \in SUBSET Procs
  /\ logger \in [Procs -> 0..MaxLogs]
  /\ stdoutVar \in [Procs -> 0..MaxLogs] /\ fd1 \in [Procs -> 0..MaxLogs]
  /\ alive \in SUBSET Procs

testLog == [state : {"unused", "allocated", "ready", "broken", "freed", "leaked"},
            path : Paths, proc : Procs, copy : 0..MaxLogs, real : 0..MaxLogs,
            unlocked : BOOLEAN]

LogType ==
  /\ log \in [Logs -> testLog]
  /\ lock \in [Paths -> 0..MaxLogs]

ThreadType ==
  /\ pc \in [Threads -> {"idle", "open", "dup", "publish", "fdopen", "lock",
                         "redirect", "restore", "unlock", "stdout", "clear",
                         "close"}]
  /\ mine \in [Threads -> 0..MaxLogs]

TextType ==
  /\ realBuf \in [Procs -> SUBSET Text]
  /\ fileBuf \in [Logs -> SUBSET Text] /\ outBuf \in [Logs -> SUBSET Text]
  /\ content \in [Paths -> SUBSET {Report}]

\* Every variable keeps its type, and every reference is to a log in use.
TypeOK == ProcType /\ LogType /\ ThreadType /\ TextType

\* Descriptor 1 of a process is on a log's file only while that log holds the
\* file's lock, but for a log whose flock() failed: of two processes that have
\* it on one file, one does without the lock.  It is about the descriptor; what
\* `stdout' buffers is written after the lock is given up.
RedirectedUnderLock ==
  \A p \in alive : fd1[p] # 0 =>
    \/ lock[path(fd1[p])] = fd1[p]
    \/ log[fd1[p]].unlocked

\* When a thread is in neither function and no log is on, its process is as it
\* was: both standard outputs on the console, no lock held, nothing published
\* that was freed.
OffMeansRestored ==
  \A t \in Threads :
    LET p == ProcOf[t] IN
    p \in alive /\ pc[t] = "idle" /\ logger[p] = 0 =>
      /\ stdoutVar[p] = 0 /\ fd1[p] = 0
      /\ \A f \in Paths : lock[f] = 0 \/ log[lock[f]].proc # p

\* The report goes to the console and never to the file of a log, also when the
\* engine exits with a log left on: for the C++ engine always, for the C engine
\* on a terminal.
ReportOnConsole ==
  isTTY \/ cxx = Procs => \A f \in Paths : Report \notin content[f]

\* A log that is on has not been freed, at any step of either function; and a
\* thread that prints finds it complete, but for one whose fdopen() failed.
\* That is for one thread of an engine at work on logs; where two are, one can
\* print through a log that the other has published and not finished.
LoggerIsLive ==
  /\ \A p \in alive : logger[p] # 0
       => log[logger[p]].state \in {"allocated", "ready", "broken"}
  /\ \A t \in Threads : Prints(t) /\ logger[ProcOf[t]] # 0
       => log[logger[ProcOf[t]]].state # "allocated"

\* Whoever waits for a file's lock gets it, once the others stop their logs or
\* exit.
LockIsGranted == \A t \in Threads : pc[t] = "lock" ~> pc[t] # "lock"
==============================================================================
