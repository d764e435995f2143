----------------------------- MODULE LoggerProofs -----------------------------
(***************************************************************************)
(* Proofs about startLogging() and stopLogging(), for any number of engine *)
(* processes, C and C++, that log to any files, where each process has one *)
(* thread that starts and stops logs and prints (OneThreadEach).           *)
(*                                                                         *)
(* The functions test and set their variables one by one, and the lock is  *)
(* another process's business too.  IInv says what the variables of a      *)
(* process are at each label of its thread (Stages), and that a lock is    *)
(* held for a thread that is at a label where it should be (Locks).        *)
(***************************************************************************)
EXTENDS Logger, TLAPS

OneThreadEach == \A t, u \in Threads : ProcOf[t] = ProcOf[u] => t = u

\* The labels from where flock() is over to where the lock is given up.
Holding == {"idle", "redirect", "restore", "unlock"}

\* The state of a process by the label of its thread and the log it is at.
Stage(t) ==
  LET p == ProcOf[t]
      l == mine[t] IN
  /\ pc[t] # "idle" => l # 0
  /\ l # 0 =>
       /\ log[l].proc = p
       /\ pc[t] \in {"open", "dup", "publish", "fdopen"} => log[l].state = "allocated"
       /\ pc[t] \notin {"open", "dup", "publish", "fdopen"}
            => log[l].state \in {"ready", "broken"}
       /\ pc[t] \notin {"open", "dup"} => log[l].copy = 0 /\ log[l].real = 0
       /\ pc[t] \in Holding => lock[path(l)] = l \/ log[l].unlocked
  /\ logger[p] = IF pc[t] \in {"open", "dup", "publish", "close"} THEN 0 ELSE l
  /\ stdoutVar[p] = IF pc[t] \in {"open", "dup", "clear", "close"} THEN 0 ELSE l
  /\ fd1[p] = IF pc[t] \in {"idle", "restore"} THEN l ELSE 0

Stages ==
  /\ \A t \in Threads : ProcOf[t] \in alive => Stage(t)
  /\ \A p \in Procs : logger[p] # 0 \/ fd1[p] # 0 => \E t \in Threads : ProcOf[t] = p

\* Whoever holds a lock is in a process that is alive, and at such a label.
Locks ==
  \A f \in Paths : lock[f] # 0 =>
    \E t \in Threads : /\ ProcOf[t] \in alive /\ pc[t] \in Holding
                       /\ mine[t] = lock[f] /\ path(mine[t]) = f

\* Where the report goes past the buffers, no buffer has a line of it.
Unbuffered ==
  isTTY \/ cxx = Procs =>
    /\ \A p \in Procs : Report \notin realBuf[p]
    /\ \A l \in Logs : Report \notin fileBuf[l] /\ Report \notin outBuf[l]

IInv == TypeOK /\ Stages /\ Locks /\ Unbuffered /\ ReportOnConsole

----------------------------------------------------------------------------

USE ProcOfAssumption, MixesAssumption, SystemAssumption, BoundsAssumption
USE DEF Logs, Report, Output, Text, ToFile

\* The initial state satisfies the invariant.
LEMMA InitIInv == Init => IInv
  <1> SUFFICES ASSUME Init PROVE IInv
    OBVIOUS
  <1> USE DEF Init
  <1>1. ProcType
    BY DEF ProcType
  <1>2. LogType
    BY DEF LogType, testLog, Unused
  <1>3. ThreadType
    BY DEF ThreadType
  <1>4. TextType
    BY DEF TextType
  <1>5. Stages
    BY DEF Stages, Stage
  <1>6. Locks
    BY DEF Locks
  <1>7. Unbuffered /\ ReportOnConsole
    BY DEF Unbuffered, ReportOnConsole
  <1> QED
    BY <1>1, <1>2, <1>3, <1>4, <1>5, <1>6, <1>7 DEF IInv, TypeOK

\* The threads of two live processes are at work on different logs.
LEMMA Apart ==
  ASSUME OneThreadEach, IInv, NEW t \in Threads, NEW u \in Threads,
         ProcOf[t] \in alive, ProcOf[u] \in alive, u # t
  PROVE  ProcOf[u] # ProcOf[t] /\ (mine[u] # 0 => mine[u] # mine[t])
  BY DEF OneThreadEach, IInv, Stages, Stage

\* A testLog with a field set is one.
LEMMA LogFields ==
  ASSUME NEW r \in testLog, NEW a \in 0..MaxLogs, NEW b \in 0..MaxLogs,
         NEW s \in {"unused", "allocated", "ready", "broken", "freed", "leaked"}
  PROVE  /\ [r EXCEPT !.state = s] \in testLog
         /\ [r EXCEPT !.unlocked = TRUE] \in testLog
         /\ [r EXCEPT !.real = a, !.copy = b] \in testLog
  BY DEF testLog

\* What a step of thread t leaves alone: the other threads and processes, the
\* logs in use that are not its own, and the locks of others.
Frame(t) ==
  /\ alive' = alive
  /\ \A u \in Threads : u # t => pc'[u] = pc[u] /\ mine'[u] = mine[u]
  /\ \A p \in Procs : p # ProcOf[t] =>
       logger'[p] = logger[p] /\ stdoutVar'[p] = stdoutVar[p] /\ fd1'[p] = fd1[p]
  /\ \A l \in Logs : l # mine[t] /\ log[l].state # "unused" => log'[l] = log[l]
  /\ \A f \in Paths : lock[f] \notin {0, mine[t]} => lock'[f] = lock[f]

\* The other processes are where they were.
LEMMA OthersStay ==
  ASSUME OneThreadEach, IInv, NEW t \in Threads, ProcOf[t] \in alive, Frame(t), TypeOK'
  PROVE  \A u \in Threads : u # t /\ ProcOf[u] \in alive => Stage(u)'
  <1> SUFFICES ASSUME NEW u \in Threads, u # t, ProcOf[u] \in alive PROVE Stage(u)'
    OBVIOUS
  <1>1. /\ ProcOf[u] \in Procs /\ ProcOf[u] # ProcOf[t]
        /\ mine[u] # 0 => mine[u] # mine[t] /\ mine[u] \in Logs
    BY Apart DEF IInv, TypeOK, ThreadType
  <1>2. Stage(u)
    BY DEF IInv, Stages
  <1>3. /\ pc'[u] = pc[u] /\ mine'[u] = mine[u]
        /\ UNCHANGED <<logger[ProcOf[u]], stdoutVar[ProcOf[u]], fd1[ProcOf[u]]>>
    BY <1>1 DEF Frame
  <1>4. mine[u] # 0 => log'[mine[u]] = log[mine[u]]
    BY <1>1, <1>2 DEF Frame, Stage
  <1>5. mine[u] # 0 /\ pc[u] \in Holding
          => /\ lock'[path(mine[u])] = mine[u] \/ log'[mine[u]].unlocked
             /\ path(mine[u])' = path(mine[u])
    BY <1>1, <1>2, <1>3, <1>4 DEF Frame, Stage, path, IInv, TypeOK, LogType, testLog
  <1> QED
    BY <1>2, <1>3, <1>4, <1>5 DEF Stage

\* The locks are where they were after a step that touches none, if the thread
\* that takes it goes on holding its own.
LEMMA LocksStay ==
  ASSUME OneThreadEach, IInv, NEW t \in Threads, ProcOf[t] \in alive, Frame(t),
         lock' = lock,
         mine[t] # 0 /\ pc[t] \in Holding =>
           /\ pc'[t] \in Holding /\ mine'[t] = mine[t]
           /\ log'[mine[t]].path = log[mine[t]].path
  PROVE  Locks'
  <1> SUFFICES ASSUME NEW f \in Paths, lock[f] # 0
               PROVE  \E u \in Threads : /\ ProcOf[u] \in alive' /\ pc'[u] \in Holding
                                         /\ mine'[u] = lock[f] /\ path(mine[u])' = f
    BY DEF Locks
  <1>1. PICK u \in Threads : /\ ProcOf[u] \in alive /\ pc[u] \in Holding
                             /\ mine[u] = lock[f] /\ path(mine[u]) = f
    BY DEF IInv, Locks
  <1>2. mine[u] \in Logs /\ log[mine[u]].state # "unused"
    BY <1>1 DEF IInv, TypeOK, ThreadType, Stages, Stage, Holding
  <1>3. CASE u = t
    BY <1>1, <1>3 DEF Frame, path
  <1>4. CASE u # t
    BY <1>1, <1>2, <1>4, Apart DEF Frame, path
  <1> QED
    BY <1>3, <1>4


\* The file is emptied before anybody locks it: no report was in it, no lock is lost.
LEMMA OpenFileStep ==
  ASSUME OneThreadEach, IInv, NEW t \in Threads, OpenFile(t) PROVE IInv'
  <1> USE DEF IInv, TypeOK
  <1>1. ProcOf[t] \in alive /\ ProcOf[t] \in Procs /\ Stage(t)
    BY DEF OpenFile, At, Stages
  <1>2. ProcType' /\ ThreadType'
    BY <1>1 DEF OpenFile, At, Goto, procVars, bufVars, path, ProcType,
       ThreadType, LogType, Stage
  <1>3. LogType'
    BY <1>1 DEF OpenFile, At, Goto, procVars, bufVars, path, ProcType,
       ThreadType, LogType, Stage
  <1>4. TextType'
    BY <1>1 DEF OpenFile, At, Goto, procVars, bufVars, path, LogType,
       ThreadType, TextType, Stage
  <1>5. Frame(t)
    BY <1>1 DEF OpenFile, At, Goto, procVars, bufVars, path, Frame,
       ProcType, ThreadType, LogType
  <1>6. Stage(t)'
    BY <1>1 DEF OpenFile, At, Goto, procVars, bufVars, path, Stage,
       ProcType, ThreadType, LogType, Holding
  <1>7. Stages'
    BY <1>1, <1>2, <1>3, <1>4, <1>5, <1>6, OthersStay DEF Stages, Frame
  <1>8. Locks'
    BY <1>1, <1>5, LocksStay DEF OpenFile, At, Goto, procVars, bufVars,
       path, Holding, Stage, LogType, ThreadType, testLog
  <1>9. Unbuffered' /\ ReportOnConsole'
    BY <1>1 DEF OpenFile, At, Goto, procVars, bufVars, path, Unbuffered,
       ReportOnConsole, Stage, ThreadType, TextType, LogType
  <1> QED
    BY <1>2, <1>3, <1>4, <1>7, <1>8, <1>9

\* Nothing was redirected or published yet when fopen() fails.
LEMMA OpenFileFailsStep ==
  ASSUME OneThreadEach, IInv, NEW t \in Threads, OpenFileFails(t) PROVE IInv'
  <1> USE DEF IInv, TypeOK
  <1>1. ProcOf[t] \in alive /\ ProcOf[t] \in Procs /\ Stage(t)
    BY DEF OpenFileFails, At, Stages
  <1>2. ProcType' /\ ThreadType'
    BY <1>1 DEF OpenFileFails, At, Goto, procVars, bufVars, ProcType,
       ThreadType, LogType, Stage
  <1>3. LogType'
    <2>1. mine[t] \in Logs /\ log[mine[t]] \in testLog
      BY <1>1 DEF OpenFileFails, At, ThreadType, LogType, Stage
    <2>2. stdoutVar[ProcOf[t]] \in 0..MaxLogs /\ fd1[ProcOf[t]] \in 0..MaxLogs
      BY <1>1 DEF ProcType
    <2> QED
      BY <2>1, <2>2, LogFields DEF OpenFileFails, LogType
  <1>4. TextType'
    BY <1>1 DEF OpenFileFails, At, Goto, procVars, bufVars, path, LogType,
       ThreadType, TextType, Stage
  <1>5. Frame(t)
    BY <1>1 DEF OpenFileFails, At, Goto, procVars, bufVars, Frame, ProcType,
       ThreadType, LogType
  <1>6. Stage(t)'
    BY <1>1 DEF OpenFileFails, At, Goto, procVars, bufVars, path, Stage,
       ProcType, ThreadType, LogType, Holding
  <1>7. Stages'
    BY <1>1, <1>2, <1>3, <1>4, <1>5, <1>6, OthersStay DEF Stages, Frame
  <1>8. Locks'
    BY <1>1, <1>5, LocksStay DEF OpenFileFails, At, Goto, procVars, bufVars,
       Holding, Stage, LogType, ThreadType, testLog
  <1>9. Unbuffered' /\ ReportOnConsole'
    BY <1>1 DEF OpenFileFails, At, Goto, procVars, bufVars, path,
       Unbuffered, ReportOnConsole, Stage, ThreadType, TextType, LogType
  <1> QED
    BY <1>2, <1>3, <1>4, <1>7, <1>8, <1>9

\* Nobody else redirects this process: what is saved is the console.
LEMMA DupStep ==
  ASSUME OneThreadEach, IInv, NEW t \in Threads, Dup(t) PROVE IInv'
  <1> USE DEF IInv, TypeOK
  <1>1. ProcOf[t] \in alive /\ ProcOf[t] \in Procs /\ Stage(t)
    BY DEF Dup, At, Stages
  <1>2. ProcType' /\ ThreadType'
    BY <1>1 DEF Dup, At, Goto, procVars, bufVars, ProcType, ThreadType,
       LogType, Stage
  <1>3. LogType'
    <2>1. mine[t] \in Logs /\ log[mine[t]] \in testLog
      BY <1>1 DEF Dup, At, ThreadType, LogType, Stage
    <2>2. stdoutVar[ProcOf[t]] \in 0..MaxLogs /\ fd1[ProcOf[t]] \in 0..MaxLogs
      BY <1>1 DEF ProcType
    <2> QED
      BY <2>1, <2>2, LogFields DEF Dup, LogType
  <1>4. TextType'
    BY <1>1 DEF Dup, At, Goto, procVars, bufVars, path, LogType, ThreadType,
       TextType, Stage
  <1>5. Frame(t)
    BY <1>1 DEF Dup, At, Goto, procVars, bufVars, Frame, ProcType,
       ThreadType, LogType
  <1>6. Stage(t)'
    BY <1>1 DEF Dup, At, Goto, procVars, bufVars, path, Stage, ProcType,
       ThreadType, LogType, Holding
  <1>7. Stages'
    BY <1>1, <1>2, <1>3, <1>4, <1>5, <1>6, OthersStay DEF Stages, Frame
  <1>8. Locks'
    BY <1>1, <1>5, LocksStay DEF Dup, At, Goto, procVars, bufVars, Holding,
       Stage, LogType, ThreadType, testLog
  <1>9. Unbuffered' /\ ReportOnConsole'
    BY <1>1 DEF Dup, At, Goto, procVars, bufVars, path, Unbuffered,
       ReportOnConsole, Stage, ThreadType, TextType, LogType
  <1> QED
    BY <1>2, <1>3, <1>4, <1>7, <1>8, <1>9

\* Nothing was published yet when dup() fails.
LEMMA DupFailsStep ==
  ASSUME OneThreadEach, IInv, NEW t \in Threads, DupFails(t) PROVE IInv'
  <1> USE DEF IInv, TypeOK
  <1>1. ProcOf[t] \in alive /\ ProcOf[t] \in Procs /\ Stage(t)
    BY DEF DupFails, At, Stages
  <1>2. ProcType' /\ ThreadType'
    BY <1>1 DEF DupFails, At, Goto, procVars, bufVars, ProcType, ThreadType,
       LogType, Stage
  <1>3. LogType'
    <2>1. mine[t] \in Logs /\ log[mine[t]] \in testLog
      BY <1>1 DEF DupFails, At, ThreadType, LogType, Stage
    <2>2. stdoutVar[ProcOf[t]] \in 0..MaxLogs /\ fd1[ProcOf[t]] \in 0..MaxLogs
      BY <1>1 DEF ProcType
    <2> QED
      BY <2>1, <2>2, LogFields DEF DupFails, LogType
  <1>4. TextType'
    BY <1>1 DEF DupFails, At, Goto, procVars, bufVars, path, LogType,
       ThreadType, TextType, Stage
  <1>5. Frame(t)
    BY <1>1 DEF DupFails, At, Goto, procVars, bufVars, Frame, ProcType,
       ThreadType, LogType
  <1>6. Stage(t)'
    BY <1>1 DEF DupFails, At, Goto, procVars, bufVars, path, Stage,
       ProcType, ThreadType, LogType, Holding
  <1>7. Stages'
    BY <1>1, <1>2, <1>3, <1>4, <1>5, <1>6, OthersStay DEF Stages, Frame
  <1>8. Locks'
    BY <1>1, <1>5, LocksStay DEF DupFails, At, Goto, procVars, bufVars,
       Holding, Stage, LogType, ThreadType, testLog
  <1>9. Unbuffered' /\ ReportOnConsole'
    BY <1>1 DEF DupFails, At, Goto, procVars, bufVars, path, Unbuffered,
       ReportOnConsole, Stage, ThreadType, TextType, LogType
  <1> QED
    BY <1>2, <1>3, <1>4, <1>7, <1>8, <1>9

\* The log is published before it is complete, while its thread is inside.
LEMMA PublishStep ==
  ASSUME OneThreadEach, IInv, NEW t \in Threads, Publish(t) PROVE IInv'
  <1> USE DEF IInv, TypeOK
  <1>1. ProcOf[t] \in alive /\ ProcOf[t] \in Procs /\ Stage(t)
    BY DEF Publish, At, Stages
  <1>2. ProcType' /\ ThreadType'
    BY <1>1 DEF Publish, At, Goto, procVars, bufVars, ProcType, ThreadType,
       LogType, Stage
  <1>3. LogType'
    BY <1>1 DEF Publish, At, Goto, procVars, bufVars, ProcType, ThreadType,
       LogType, Stage
  <1>4. TextType'
    BY <1>1 DEF Publish, At, Goto, procVars, bufVars, path, LogType,
       ThreadType, TextType, Stage
  <1>5. Frame(t)
    BY <1>1 DEF Publish, At, Goto, procVars, bufVars, Frame, ProcType,
       ThreadType, LogType
  <1>6. Stage(t)'
    BY <1>1 DEF Publish, At, Goto, procVars, bufVars, path, Stage, ProcType,
       ThreadType, LogType, Holding
  <1>7. Stages'
    BY <1>1, <1>2, <1>3, <1>4, <1>5, <1>6, OthersStay DEF Stages, Frame
  <1>8. Locks'
    BY <1>1, <1>5, LocksStay DEF Publish, At, Goto, procVars, bufVars,
       Holding, Stage, LogType, ThreadType, testLog
  <1>9. Unbuffered' /\ ReportOnConsole'
    BY <1>1 DEF Publish, At, Goto, procVars, bufVars, path, Unbuffered,
       ReportOnConsole, Stage, ThreadType, TextType, LogType
  <1> QED
    BY <1>2, <1>3, <1>4, <1>7, <1>8, <1>9

\* From here on the engine can print through the log.
LEMMA FdopenStep ==
  ASSUME OneThreadEach, IInv, NEW t \in Threads, Fdopen(t) PROVE IInv'
  <1> USE DEF IInv, TypeOK
  <1>1. ProcOf[t] \in alive /\ ProcOf[t] \in Procs /\ Stage(t)
    BY DEF Fdopen, At, Stages
  <1>2. ProcType' /\ ThreadType'
    BY <1>1 DEF Fdopen, At, Goto, procVars, bufVars, ProcType, ThreadType,
       LogType, Stage
  <1>3. LogType'
    <2>1. mine[t] \in Logs /\ log[mine[t]] \in testLog
      BY <1>1 DEF Fdopen, At, ThreadType, LogType, Stage
    <2>2. stdoutVar[ProcOf[t]] \in 0..MaxLogs /\ fd1[ProcOf[t]] \in 0..MaxLogs
      BY <1>1 DEF ProcType
    <2> QED
      BY <2>1, <2>2, LogFields DEF Fdopen, LogType
  <1>4. TextType'
    BY <1>1 DEF Fdopen, At, Goto, procVars, bufVars, path, LogType,
       ThreadType, TextType, Stage
  <1>5. Frame(t)
    BY <1>1 DEF Fdopen, At, Goto, procVars, bufVars, Frame, ProcType,
       ThreadType, LogType
  <1>6. Stage(t)'
    BY <1>1 DEF Fdopen, At, Goto, procVars, bufVars, path, Stage, ProcType,
       ThreadType, LogType, Holding
  <1>7. Stages'
    BY <1>1, <1>2, <1>3, <1>4, <1>5, <1>6, OthersStay DEF Stages, Frame
  <1>8. Locks'
    BY <1>1, <1>5, LocksStay DEF Fdopen, At, Goto, procVars, bufVars,
       Holding, Stage, LogType, ThreadType, testLog
  <1>9. Unbuffered' /\ ReportOnConsole'
    BY <1>1 DEF Fdopen, At, Goto, procVars, bufVars, path, Unbuffered,
       ReportOnConsole, Stage, ThreadType, TextType, LogType
  <1> QED
    BY <1>2, <1>3, <1>4, <1>7, <1>8, <1>9

\* The log is published, and stays incomplete.
LEMMA FdopenFailsStep ==
  ASSUME OneThreadEach, IInv, NEW t \in Threads, FdopenFails(t) PROVE IInv'
  <1> USE DEF IInv, TypeOK
  <1>1. ProcOf[t] \in alive /\ ProcOf[t] \in Procs /\ Stage(t)
    BY DEF FdopenFails, At, Stages
  <1>2. ProcType' /\ ThreadType'
    BY <1>1 DEF FdopenFails, At, Goto, procVars, bufVars, ProcType, ThreadType,
       LogType, Stage
  <1>3. LogType'
    <2>1. mine[t] \in Logs /\ log[mine[t]] \in testLog
      BY <1>1 DEF FdopenFails, At, ThreadType, LogType, Stage
    <2>2. stdoutVar[ProcOf[t]] \in 0..MaxLogs /\ fd1[ProcOf[t]] \in 0..MaxLogs
      BY <1>1 DEF ProcType
    <2> QED
      BY <2>1, <2>2, LogFields DEF FdopenFails, LogType
  <1>4. TextType'
    BY <1>1 DEF FdopenFails, At, Goto, procVars, bufVars, path, LogType,
       ThreadType, TextType, Stage
  <1>5. Frame(t)
    BY <1>1 DEF FdopenFails, At, Goto, procVars, bufVars, Frame, ProcType,
       ThreadType, LogType
  <1>6. Stage(t)'
    BY <1>1 DEF FdopenFails, At, Goto, procVars, bufVars, path, Stage, ProcType,
       ThreadType, LogType, Holding
  <1>7. Stages'
    BY <1>1, <1>2, <1>3, <1>4, <1>5, <1>6, OthersStay DEF Stages, Frame
  <1>8. Locks'
    BY <1>1, <1>5, LocksStay DEF FdopenFails, At, Goto, procVars, bufVars,
       Holding, Stage, LogType, ThreadType, testLog
  <1>9. Unbuffered' /\ ReportOnConsole'
    BY <1>1 DEF FdopenFails, At, Goto, procVars, bufVars, path, Unbuffered,
       ReportOnConsole, Stage, ThreadType, TextType, LogType
  <1> QED
    BY <1>2, <1>3, <1>4, <1>7, <1>8, <1>9

\* The lock is granted when nobody holds it, or again to the same log.
LEMMA LockStep ==
  ASSUME OneThreadEach, IInv, NEW t \in Threads, Lock(t) PROVE IInv'
  <1> USE DEF IInv, TypeOK
  <1>1. ProcOf[t] \in alive /\ ProcOf[t] \in Procs /\ Stage(t)
    BY DEF Lock, At, Stages
  <1>2. ProcType' /\ ThreadType'
    BY <1>1 DEF Lock, At, Goto, procVars, bufVars, MayLock, ProcType,
       ThreadType, LogType, Stage
  <1>3. LogType'
    BY <1>1 DEF Lock, At, Goto, procVars, bufVars, MayLock, ProcType,
       ThreadType, LogType, Stage
  <1>4. TextType'
    BY <1>1 DEF Lock, At, Goto, procVars, bufVars, MayLock, path, LogType,
       ThreadType, TextType, Stage
  <1>5. Frame(t)
    BY <1>1 DEF Lock, At, Goto, procVars, bufVars, MayLock, Frame, ProcType,
       ThreadType, LogType
  <1>6. Stage(t)'
    <2>1. mine[t] \in Logs /\ path(mine[t]) \in Paths
      BY <1>1 DEF Lock, At, path, Stage, ThreadType, LogType, testLog
    <2>2. lock'[path(mine[t])] = mine[t] /\ path(mine[t])' = path(mine[t])
      BY <2>1 DEF Lock, path, LogType
    <2> QED
      BY <1>1, <2>1, <2>2 DEF Lock, At, Goto, procVars, Stage, ThreadType, Holding
  <1>7. Stages'
    BY <1>1, <1>2, <1>3, <1>4, <1>5, <1>6, OthersStay DEF Stages, Frame
  <1>8. Locks'
    <2>1. mine[t] \in Logs /\ path(mine[t]) \in Paths
      BY <1>1 DEF Lock, At, path, Stage, ThreadType, LogType, testLog
    <2> SUFFICES ASSUME NEW f \in Paths, lock'[f] # 0
                 PROVE  \E u \in Threads : /\ ProcOf[u] \in alive' /\ pc'[u] \in Holding
                                           /\ mine'[u] = lock'[f] /\ path(mine[u])' = f
      BY DEF Locks
    <2>2. CASE f = path(mine[t])
      BY <1>1, <2>1, <2>2 DEF Lock, At, Goto, procVars, path, ThreadType, LogType, Holding
    <2>3. CASE f # path(mine[t])
      <3>1. PICK u \in Threads : /\ ProcOf[u] \in alive /\ pc[u] \in Holding
                                 /\ mine[u] = lock[f] /\ path(mine[u]) = f
        BY <2>1, <2>3 DEF Lock, Locks, LogType
      <3> QED
        BY <2>1, <2>3, <3>1 DEF Lock, At, Goto, procVars, path, ThreadType, LogType, Holding
    <2> QED
      BY <2>2, <2>3
  <1>9. Unbuffered' /\ ReportOnConsole'
    BY <1>1 DEF Lock, At, Goto, procVars, bufVars, MayLock, path,
       Unbuffered, ReportOnConsole, Stage, ThreadType, TextType, LogType
  <1> QED
    BY <1>2, <1>3, <1>4, <1>7, <1>8, <1>9

\* The thread goes on without the lock, which is noted in its log.
LEMMA LockFailsStep ==
  ASSUME OneThreadEach, IInv, NEW t \in Threads, LockFails(t) PROVE IInv'
  <1> USE DEF IInv, TypeOK
  <1>1. ProcOf[t] \in alive /\ ProcOf[t] \in Procs /\ Stage(t)
    BY DEF LockFails, At, Stages
  <1>2. ProcType' /\ ThreadType'
    BY <1>1 DEF LockFails, At, Goto, procVars, bufVars, ProcType, ThreadType,
       LogType, Stage
  <1>3. LogType'
    <2>1. mine[t] \in Logs /\ log[mine[t]] \in testLog
      BY <1>1 DEF LockFails, At, ThreadType, LogType, Stage
    <2>2. stdoutVar[ProcOf[t]] \in 0..MaxLogs /\ fd1[ProcOf[t]] \in 0..MaxLogs
      BY <1>1 DEF ProcType
    <2> QED
      BY <2>1, <2>2, LogFields DEF LockFails, LogType
  <1>4. TextType'
    BY <1>1 DEF LockFails, At, Goto, procVars, bufVars, path, LogType,
       ThreadType, TextType, Stage
  <1>5. Frame(t)
    BY <1>1 DEF LockFails, At, Goto, procVars, bufVars, Frame, ProcType,
       ThreadType, LogType
  <1>6. Stage(t)'
    BY <1>1 DEF LockFails, At, Goto, procVars, bufVars, path, Stage, ProcType,
       ThreadType, LogType, Holding
  <1>7. Stages'
    BY <1>1, <1>2, <1>3, <1>4, <1>5, <1>6, OthersStay DEF Stages, Frame
  <1>8. Locks'
    BY <1>1, <1>5, LocksStay DEF LockFails, At, Goto, procVars, bufVars,
       Holding, Stage, LogType, ThreadType, testLog
  <1>9. Unbuffered' /\ ReportOnConsole'
    BY <1>1 DEF LockFails, At, Goto, procVars, bufVars, path, Unbuffered,
       ReportOnConsole, Stage, ThreadType, TextType, LogType
  <1> QED
    BY <1>2, <1>3, <1>4, <1>7, <1>8, <1>9

\* Standard output goes to the file: the lock is held by now, or flock() failed.
LEMMA RedirectStep ==
  ASSUME OneThreadEach, IInv, NEW t \in Threads, Redirect(t) PROVE IInv'
  <1> USE DEF IInv, TypeOK
  <1>1. ProcOf[t] \in alive /\ ProcOf[t] \in Procs /\ Stage(t)
    BY DEF Redirect, At, Stages
  <1>2. ProcType' /\ ThreadType'
    BY <1>1 DEF Redirect, At, Goto, procVars, bufVars, ProcType, ThreadType,
       LogType, Stage
  <1>3. LogType'
    BY <1>1 DEF Redirect, At, Goto, procVars, bufVars, ProcType, ThreadType,
       LogType, Stage
  <1>4. TextType'
    BY <1>1 DEF Redirect, At, Goto, procVars, bufVars, path, LogType,
       ThreadType, TextType, Stage
  <1>5. Frame(t)
    BY <1>1 DEF Redirect, At, Goto, procVars, bufVars, Frame, ProcType,
       ThreadType, LogType
  <1>6. Stage(t)'
    BY <1>1 DEF Redirect, At, Goto, procVars, bufVars, path, Stage,
       ProcType, ThreadType, LogType, Holding
  <1>7. Stages'
    BY <1>1, <1>2, <1>3, <1>4, <1>5, <1>6, OthersStay DEF Stages, Frame
  <1>8. Locks'
    BY <1>1, <1>5, LocksStay DEF Redirect, At, Goto, procVars, bufVars,
       Holding, Stage, LogType, ThreadType, testLog
  <1>9. Unbuffered' /\ ReportOnConsole'
    BY <1>1 DEF Redirect, At, Goto, procVars, bufVars, path, Unbuffered,
       ReportOnConsole, Stage, ThreadType, TextType, LogType
  <1> QED
    BY <1>2, <1>3, <1>4, <1>7, <1>8, <1>9

\* Only the log that is on is stopped, and a thread's log is the one that is on.
LEMMA StopLoggingStep ==
  ASSUME OneThreadEach, IInv, NEW t \in Threads, StopLogging(t) PROVE IInv'
  <1> USE DEF IInv, TypeOK
  <1>1. ProcOf[t] \in alive /\ ProcOf[t] \in Procs /\ Stage(t)
    BY DEF StopLogging, At, Stages
  <1>2. ProcType' /\ ThreadType'
    BY <1>1 DEF StopLogging, At, Goto, procVars, bufVars, ProcType,
       ThreadType, LogType, Stage
  <1>3. LogType'
    BY <1>1 DEF StopLogging, At, Goto, procVars, bufVars, ProcType,
       ThreadType, LogType, Stage
  <1>4. TextType'
    BY <1>1 DEF StopLogging, At, Goto, procVars, bufVars, path, LogType,
       ThreadType, TextType, Stage
  <1>5. Frame(t)
    BY <1>1 DEF StopLogging, At, Goto, procVars, bufVars, Frame, ProcType,
       ThreadType, LogType
  <1>6. Stage(t)'
    BY <1>1 DEF StopLogging, At, Goto, procVars, bufVars, path, Stage,
       ProcType, ThreadType, LogType, Holding
  <1>7. Stages'
    BY <1>1, <1>2, <1>3, <1>4, <1>5, <1>6, OthersStay DEF Stages, Frame
  <1>8. Locks'
    BY <1>1, <1>5, LocksStay DEF StopLogging, At, Goto, procVars, bufVars,
       Holding, Stage, LogType, ThreadType, testLog
  <1>9. Unbuffered' /\ ReportOnConsole'
    BY <1>1 DEF StopLogging, At, Goto, procVars, bufVars, path, Unbuffered,
       ReportOnConsole, Stage, ThreadType, TextType, LogType
  <1> QED
    BY <1>2, <1>3, <1>4, <1>7, <1>8, <1>9

\* Standard output is back on the console before the lock is dropped.
LEMMA RestoreStep ==
  ASSUME OneThreadEach, IInv, NEW t \in Threads, Restore(t) PROVE IInv'
  <1> USE DEF IInv, TypeOK
  <1>1. ProcOf[t] \in alive /\ ProcOf[t] \in Procs /\ Stage(t)
    BY DEF Restore, At, Stages
  <1>2. ProcType' /\ ThreadType'
    BY <1>1 DEF Restore, At, Goto, procVars, bufVars, OldFd1, ProcType,
       ThreadType, LogType, Stage
  <1>3. LogType'
    BY <1>1 DEF Restore, At, Goto, procVars, bufVars, OldFd1, ProcType,
       ThreadType, LogType, Stage
  <1>4. TextType'
    BY <1>1 DEF Restore, At, Goto, procVars, bufVars, OldFd1, path, LogType,
       ThreadType, TextType, Stage
  <1>5. Frame(t)
    BY <1>1 DEF Restore, At, Goto, procVars, bufVars, OldFd1, Frame,
       ProcType, ThreadType, LogType
  <1>6. Stage(t)'
    BY <1>1 DEF Restore, At, Goto, procVars, bufVars, OldFd1, path, Stage,
       ProcType, ThreadType, LogType, Holding
  <1>7. Stages'
    BY <1>1, <1>2, <1>3, <1>4, <1>5, <1>6, OthersStay DEF Stages, Frame
  <1>8. Locks'
    BY <1>1, <1>5, LocksStay DEF Restore, At, Goto, procVars, bufVars,
       OldFd1, Holding, Stage, LogType, ThreadType, testLog
  <1>9. Unbuffered' /\ ReportOnConsole'
    BY <1>1 DEF Restore, At, Goto, procVars, bufVars, OldFd1, path,
       Unbuffered, ReportOnConsole, Stage, ThreadType, TextType, LogType
  <1> QED
    BY <1>2, <1>3, <1>4, <1>7, <1>8, <1>9

\* The lock of this log is dropped, and no other.
LEMMA UnlockStep ==
  ASSUME OneThreadEach, IInv, NEW t \in Threads, Unlock(t) PROVE IInv'
  <1> USE DEF IInv, TypeOK
  <1>1. ProcOf[t] \in alive /\ ProcOf[t] \in Procs /\ Stage(t)
    BY DEF Unlock, At, Stages
  <1>2. ProcType' /\ ThreadType'
    BY <1>1 DEF Unlock, At, Goto, procVars, bufVars, Freed, ProcType,
       ThreadType, LogType, Stage
  <1>3. LogType'
    BY <1>1 DEF Unlock, At, Goto, procVars, bufVars, Freed, ProcType,
       ThreadType, LogType, Stage
  <1>4. TextType'
    BY <1>1 DEF Unlock, At, Goto, procVars, bufVars, Freed, path, LogType,
       ThreadType, TextType, Stage
  <1>5. Frame(t)
    BY <1>1 DEF Unlock, At, Goto, procVars, bufVars, Freed, Frame, ProcType,
       ThreadType, LogType
  <1>6. Stage(t)'
    BY <1>1 DEF Unlock, At, Goto, procVars, bufVars, Freed, path, Stage,
       ProcType, ThreadType, LogType, Holding
  <1>7. Stages'
    BY <1>1, <1>2, <1>3, <1>4, <1>5, <1>6, OthersStay DEF Stages, Frame
  <1>8. Locks'
    BY <1>1, Apart DEF Unlock, At, Goto, procVars, bufVars, Freed, path,
       Locks, Stage, ThreadType, LogType, Holding
  <1>9. Unbuffered' /\ ReportOnConsole'
    BY <1>1 DEF Unlock, At, Goto, procVars, bufVars, Freed, path,
       Unbuffered, ReportOnConsole, Stage, ThreadType, TextType, LogType
  <1> QED
    BY <1>2, <1>3, <1>4, <1>7, <1>8, <1>9

\* What Dup saved comes back.
LEMMA RestoreStdoutStep ==
  ASSUME OneThreadEach, IInv, NEW t \in Threads, RestoreStdout(t) PROVE IInv'
  <1> USE DEF IInv, TypeOK
  <1>1. ProcOf[t] \in alive /\ ProcOf[t] \in Procs /\ Stage(t)
    BY DEF RestoreStdout, At, Stages
  <1>2. ProcType' /\ ThreadType'
    BY <1>1 DEF RestoreStdout, At, Goto, procVars, bufVars, ProcType,
       ThreadType, LogType, Stage
  <1>3. LogType'
    BY <1>1 DEF RestoreStdout, At, Goto, procVars, bufVars, ProcType,
       ThreadType, LogType, Stage
  <1>4. TextType'
    BY <1>1 DEF RestoreStdout, At, Goto, procVars, bufVars, path, LogType,
       ThreadType, TextType, Stage
  <1>5. Frame(t)
    BY <1>1 DEF RestoreStdout, At, Goto, procVars, bufVars, Frame, ProcType,
       ThreadType, LogType
  <1>6. Stage(t)'
    BY <1>1 DEF RestoreStdout, At, Goto, procVars, bufVars, path, Stage,
       ProcType, ThreadType, LogType, Holding
  <1>7. Stages'
    BY <1>1, <1>2, <1>3, <1>4, <1>5, <1>6, OthersStay DEF Stages, Frame
  <1>8. Locks'
    BY <1>1, <1>5, LocksStay DEF RestoreStdout, At, Goto, procVars, bufVars,
       Holding, Stage, LogType, ThreadType, testLog
  <1>9. Unbuffered' /\ ReportOnConsole'
    BY <1>1 DEF RestoreStdout, At, Goto, procVars, bufVars, path,
       Unbuffered, ReportOnConsole, Stage, ThreadType, TextType, LogType
  <1> QED
    BY <1>2, <1>3, <1>4, <1>7, <1>8, <1>9

\* The log is off before it is freed.
LEMMA ClearStep ==
  ASSUME OneThreadEach, IInv, NEW t \in Threads, Clear(t) PROVE IInv'
  <1> USE DEF IInv, TypeOK
  <1>1. ProcOf[t] \in alive /\ ProcOf[t] \in Procs /\ Stage(t)
    BY DEF Clear, At, Stages
  <1>2. ProcType' /\ ThreadType'
    BY <1>1 DEF Clear, At, Goto, procVars, bufVars, Cleared, ProcType,
       ThreadType, LogType, Stage
  <1>3. LogType'
    BY <1>1 DEF Clear, At, Goto, procVars, bufVars, Cleared, ProcType,
       ThreadType, LogType, Stage
  <1>4. TextType'
    BY <1>1 DEF Clear, At, Goto, procVars, bufVars, Cleared, path, LogType,
       ThreadType, TextType, Stage
  <1>5. Frame(t)
    BY <1>1 DEF Clear, At, Goto, procVars, bufVars, Cleared, Frame,
       ProcType, ThreadType, LogType
  <1>6. Stage(t)'
    BY <1>1 DEF Clear, At, Goto, procVars, bufVars, Cleared, path, Stage,
       ProcType, ThreadType, LogType, Holding
  <1>7. Stages'
    BY <1>1, <1>2, <1>3, <1>4, <1>5, <1>6, OthersStay DEF Stages, Frame
  <1>8. Locks'
    BY <1>1, <1>5, LocksStay DEF Clear, At, Goto, procVars, bufVars,
       Cleared, Holding, Stage, LogType, ThreadType, testLog
  <1>9. Unbuffered' /\ ReportOnConsole'
    BY <1>1 DEF Clear, At, Goto, procVars, bufVars, Cleared, path,
       Unbuffered, ReportOnConsole, Stage, ThreadType, TextType, LogType
  <1> QED
    BY <1>2, <1>3, <1>4, <1>7, <1>8, <1>9

\* The last text is written, and it has no report in it where IInv says so.
LEMMA CloseStep ==
  ASSUME OneThreadEach, IInv, NEW t \in Threads, Close(t) PROVE IInv'
  <1> USE DEF IInv, TypeOK
  <1>1. ProcOf[t] \in alive /\ ProcOf[t] \in Procs /\ Stage(t)
    BY DEF Close, At, Stages
  <1>2. ProcType' /\ ThreadType'
    BY <1>1 DEF Close, At, Goto, procVars, bufVars, Written, path, ProcType,
       ThreadType, LogType, Stage
  <1>3. LogType'
    <2>1. mine[t] \in Logs /\ log[mine[t]] \in testLog
      BY <1>1 DEF Close, At, ThreadType, LogType, Stage
    <2>2. stdoutVar[ProcOf[t]] \in 0..MaxLogs /\ fd1[ProcOf[t]] \in 0..MaxLogs
      BY <1>1 DEF ProcType
    <2> QED
      BY <2>1, <2>2, LogFields DEF Close, LogType
  <1>4. TextType'
    <2>1. mine[t] \in Logs /\ path(mine[t]) \in Paths /\ log[mine[t]].copy = 0
      BY <1>1 DEF Close, At, path, Stage, ThreadType, LogType, testLog
    <2>2. content' = [content EXCEPT ![path(mine[t])] = @ \cup (fileBuf[mine[t]] \cap {Report})]
      BY <2>1 DEF Close, Written
    <2>3. content[path(mine[t])] \cup (fileBuf[mine[t]] \cap {Report}) \in SUBSET {Report}
      BY <2>1 DEF TextType
    <2>4. /\ UNCHANGED realBuf
          /\ fileBuf' = [fileBuf EXCEPT ![mine[t]] = {}]
          /\ outBuf' = [outBuf EXCEPT ![mine[t]] = {}]
      BY DEF Close
    <2>5. content' \in [Paths -> SUBSET {Report}]
      BY <2>1, <2>2, <2>3 DEF TextType
    <2> QED
      BY <2>1, <2>4, <2>5 DEF TextType
  <1>5. Frame(t)
    BY <1>1 DEF Close, At, Goto, procVars, bufVars, Written, path, Frame,
       ProcType, ThreadType, LogType
  <1>6. Stage(t)'
    BY <1>1 DEF Close, At, Goto, procVars, bufVars, Written, path, Stage,
       ProcType, ThreadType, LogType, Holding
  <1>7. Stages'
    BY <1>1, <1>2, <1>3, <1>4, <1>5, <1>6, OthersStay DEF Stages, Frame
  <1>8. Locks'
    BY <1>1, <1>5, LocksStay DEF Close, At, Goto, procVars, bufVars,
       Written, path, Holding, Stage, LogType, ThreadType, testLog
  <1>9. Unbuffered' /\ ReportOnConsole'
    <2>1. mine[t] \in Logs /\ path(mine[t]) \in Paths /\ log[mine[t]].copy = 0
      BY <1>1 DEF Close, At, path, Stage, ThreadType, LogType, testLog
    <2>2. content' = [content EXCEPT ![path(mine[t])] = @ \cup (fileBuf[mine[t]] \cap {Report})]
      BY <2>1 DEF Close, Written
    <2> QED
      BY <2>1, <2>2 DEF Close, procVars, Unbuffered, ReportOnConsole, TextType
  <1> QED
    BY <1>2, <1>3, <1>4, <1>7, <1>8, <1>9

\* startLogging() up to the allocation.
LEMMA StartLoggingStep ==
  ASSUME OneThreadEach, IInv, NEW t \in Threads, NEW f \in Paths, StartLogging(t, f)
  PROVE  IInv'
  <1> USE DEF IInv, TypeOK
  <1>1. /\ ProcOf[t] \in alive /\ ProcOf[t] \in Procs /\ Stage(t)
        /\ pc[t] = "idle" /\ mine[t] = 0
    BY DEF StartLogging, MayStart, At, Stages, Stage
  <1>2. PICK l \in Logs :
          /\ log[l].state = "unused"
          /\ log' = [log EXCEPT ![l] = [@ EXCEPT !.state = "allocated", !.path = f,
                                               !.proc = ProcOf[t]]]
          /\ mine' = [mine EXCEPT ![t] = l]
    BY DEF StartLogging
  <1>3. pc' = [pc EXCEPT ![t] = "open"] /\ UNCHANGED <<procVars, lock, bufVars, content>>
    BY DEF StartLogging, Goto
  <1>4. /\ log'[l] \in testLog /\ log'[l].proc = ProcOf[t] /\ log'[l].state = "allocated"
        /\ \A k \in Logs : k # l => log'[k] = log[k]
    BY <1>1, <1>2 DEF LogType, testLog
  <1>5. ProcType' /\ LogType'
    BY <1>2, <1>3, <1>4 DEF procVars, ProcType, LogType
  <1>6. ThreadType' /\ TextType' /\ Unbuffered' /\ ReportOnConsole'
    BY <1>2, <1>3 DEF procVars, bufVars, ThreadType, TextType, Unbuffered, ReportOnConsole
  <1>7. Frame(t)
    BY <1>2, <1>3, <1>4 DEF procVars, Frame, ThreadType
  <1>8. Stage(t)'
    <2>1. mine'[t] = l /\ pc'[t] = "open"
      BY <1>2, <1>3 DEF ThreadType
    <2>2. logger[ProcOf[t]] = 0 /\ stdoutVar[ProcOf[t]] = 0 /\ fd1[ProcOf[t]] = 0
      BY <1>1 DEF Stage
    <2> QED
      BY <1>3, <1>4, <2>1, <2>2 DEF procVars, Stage, Holding
  <1>9. Stages'
    BY <1>1, <1>3, <1>5, <1>6, <1>7, <1>8, OthersStay DEF Stages, Frame, procVars
  <1>10. Locks'
    BY <1>1, <1>3, <1>7, LocksStay
  <1> QED
    BY <1>5, <1>6, <1>9, <1>10

\* Printing moves text between buffers and files, and nothing else.
LEMMA PrintingStep ==
  ASSUME OneThreadEach, IInv, Printing
  PROVE  IInv'
  <1> USE DEF IInv, TypeOK
  <1>1. UNCHANGED <<procVars, log, lock, pc, mine>>
    BY DEF Printing, ReportLine, FlushedReportLine, TestLine, FlushReal,
           FlushFile, FlushOut
  <1>2. ProcType' /\ LogType' /\ ThreadType' /\ Stages' /\ Locks'
    BY <1>1 DEF procVars, ProcType, LogType, ThreadType, Stages, Stage, Locks, path
  <1> DEFINE Texts == TextType' /\ Unbuffered' /\ ReportOnConsole'
  <1>3. ASSUME NEW t \in Threads, ReportLine(t) PROVE Texts
    <2> DEFINE p == ProcOf[t]
    <2>1. p \in Procs /\ p \in alive /\ p \notin cxx /\ pc[t] = "idle" /\ Stage(t)
      BY <1>3 DEF ReportLine, Prints, At, Flushes, Stages
    <2>2. CASE logger[p] # 0
      <3>1. logger[p] \in Logs /\ log[logger[p]].copy = 0
        BY <2>1, <2>2 DEF Stage, ProcType
      <3>2. /\ UNCHANGED <<realBuf, fileBuf, content>>
            /\ outBuf' = IF isTTY THEN outBuf
                         ELSE [outBuf EXCEPT ![logger[p]] = @ \cup {Report}]
        BY <1>3, <2>2, <3>1 DEF ReportLine, Stdout_, PutOut, Through
      <3> QED
        BY <1>1, <2>1, <3>1, <3>2 DEF procVars, TextType, Unbuffered, ReportOnConsole
    <2>3. CASE logger[p] = 0
      <3>1. stdoutVar[p] = 0 /\ fd1[p] = 0
        BY <2>1, <2>3 DEF Stage
      <3>2. /\ UNCHANGED <<outBuf, fileBuf, content>>
            /\ realBuf' = IF isTTY THEN realBuf
                          ELSE [realBuf EXCEPT ![p] = @ \cup {Report}]
        BY <1>3, <2>3, <3>1 DEF ReportLine, Stdout_, PutReal, Through
      <3> QED
        BY <1>1, <2>1, <3>2 DEF procVars, TextType, Unbuffered, ReportOnConsole
    <2> QED
      BY <2>2, <2>3
  <1>4. ASSUME NEW t \in Threads, FlushedReportLine(t) PROVE Texts
    <2> DEFINE p == ProcOf[t]
    <2>1. p \in Procs /\ p \in alive /\ pc[t] = "idle" /\ Stage(t)
      BY <1>4 DEF FlushedReportLine, Prints, At, Stages
    <2>2. CASE logger[p] # 0
      <3>1. logger[p] \in Logs /\ log[logger[p]].copy = 0
        BY <2>1, <2>2 DEF Stage, ProcType
      <3>2. /\ UNCHANGED <<realBuf, fileBuf, content>>
            /\ outBuf' = [outBuf EXCEPT ![logger[p]] = {}]
        BY <1>4, <2>2, <3>1 DEF FlushedReportLine, Stdout_, Written
      <3> QED
        BY <1>1, <3>1, <3>2 DEF procVars, TextType, Unbuffered, ReportOnConsole
    <2>3. CASE logger[p] = 0
      <3>1. stdoutVar[p] = 0 /\ fd1[p] = 0
        BY <2>1, <2>3 DEF Stage
      <3>2. /\ UNCHANGED <<outBuf, fileBuf, content>>
            /\ realBuf' = [realBuf EXCEPT ![p] = {}]
        BY <1>4, <2>3, <3>1 DEF FlushedReportLine, Stdout_, Written
      <3> QED
        BY <1>1, <2>1, <3>2 DEF procVars, TextType, Unbuffered, ReportOnConsole
    <2> QED
      BY <2>2, <2>3
  <1>5. ASSUME NEW t \in Threads, TestLine(t) PROVE Texts
    <2>1. ProcOf[t] \in Procs /\ stdoutVar[ProcOf[t]] \in Logs
      BY <1>5 DEF TestLine, ProcType
    <2> QED
      BY <1>1, <1>5, <2>1 DEF TestLine, PutFile, procVars, TextType, Unbuffered,
         ReportOnConsole
  <1>6. ASSUME NEW p \in Procs, FlushReal(p) PROVE Texts
    <2>1. fd1[p] # 0 => fd1[p] \in Logs
      BY DEF ProcType
    <2>2. fd1[p] # 0 => path(fd1[p]) \in Paths
      BY <2>1 DEF path, LogType, testLog
    <2> QED
      BY <1>1, <1>6, <2>2 DEF FlushReal, Written, procVars, TextType, Unbuffered,
         ReportOnConsole
  <1>7. ASSUME NEW l \in Logs, FlushFile(l) PROVE Texts
    <2>1. path(l) \in Paths
      BY DEF path, LogType, testLog
    <2> QED
      BY <1>1, <1>7, <2>1 DEF FlushFile, procVars, TextType, Unbuffered, ReportOnConsole
  <1>8. ASSUME NEW l \in Logs, FlushOut(l) PROVE Texts
    <2>1. log[l].copy # 0 => path(log[l].copy) \in Paths
      BY DEF path, LogType, testLog
    <2> QED
      BY <1>1, <1>8, <2>1 DEF FlushOut, Written, procVars, TextType, Unbuffered,
         ReportOnConsole
  <1>9. Texts
    BY <1>3, <1>4, <1>5, <1>6, <1>7, <1>8 DEF Printing
  <1> QED
    BY <1>2, <1>9

\* The kernel drops the locks of a process that exits, and of no other.
LEMMA ExitStep ==
  ASSUME OneThreadEach, IInv, NEW p \in Procs, Exit(p)
  PROVE  IInv'
  <1> USE DEF IInv, TypeOK
  <1>1. ProcType' /\ LogType' /\ ThreadType'
    BY DEF Exit, ProcType, LogType, ThreadType
  <1>2. content' = [f \in Paths |-> content[f] \cup (LeftFor(p, f) \cap {Report})]
    BY DEF Exit
  <1>3. LogsOf(p) \subseteq Logs
    BY DEF LogsOf
  <1>4. TextType'
    <2>1. ASSUME NEW f \in Paths
          PROVE  content[f] \cup (LeftFor(p, f) \cap {Report}) \in SUBSET {Report}
      BY DEF TextType
    <2> QED
      BY <1>2, <2>1 DEF Exit, TextType
  <1>5. Stages'
    <2>1. ASSUME NEW t \in Threads, ProcOf[t] \in alive' PROVE Stage(t)'
      <3>1. Stage(t) /\ ProcOf[t] # p
        BY <2>1 DEF Exit, Stages
      <3>2. mine[t] # 0 => mine[t] \notin LogsOf(p) /\ path(mine[t]) \in Paths
        BY <3>1 DEF Stage, LogsOf, path, ThreadType, LogType, testLog
      <3> QED
        BY <3>1, <3>2 DEF Exit, Stage, path, Holding
    <2> QED
      BY <2>1 DEF Exit, Stages
  <1>6. Locks'
    <2> SUFFICES ASSUME NEW f \in Paths, lock'[f] # 0
                 PROVE  \E t \in Threads : /\ ProcOf[t] \in alive' /\ pc'[t] \in Holding
                                           /\ mine'[t] = lock'[f] /\ path(mine[t])' = f
      BY DEF Locks
    <2>1. lock'[f] = lock[f] /\ lock[f] \notin LogsOf(p)
      BY DEF Exit
    <2>2. PICK t \in Threads : /\ ProcOf[t] \in alive /\ pc[t] \in Holding
                               /\ mine[t] = lock[f] /\ path(mine[t]) = f
      BY <2>1 DEF Locks
    <2>3. ProcOf[t] # p
      BY <2>1, <2>2 DEF Stages, Stage, LogsOf, Holding, ThreadType
    <2> QED
      BY <2>1, <2>2, <2>3 DEF Exit, path
  <1>7. Unbuffered' /\ ReportOnConsole'
    <2>1. ASSUME isTTY \/ cxx = Procs, NEW f \in Paths
          PROVE  Report \notin content[f] \cup (LeftFor(p, f) \cap {Report})
      <3>1. Report \notin FilesHold(p, f) /\ Report \notin CopiesHold(p, f)
        BY <1>3, <2>1 DEF FilesHold, CopiesHold, Unbuffered
      <3> QED
        BY <2>1, <3>1 DEF LeftFor, Unbuffered, ReportOnConsole
    <2> QED
      BY <1>2, <2>1 DEF Exit, Unbuffered, ReportOnConsole
  <1> QED
    BY <1>1, <1>4, <1>5, <1>6, <1>7

\* So it does with those of a process that dies, and what was not written yet
\* never is.
LEMMA KilledStep ==
  ASSUME OneThreadEach, IInv, NEW p \in Procs, p \in alive, Killed(p)
  PROVE  IInv'
  <1> USE DEF IInv, TypeOK
  <1>1. ProcType' /\ LogType' /\ ThreadType' /\ TextType'
    BY DEF Killed, ProcType, LogType, ThreadType, TextType
  <1>2. Stages'
    <2>1. ASSUME NEW t \in Threads, ProcOf[t] \in alive' PROVE Stage(t)'
      <3>1. Stage(t) /\ ProcOf[t] # p
        BY <2>1 DEF Killed, Stages
      <3>2. mine[t] # 0 => mine[t] \notin LogsOf(p) /\ path(mine[t]) \in Paths
        BY <3>1 DEF Stage, LogsOf, path, ThreadType, LogType, testLog
      <3> QED
        BY <3>1, <3>2 DEF Killed, Stage, path, Holding
    <2> QED
      BY <2>1 DEF Killed, Stages
  <1>3. Locks'
    <2> SUFFICES ASSUME NEW f \in Paths, lock'[f] # 0
                 PROVE  \E t \in Threads : /\ ProcOf[t] \in alive' /\ pc'[t] \in Holding
                                           /\ mine'[t] = lock'[f] /\ path(mine[t])' = f
      BY DEF Locks
    <2>1. lock'[f] = lock[f] /\ lock[f] \notin LogsOf(p)
      BY DEF Killed
    <2>2. PICK t \in Threads : /\ ProcOf[t] \in alive /\ pc[t] \in Holding
                               /\ mine[t] = lock[f] /\ path(mine[t]) = f
      BY <2>1 DEF Locks
    <2>3. ProcOf[t] # p
      BY <2>1, <2>2 DEF Stages, Stage, LogsOf, Holding, ThreadType
    <2> QED
      BY <2>1, <2>2, <2>3 DEF Killed, path
  <1>4. Unbuffered' /\ ReportOnConsole'
    BY DEF Killed, Unbuffered, ReportOnConsole
  <1> QED
    BY <1>1, <1>2, <1>3, <1>4

\* A log whose fdopen() failed is fatal to whoever closes it, ...
LEMMA CloseNullStep ==
  ASSUME OneThreadEach, IInv, NEW t \in Threads, CloseNull(t) PROVE IInv'
  BY KilledStep DEF CloseNull, At

\* ... or prints through it.
LEMMA ReportLineNullStep ==
  ASSUME OneThreadEach, IInv, NEW t \in Threads, ReportLineNull(t) PROVE IInv'
  BY KilledStep DEF ReportLineNull, Prints, At

\* Every step of the engines, and stuttering, preserves the invariant.
LEMMA StepIInv == OneThreadEach /\ IInv /\ [Next]_vars => IInv'
  <1> SUFFICES ASSUME OneThreadEach, IInv, [Next]_vars PROVE IInv'
    OBVIOUS
  <1>1. ASSUME NEW t \in Threads, Inside(t) PROVE IInv'
    BY <1>1, OpenFileStep, OpenFileFailsStep, DupStep, DupFailsStep, PublishStep,
       FdopenStep, FdopenFailsStep, LockStep, RedirectStep, RestoreStep, UnlockStep,
       RestoreStdoutStep, ClearStep, CloseStep, CloseNullStep DEF Inside
  <1>2. CASE Done \/ UNCHANGED vars
    <2> USE <1>2 DEF Done, vars, procVars, bufVars
    <2>1. TypeOK'
      BY DEF IInv, TypeOK, ProcType, LogType, ThreadType, TextType
    <2>2. Stages' /\ Locks'
      BY DEF IInv, Stages, Stage, Locks, path
    <2>3. Unbuffered' /\ ReportOnConsole'
      BY DEF IInv, Unbuffered, ReportOnConsole
    <2> QED
      BY <2>1, <2>2, <2>3 DEF IInv
  <1> QED
    BY <1>1, <1>2, StartLoggingStep, StopLoggingStep, LockFailsStep,
       ReportLineNullStep, PrintingStep, ExitStep DEF Next

\* The invariant holds throughout every run.
THEOREM Invariance == ASSUME OneThreadEach PROVE Spec => []IInv
  <1>1. IInv /\ [Next]_vars => IInv'
    BY StepIInv
  <1> QED
    BY <1>1, InitIInv, PTL DEF Spec

\* The variables keep their types: no function is given a log that was not
\* allocated, or looks one up under NULL.
THEOREM TypeCorrect == ASSUME OneThreadEach PROVE Spec => []TypeOK
  <1>1. IInv => TypeOK
    BY DEF IInv
  <1> QED
    BY <1>1, Invariance, PTL

\* An engine has its descriptor 1 on a file only under that file's lock, unless
\* its flock() failed.
THEOREM OutputUnderLock == ASSUME OneThreadEach PROVE Spec => []RedirectedUnderLock
  <1>1. IInv => RedirectedUnderLock
    BY DEF IInv, TypeOK, ProcType, Stages, Stage, Holding, RedirectedUnderLock
  <1> QED
    BY <1>1, Invariance, PTL

\* Once no log is on, an engine's process is as it was before the first one.
THEOREM OffIsRestored == ASSUME OneThreadEach PROVE Spec => []OffMeansRestored
  <1>1. ASSUME OneThreadEach, IInv PROVE OffMeansRestored
    <2> SUFFICES ASSUME NEW t \in Threads, ProcOf[t] \in alive, pc[t] = "idle",
                        logger[ProcOf[t]] = 0
                 PROVE  /\ stdoutVar[ProcOf[t]] = 0 /\ fd1[ProcOf[t]] = 0
                        /\ \A f \in Paths : lock[f] = 0 \/ log[lock[f]].proc # ProcOf[t]
      BY DEF OffMeansRestored
    <2>1. stdoutVar[ProcOf[t]] = 0 /\ fd1[ProcOf[t]] = 0 /\ mine[t] = 0
      BY <1>1 DEF IInv, Stages, Stage
    <2>2. ASSUME NEW f \in Paths, lock[f] # 0 PROVE log[lock[f]].proc # ProcOf[t]
      <3>1. PICK u \in Threads : ProcOf[u] \in alive /\ mine[u] = lock[f]
        BY <1>1, <2>2 DEF IInv, Locks
      <3>2. log[lock[f]].proc = ProcOf[u] /\ u # t
        BY <1>1, <2>1, <2>2, <3>1 DEF IInv, Stages, Stage
      <3> QED
        BY <1>1, <3>2 DEF OneThreadEach
    <2> QED
      BY <2>1, <2>2
  <1> QED
    BY <1>1, Invariance, PTL

\* No line of the report ends up in the file of a log, whoever flushes which
\* buffer when, and also when an engine exits with a log left on.
THEOREM ReportStaysOnConsole == ASSUME OneThreadEach PROVE Spec => []ReportOnConsole
  <1>1. IInv => ReportOnConsole
    BY DEF IInv
  <1> QED
    BY <1>1, Invariance, PTL

\* In an engine in which one thread uses logs, the log that is on was not freed,
\* at any step of the two functions, and is complete when a line is printed, but
\* for one whose fdopen() failed.
THEOREM LoggerStaysLive == ASSUME OneThreadEach PROVE Spec => []LoggerIsLive
  <1>1. ASSUME OneThreadEach, IInv PROVE LoggerIsLive
    <2>1. \A p \in alive : logger[p] # 0 =>
            \E t \in Threads : ProcOf[t] = p /\ mine[t] = logger[p] /\ Stage(t)
      <3> SUFFICES ASSUME NEW p \in alive, logger[p] # 0
                   PROVE  \E t \in Threads : ProcOf[t] = p /\ mine[t] = logger[p] /\ Stage(t)
        OBVIOUS
      <3>1. PICK t \in Threads : ProcOf[t] = p
        BY <1>1 DEF IInv, TypeOK, ProcType, Stages
      <3>2. Stage(t)
        BY <1>1, <3>1 DEF IInv, Stages
      <3>3. mine[t] = logger[p]
        BY <3>1, <3>2 DEF Stage
      <3> QED
        BY <3>1, <3>2, <3>3
    <2>2. ASSUME NEW p \in alive, logger[p] # 0
          PROVE  log[logger[p]].state \in {"allocated", "ready", "broken"}
      BY <2>1, <2>2 DEF Stage
    <2>3. ASSUME NEW t \in Threads, Prints(t), logger[ProcOf[t]] # 0
          PROVE  log[logger[ProcOf[t]]].state # "allocated"
      BY <1>1, <2>3 DEF Prints, At, IInv, Stages, Stage
    <2> QED
      BY <2>2, <2>3 DEF LoggerIsLive
  <1> QED
    BY <1>1, Invariance, PTL
==============================================================================
