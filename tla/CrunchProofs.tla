----------------------------- MODULE CrunchProofs ----------------------------
(***************************************************************************)
(* Proofs about the C engine, for any number of helpers, libraries and     *)
(* tests, the threads of a test taking their steps in any order.           *)
(*                                                                         *)
(* Two invariants carry them.  IInv holds whatever the tests' threads do,  *)
(* strays included: its core is Apart, a loaded counter is current unless  *)
(* two updates have overlapped.  JInv holds when a test's threads are over *)
(* when it is joined (Strays = {}), lost updates included: its core is     *)
(* Floor and Ceiling, which bound what the threads of a test can make of   *)
(* the counters by what they held at its start and the lines printed.      *)
(***************************************************************************)
EXTENDS Crunch, FiniteSetTheorems, TLAPS

\* The main thread's position against the test's thread and the process.
Position ==
  /\ pc = "join" <=> thread[Tester] # "none"
  /\ thread[Tester] # "joined"
  /\ pc = "over" <=> exitCode # Running
  /\ pc \in {"suite", "join"} => lib < nLibs
  /\ pc = "join" => test < suiteLen
  /\ result = THREAD_SUCCESS \/ (result = THREAD_ABORT /\ pc \in {"exit", "over"})
  /\ summary # NoSummary => pc \in {"exit", "over"}
  /\ code[Tester] = THREAD_ABORT
       => \/ pc = "join" /\ thread[Tester] = "exited"
          \/ pc \in {"exit", "over"}

\* The failure of a helper that tryShouldFail() is about to take back.
Owed == /\ thread[Tester] = "waiting" /\ thread[waitFor] = "exited"
        /\ code[waitFor] = THREAD_ERROR

\* Only the test probes, it waits for a helper that it has started and not yet
\* joined, and what it takes back has been counted.
Probing ==
  /\ \A h \in Helpers : thread[h] \notin {"waiting", "excusing"}
  /\ thread[Tester] = "waiting"
       => waitFor \in Helpers /\ thread[waitFor] \in {"body", "failing", "exited"}
  /\ Owed => failures > 0
  /\ thread[Tester] = "excusing" => reg[Tester] > 0

\* While no two updates have overlapped, at most one is under way, and the
\* value it has loaded is still current.
Apart ==
  ~overlap =>
    \A t \in Threads : Updating(t) =>
      /\ reg[t] = failures
      /\ \A u \in Threads : Updating(u) => u = t

\* The run's log is on exactly if it was opened, until it is closed.
Logs ==
  /\ pc \in {"main", "start"} => logger = NoLog /\ logFile = NoLog /\ ~loggingTests
  /\ pc = "main" => ~logging
  /\ pc # "start" => loggingTests = logging
  /\ logFile = RunLog => logging
  /\ logFile = NoLog => logger # RunLog
  /\ logFile = RunLog /\ pc \in {"libs", "suite", "join"} => logger = RunLog
  /\ summary # NoSummary => logger # RunLog

IInv == TypeOK /\ ReportAccountedFor /\ Position /\ Probing /\ Apart /\ Logs

\* Between two tests no thread of a test runs, and malloc is off.
Settled == pc # "join" => allocCount = -1 /\ \A t \in Threads : ~Live(t)

\* A test never leaves failures lower than it found it, nor does any thread of
\* it hold a value that could; and a failure not taken back shows.
Floor ==
  pc = "join" =>
    /\ failures >= before.failures
    /\ Owed => failures > before.failures
    /\ \A t \in Threads : Updating(t) => reg[t] >= before.failures
    /\ thread[Tester] = "excusing" => reg[Tester] > before.failures
    /\ excused >= before.excused
    /\ printed.fail > before.fail /\ excused = before.excused
         => \/ failures > before.failures
            \/ \E t \in Threads : thread[t] = "failing"

\* The lines a test has printed bound what it adds to the counters.
Lines == printed.fail - before.fail
Ceiling ==
  /\ pc = "main" => failures = 0
  /\ pc = "join" =>
       /\ printed.fail >= before.fail
       /\ failures <= before.failures + Lines
       /\ \A t \in Threads : thread[t] = "failing"
                               => reg[t] < before.failures + Lines
       /\ thread[Tester] = "excusing" => reg[Tester] <= before.failures + Lines
       /\ passes \in before.passes .. before.passes + 1
       /\ thread[Tester] # "exited" => passes = before.passes

\* Each thread of a test prints one result at most: what is printed, and what
\* the threads that have not printed yet may still print.
Left == {h \in Helpers : thread[h] \in {"none", "body"}}
Turns == Cardinality(Left)
           + IF thread[Tester] \in {"body", "waiting", "excusing"} THEN 1 ELSE 0
Quota ==
  pc = "join"
    => Lines + (passes - before.passes) + Turns <= 1 + Cardinality(Helpers)

JInv == IInv /\ Settled /\ Floor /\ Ceiling /\ Quota

----------------------------------------------------------------------------

USE ThreadsAssumption, BoundsAssumption
USE DEF Threads, THREAD_SUCCESS, THREAD_ERROR, THREAD_ABORT, Running,
        NoSummary, NoLog, RunLog, TestLog

\* The initial state satisfies both invariants.
LEMMA InitIInv == Init => IInv
  <1> SUFFICES ASSUME Init PROVE IInv
    OBVIOUS
  <1> USE DEF Init
  <1>1. TypeOK
    <2>1. RunnerType
      BY DEF RunnerType
    <2>2. LogType
      BY DEF LogType
    <2>3. ThreadType
      BY DEF ThreadType
    <2>4. CountType
      <3>1. printed \in [ok : Nat, fail : Nat, abort : Nat]
        OBVIOUS
      <3>2. before \in [passes : Nat, failures : Nat, fail : Nat, excused : Nat]
        OBVIOUS
      <3>3. /\ allocCount \in -1..MaxArm /\ passes \in Nat /\ failures \in Nat
            /\ excused \in Nat
            /\ summary \in Nat \cup {NoSummary} /\ exitCode \in {Running, 0, 1, 2}
        OBVIOUS
      <3>4. overlap \in BOOLEAN
        OBVIOUS
      <3> QED
        BY <3>1, <3>2, <3>3, <3>4 DEF CountType
    <2> QED
      BY <2>1, <2>2, <2>3, <2>4 DEF TypeOK
  <1>2. ReportAccountedFor
    BY DEF ReportAccountedFor, InFlight
  <1>3. Position
    BY DEF Position
  <1>5. Logs
    BY DEF Logs
  <1>4. Probing /\ Apart
    BY DEF Probing, Owed, Apart, Updating
  <1> QED
    BY <1>1, <1>2, <1>3, <1>4, <1>5 DEF IInv

LEMMA InitJInv == Init => JInv
  BY InitIInv DEF Init, JInv, Settled, Live, Floor, Ceiling, Quota

\* The main thread's steps preserve the invariant.
LEMMA MainStep == IInv /\ Main => IInv'
  <1> SUFFICES ASSUME IInv, Main PROVE IInv'
    OBVIOUS
  <1> USE DEF IInv, TypeOK, runnerVars, logVars, counters, threadVars, reportVars
  <1>1. CASE Refuse(0)
    <2>1. RunnerType' /\ LogType'
      BY <1>1 DEF Refuse, RunnerType, LogType, Position
    <2>2. ThreadType' /\ CountType'
      BY <1>1 DEF Refuse, ThreadType, CountType, Position, Probing, Owed
    <2>3. ReportAccountedFor'
      BY <1>1 DEF Refuse, ReportAccountedFor, InFlight, Apart, Updating,
         Probing, Position, ThreadType, CountType
    <2>4. Apart'
      BY <1>1 DEF Refuse, Apart, Updating, Probing, ThreadType, CountType
    <2>5. Position'
      BY <1>1 DEF Refuse, Position, Probing, RunnerType, LogType, ThreadType,
         CountType
    <2>6. Probing'
      BY <1>1 DEF Refuse, Probing, Owed, Position, ThreadType, CountType
    <2>7. Logs'
      BY <1>1 DEF Refuse, Logs, LogType, Position
    <2> QED
      BY <2>1, <2>2, <2>3, <2>4, <2>5, <2>6, <2>7
  <1>2. CASE Refuse(2)
    <2>1. RunnerType' /\ LogType'
      BY <1>2 DEF Refuse, RunnerType, LogType, Position
    <2>2. ThreadType' /\ CountType'
      BY <1>2 DEF Refuse, ThreadType, CountType, Position, Probing, Owed
    <2>3. ReportAccountedFor'
      BY <1>2 DEF Refuse, ReportAccountedFor, InFlight, Apart, Updating,
         Probing, Position, ThreadType, CountType
    <2>4. Apart'
      BY <1>2 DEF Refuse, Apart, Updating, Probing, ThreadType, CountType
    <2>5. Position'
      BY <1>2 DEF Refuse, Position, Probing, RunnerType, LogType, ThreadType,
         CountType
    <2>6. Probing'
      BY <1>2 DEF Refuse, Probing, Owed, Position, ThreadType, CountType
    <2>7. Logs'
      BY <1>2 DEF Refuse, Logs, LogType, Position
    <2> QED
      BY <2>1, <2>2, <2>3, <2>4, <2>5, <2>6, <2>7
  <1>3. ASSUME NEW n \in 1..MaxLibs, NEW log \in BOOLEAN, Accept(n, log) PROVE IInv'
    <2>1. RunnerType' /\ LogType'
      BY <1>3 DEF Accept, RunnerType, LogType, Position
    <2>2. ThreadType' /\ CountType'
      BY <1>3 DEF Accept, ThreadType, CountType, Position, Probing, Owed
    <2>3. ReportAccountedFor'
      BY <1>3 DEF Accept, ReportAccountedFor, InFlight, Apart, Updating,
         Probing, Position, ThreadType, CountType
    <2>4. Apart'
      BY <1>3 DEF Accept, Apart, Updating, Probing, ThreadType, CountType
    <2>5. Position'
      BY <1>3 DEF Accept, Position, Probing, RunnerType, LogType, ThreadType,
         CountType
    <2>6. Probing'
      BY <1>3 DEF Accept, Probing, Owed, Position, ThreadType, CountType
    <2>7. Logs'
      BY <1>3 DEF Accept, Logs, LogType, Position
    <2> QED
      BY <2>1, <2>2, <2>3, <2>4, <2>5, <2>6, <2>7
  <1>4. ASSUME NEW opens \in BOOLEAN, OpenRunLog(opens) PROVE IInv'
    <2>1. RunnerType' /\ LogType'
      BY <1>4 DEF OpenRunLog, RunnerType, LogType, Position
    <2>2. ThreadType' /\ CountType'
      BY <1>4 DEF OpenRunLog, ThreadType, CountType, Position, Probing, Owed
    <2>3. ReportAccountedFor'
      BY <1>4 DEF OpenRunLog, ReportAccountedFor, InFlight, Apart, Updating,
         Probing, Position, ThreadType, CountType
    <2>4. Apart'
      BY <1>4 DEF OpenRunLog, Apart, Updating, Probing, ThreadType, CountType
    <2>5. Position'
      BY <1>4 DEF OpenRunLog, Position, Probing, RunnerType, LogType,
         ThreadType, CountType
    <2>6. Probing'
      BY <1>4 DEF OpenRunLog, Probing, Owed, Position, ThreadType, CountType
    <2>7. Logs'
      BY <1>4 DEF OpenRunLog, Logs, LogType, Position
    <2> QED
      BY <2>1, <2>2, <2>3, <2>4, <2>5, <2>6, <2>7
  <1>5. CASE OutOfMemory
    <2>1. RunnerType' /\ LogType'
      BY <1>5 DEF OutOfMemory, AfterMalloc, RunnerType, LogType, Position
    <2>2. ThreadType' /\ CountType'
      BY <1>5 DEF OutOfMemory, AfterMalloc, ThreadType, CountType, Position,
         Probing, Owed
    <2>3. ReportAccountedFor'
      BY <1>5 DEF OutOfMemory, AfterMalloc, ReportAccountedFor, InFlight,
         Apart, Updating, Probing, Position, ThreadType, CountType
    <2>4. Apart'
      BY <1>5 DEF OutOfMemory, AfterMalloc, Apart, Updating, Probing,
         ThreadType, CountType
    <2>5. Position'
      BY <1>5 DEF OutOfMemory, AfterMalloc, Position, Probing, RunnerType,
         LogType, ThreadType, CountType
    <2>6. Probing'
      BY <1>5 DEF OutOfMemory, AfterMalloc, Probing, Owed, Position,
         ThreadType, CountType
    <2>7. Logs'
      BY <1>5 DEF OutOfMemory, AfterMalloc, Logs, LogType, Position
    <2> QED
      BY <2>1, <2>2, <2>3, <2>4, <2>5, <2>6, <2>7
  <1>6. CASE SkipLibrary
    <2>1. RunnerType' /\ LogType'
      BY <1>6 DEF SkipLibrary, AfterMalloc, MallocFails, RunnerType, LogType,
         Position
    <2>2. ThreadType' /\ CountType'
      BY <1>6 DEF SkipLibrary, AfterMalloc, MallocFails, ThreadType,
         CountType, Position, Probing, Owed
    <2>3. ReportAccountedFor'
      BY <1>6 DEF SkipLibrary, AfterMalloc, MallocFails, ReportAccountedFor,
         InFlight, Apart, Updating, Probing, Position, ThreadType, CountType
    <2>4. Apart'
      BY <1>6 DEF SkipLibrary, AfterMalloc, MallocFails, Apart, Updating,
         Probing, ThreadType, CountType
    <2>5. Position'
      BY <1>6 DEF SkipLibrary, AfterMalloc, MallocFails, Position, Probing,
         RunnerType, LogType, ThreadType, CountType
    <2>6. Probing'
      BY <1>6 DEF SkipLibrary, AfterMalloc, MallocFails, Probing, Owed,
         Position, ThreadType, CountType
    <2>7. Logs'
      BY <1>6 DEF SkipLibrary, AfterMalloc, MallocFails, Logs, LogType,
         Position
    <2> QED
      BY <2>1, <2>2, <2>3, <2>4, <2>5, <2>6, <2>7
  <1>7. ASSUME NEW n \in 0..MaxTests, LoadSuite(n) PROVE IInv'
    <2>1. RunnerType' /\ LogType'
      BY <1>7 DEF LoadSuite, AfterMalloc, MallocFails, RunnerType, LogType,
         Position
    <2>2. ThreadType' /\ CountType'
      BY <1>7 DEF LoadSuite, AfterMalloc, MallocFails, ThreadType, CountType,
         Position, Probing, Owed
    <2>3. ReportAccountedFor'
      BY <1>7 DEF LoadSuite, AfterMalloc, MallocFails, ReportAccountedFor,
         InFlight, Apart, Updating, Probing, Position, ThreadType, CountType
    <2>4. Apart'
      BY <1>7 DEF LoadSuite, AfterMalloc, MallocFails, Apart, Updating,
         Probing, ThreadType, CountType
    <2>5. Position'
      BY <1>7 DEF LoadSuite, AfterMalloc, MallocFails, Position, Probing,
         RunnerType, LogType, ThreadType, CountType
    <2>6. Probing'
      BY <1>7 DEF LoadSuite, AfterMalloc, MallocFails, Probing, Owed,
         Position, ThreadType, CountType
    <2>7. Logs'
      BY <1>7 DEF LoadSuite, AfterMalloc, MallocFails, Logs, LogType,
         Position
    <2> QED
      BY <2>1, <2>2, <2>3, <2>4, <2>5, <2>6, <2>7
  <1>8. CASE CreateTest
    <2>1. RunnerType' /\ LogType'
      BY <1>8 DEF CreateTest, RunnerType, LogType, Position
    <2>2. ThreadType' /\ CountType'
      BY <1>8 DEF CreateTest, ThreadType, CountType, Position, Probing, Owed
    <2>3. ReportAccountedFor'
      BY <1>8 DEF CreateTest, ReportAccountedFor, InFlight, Apart, Updating,
         Probing, Position, ThreadType, CountType
    <2>4. Apart'
      BY <1>8 DEF CreateTest, Apart, Updating, Probing, ThreadType, CountType
    <2>5. Position'
      BY <1>8 DEF CreateTest, Position, Probing, RunnerType, LogType,
         ThreadType, CountType
    <2>6. Probing'
      BY <1>8 DEF CreateTest, Probing, Owed, Position, ThreadType, CountType
    <2>7. Logs'
      BY <1>8 DEF CreateTest, Logs, LogType, Position
    <2> QED
      BY <2>1, <2>2, <2>3, <2>4, <2>5, <2>6, <2>7
  <1>9. CASE CreateFails
    <2>1. RunnerType' /\ LogType'
      BY <1>9 DEF CreateFails, RunnerType, LogType, Position
    <2>2. ThreadType' /\ CountType'
      BY <1>9 DEF CreateFails, ThreadType, CountType, Position, Probing, Owed
    <2>3. ReportAccountedFor'
      BY <1>9 DEF CreateFails, ReportAccountedFor, InFlight, Apart, Updating,
         Probing, Position, ThreadType, CountType
    <2>4. Apart'
      BY <1>9 DEF CreateFails, Apart, Updating, Probing, ThreadType,
         CountType
    <2>5. Position'
      BY <1>9 DEF CreateFails, Position, Probing, RunnerType, LogType,
         ThreadType, CountType
    <2>6. Probing'
      BY <1>9 DEF CreateFails, Probing, Owed, Position, ThreadType, CountType
    <2>7. Logs'
      BY <1>9 DEF CreateFails, Logs, LogType, Position
    <2> QED
      BY <2>1, <2>2, <2>3, <2>4, <2>5, <2>6, <2>7
  <1>10. CASE JoinTest
    <2>1. RunnerType' /\ LogType'
      BY <1>10 DEF JoinTest, AfterJoin, NextTest, EndsRun, HelpersOver,
         RunnerType, LogType, Position
    <2>2. ThreadType' /\ CountType'
      BY <1>10 DEF JoinTest, AfterJoin, NextTest, EndsRun, HelpersOver,
         ThreadType, CountType, Position, Probing, Owed
    <2>3. ReportAccountedFor'
      BY <1>10 DEF JoinTest, AfterJoin, NextTest, EndsRun, HelpersOver,
         ReportAccountedFor, InFlight, Apart, Updating, Probing, Position,
         ThreadType, CountType
    <2>4. Apart'
      BY <1>10 DEF JoinTest, AfterJoin, NextTest, EndsRun, HelpersOver,
         Apart, Updating, Probing, ThreadType, CountType
    <2>5. Position'
      BY <1>10 DEF JoinTest, AfterJoin, NextTest, EndsRun, HelpersOver,
         Position, Probing, RunnerType, LogType, ThreadType, CountType
    <2>6. Probing'
      BY <1>10 DEF JoinTest, AfterJoin, NextTest, EndsRun, HelpersOver,
         Probing, Owed, Position, ThreadType, CountType
    <2>7. Logs'
      BY <1>10 DEF JoinTest, AfterJoin, NextTest, EndsRun, HelpersOver, Logs,
         LogType, Position
    <2> QED
      BY <2>1, <2>2, <2>3, <2>4, <2>5, <2>6, <2>7
  <1>11. CASE EndSuite
    <2>1. RunnerType' /\ LogType'
      BY <1>11 DEF EndSuite, RunnerType, LogType, Position
    <2>2. ThreadType' /\ CountType'
      BY <1>11 DEF EndSuite, ThreadType, CountType, Position, Probing, Owed
    <2>3. ReportAccountedFor'
      BY <1>11 DEF EndSuite, ReportAccountedFor, InFlight, Apart, Updating,
         Probing, Position, ThreadType, CountType
    <2>4. Apart'
      BY <1>11 DEF EndSuite, Apart, Updating, Probing, ThreadType, CountType
    <2>5. Position'
      BY <1>11 DEF EndSuite, Position, Probing, RunnerType, LogType,
         ThreadType, CountType
    <2>6. Probing'
      BY <1>11 DEF EndSuite, Probing, Owed, Position, ThreadType, CountType
    <2>7. Logs'
      BY <1>11 DEF EndSuite, Logs, LogType, Position
    <2> QED
      BY <2>1, <2>2, <2>3, <2>4, <2>5, <2>6, <2>7
  <1>12. CASE PrintStats
    <2>1. RunnerType' /\ LogType'
      BY <1>12 DEF PrintStats, AfterStop, RunnerType, LogType, Position
    <2>2. ThreadType' /\ CountType'
      BY <1>12 DEF PrintStats, AfterStop, ThreadType, CountType, Position,
         Probing, Owed
    <2>3. ReportAccountedFor'
      BY <1>12 DEF PrintStats, AfterStop, ReportAccountedFor, InFlight,
         Apart, Updating, Probing, Position, ThreadType, CountType
    <2>4. Apart'
      BY <1>12 DEF PrintStats, AfterStop, Apart, Updating, Probing,
         ThreadType, CountType
    <2>5. Position'
      BY <1>12 DEF PrintStats, AfterStop, Position, Probing, RunnerType,
         LogType, ThreadType, CountType
    <2>6. Probing'
      BY <1>12 DEF PrintStats, AfterStop, Probing, Owed, Position,
         ThreadType, CountType
    <2>7. Logs'
      BY <1>12 DEF PrintStats, AfterStop, Logs, LogType, Position
    <2> QED
      BY <2>1, <2>2, <2>3, <2>4, <2>5, <2>6, <2>7
  <1>13. CASE Exit
    <2>1. RunnerType' /\ LogType'
      BY <1>13 DEF Exit, ExitStatus, RunnerType, LogType, Position
    <2>2. ThreadType' /\ CountType'
      BY <1>13 DEF Exit, ExitStatus, ThreadType, CountType, Position,
         Probing, Owed
    <2>3. ReportAccountedFor'
      BY <1>13 DEF Exit, ExitStatus, ReportAccountedFor, InFlight, Apart,
         Updating, Probing, Position, ThreadType, CountType
    <2>4. Apart'
      BY <1>13 DEF Exit, ExitStatus, Apart, Updating, Probing, ThreadType,
         CountType
    <2>5. Position'
      BY <1>13 DEF Exit, ExitStatus, Position, Probing, RunnerType, LogType,
         ThreadType, CountType
    <2>6. Probing'
      BY <1>13 DEF Exit, ExitStatus, Probing, Owed, Position, ThreadType,
         CountType
    <2>7. Logs'
      BY <1>13 DEF Exit, ExitStatus, Logs, LogType, Position
    <2> QED
      BY <2>1, <2>2, <2>3, <2>4, <2>5, <2>6, <2>7
  <1> QED
    BY <1>1, <1>2, <1>3, <1>4, <1>5, <1>6, <1>7, <1>8, <1>9, <1>10, <1>11,
       <1>12, <1>13 DEF Main

\* So do the calls of a test body,
LEMMA BodyStep == IInv /\ Body => IInv'
  <1> SUFFICES ASSUME IInv, Body PROVE IInv'
    OBVIOUS
  <1> USE DEF IInv, TypeOK, runnerVars, logVars, counters, threadVars, reportVars
  <1>1. ASSUME NEW opens \in BOOLEAN, StartLog(opens) PROVE IInv'
    <2>1. RunnerType' /\ LogType'
      BY <1>1 DEF StartLog, InBody, running, AfterMalloc, MallocFails,
         RunnerType, LogType, Position
    <2>2. ThreadType' /\ CountType'
      BY <1>1 DEF StartLog, InBody, running, AfterMalloc, MallocFails,
         ThreadType, CountType, Position, Probing, Owed
    <2>3. ReportAccountedFor'
      BY <1>1 DEF StartLog, InBody, running, AfterMalloc, MallocFails,
         ReportAccountedFor, InFlight, Apart, Updating, Probing, Position,
         ThreadType, CountType
    <2>4. Apart'
      BY <1>1 DEF StartLog, InBody, running, AfterMalloc, MallocFails, Apart,
         Updating, Probing, ThreadType, CountType
    <2>5. Position'
      BY <1>1 DEF StartLog, InBody, running, AfterMalloc, MallocFails,
         Position, Probing, RunnerType, LogType, ThreadType, CountType
    <2>6. Probing'
      BY <1>1 DEF StartLog, InBody, running, AfterMalloc, MallocFails,
         Probing, Owed, Position, ThreadType, CountType
    <2>7. Logs'
      BY <1>1 DEF StartLog, InBody, running, AfterMalloc, MallocFails, Logs,
         LogType, Position
    <2> QED
      BY <2>1, <2>2, <2>3, <2>4, <2>5, <2>6, <2>7
  <1>2. CASE StopLog
    <2>1. RunnerType' /\ LogType'
      BY <1>2 DEF StopLog, InBody, running, AfterStop, RunnerType, LogType,
         Position
    <2>2. ThreadType' /\ CountType'
      BY <1>2 DEF StopLog, InBody, running, AfterStop, ThreadType, CountType,
         Position, Probing, Owed
    <2>3. ReportAccountedFor'
      BY <1>2 DEF StopLog, InBody, running, AfterStop, ReportAccountedFor,
         InFlight, Apart, Updating, Probing, Position, ThreadType, CountType
    <2>4. Apart'
      BY <1>2 DEF StopLog, InBody, running, AfterStop, Apart, Updating,
         Probing, ThreadType, CountType
    <2>5. Position'
      BY <1>2 DEF StopLog, InBody, running, AfterStop, Position, Probing,
         RunnerType, LogType, ThreadType, CountType
    <2>6. Probing'
      BY <1>2 DEF StopLog, InBody, running, AfterStop, Probing, Owed,
         Position, ThreadType, CountType
    <2>7. Logs'
      BY <1>2 DEF StopLog, InBody, running, AfterStop, Logs, LogType,
         Position
    <2> QED
      BY <2>1, <2>2, <2>3, <2>4, <2>5, <2>6, <2>7
  <1>3. ASSUME NEW t \in Threads, NEW n \in 0..MaxArm, Arm(t, n) PROVE IInv'
    <2>1. RunnerType' /\ LogType'
      BY <1>3 DEF Arm, InBody, running, RunnerType, LogType, Position
    <2>2. ThreadType' /\ CountType'
      BY <1>3 DEF Arm, InBody, running, ThreadType, CountType, Position,
         Probing, Owed
    <2>3. ReportAccountedFor'
      BY <1>3 DEF Arm, InBody, running, ReportAccountedFor, InFlight, Apart,
         Updating, Probing, Position, ThreadType, CountType
    <2>4. Apart'
      BY <1>3 DEF Arm, InBody, running, Apart, Updating, Probing, ThreadType,
         CountType
    <2>5. Position'
      BY <1>3 DEF Arm, InBody, running, Position, Probing, RunnerType,
         LogType, ThreadType, CountType
    <2>6. Probing'
      BY <1>3 DEF Arm, InBody, running, Probing, Owed, Position, ThreadType,
         CountType
    <2>7. Logs'
      BY <1>3 DEF Arm, InBody, running, Logs, LogType, Position
    <2> QED
      BY <2>1, <2>2, <2>3, <2>4, <2>5, <2>6, <2>7
  <1>4. ASSUME NEW t \in Threads, Malloc(t) PROVE IInv'
    <2>1. RunnerType' /\ LogType'
      BY <1>4 DEF Malloc, InBody, running, AfterMalloc, RunnerType, LogType,
         Position
    <2>2. ThreadType' /\ CountType'
      BY <1>4 DEF Malloc, InBody, running, AfterMalloc, ThreadType,
         CountType, Position, Probing, Owed
    <2>3. ReportAccountedFor'
      BY <1>4 DEF Malloc, InBody, running, AfterMalloc, ReportAccountedFor,
         InFlight, Apart, Updating, Probing, Position, ThreadType, CountType
    <2>4. Apart'
      BY <1>4 DEF Malloc, InBody, running, AfterMalloc, Apart, Updating,
         Probing, ThreadType, CountType
    <2>5. Position'
      BY <1>4 DEF Malloc, InBody, running, AfterMalloc, Position, Probing,
         RunnerType, LogType, ThreadType, CountType
    <2>6. Probing'
      BY <1>4 DEF Malloc, InBody, running, AfterMalloc, Probing, Owed,
         Position, ThreadType, CountType
    <2>7. Logs'
      BY <1>4 DEF Malloc, InBody, running, AfterMalloc, Logs, LogType,
         Position
    <2> QED
      BY <2>1, <2>2, <2>3, <2>4, <2>5, <2>6, <2>7
  <1>5. ASSUME NEW h \in Helpers, Spawn(h) PROVE IInv'
    <2>1. RunnerType' /\ LogType'
      BY <1>5 DEF Spawn, InBody, running, RunnerType, LogType, Position
    <2>2. ThreadType' /\ CountType'
      BY <1>5 DEF Spawn, InBody, running, ThreadType, CountType, Position,
         Probing, Owed
    <2>3. ReportAccountedFor'
      BY <1>5 DEF Spawn, InBody, running, ReportAccountedFor, InFlight,
         Apart, Updating, Probing, Position, ThreadType, CountType
    <2>4. Apart'
      BY <1>5 DEF Spawn, InBody, running, Apart, Updating, Probing,
         ThreadType, CountType
    <2>5. Position'
      BY <1>5 DEF Spawn, InBody, running, Position, Probing, RunnerType,
         LogType, ThreadType, CountType
    <2>6. Probing'
      BY <1>5 DEF Spawn, InBody, running, Probing, Owed, Position,
         ThreadType, CountType
    <2>7. Logs'
      BY <1>5 DEF Spawn, InBody, running, Logs, LogType, Position
    <2> QED
      BY <2>1, <2>2, <2>3, <2>4, <2>5, <2>6, <2>7
  <1>6. ASSUME NEW h \in Helpers, Join(h) PROVE IInv'
    <2>1. RunnerType' /\ LogType'
      BY <1>6 DEF Join, InBody, running, RunnerType, LogType, Position
    <2>2. ThreadType' /\ CountType'
      BY <1>6 DEF Join, InBody, running, ThreadType, CountType, Position,
         Probing, Owed
    <2>3. ReportAccountedFor'
      BY <1>6 DEF Join, InBody, running, ReportAccountedFor, InFlight, Apart,
         Updating, Probing, Position, ThreadType, CountType
    <2>4. Apart'
      BY <1>6 DEF Join, InBody, running, Apart, Updating, Probing,
         ThreadType, CountType
    <2>5. Position'
      BY <1>6 DEF Join, InBody, running, Position, Probing, RunnerType,
         LogType, ThreadType, CountType
    <2>6. Probing'
      BY <1>6 DEF Join, InBody, running, Probing, Owed, Position, ThreadType,
         CountType
    <2>7. Logs'
      BY <1>6 DEF Join, InBody, running, Logs, LogType, Position
    <2> QED
      BY <2>1, <2>2, <2>3, <2>4, <2>5, <2>6, <2>7
  <1>7. ASSUME NEW h \in Helpers, Probe(h) PROVE IInv'
    <2>1. RunnerType' /\ LogType'
      BY <1>7 DEF Probe, InBody, running, RunnerType, LogType, Position
    <2>2. ThreadType' /\ CountType'
      BY <1>7 DEF Probe, InBody, running, ThreadType, CountType, Position,
         Probing, Owed
    <2>3. ReportAccountedFor'
      BY <1>7 DEF Probe, InBody, running, ReportAccountedFor, InFlight,
         Apart, Updating, Probing, Position, ThreadType, CountType
    <2>4. Apart'
      BY <1>7 DEF Probe, InBody, running, Apart, Updating, Probing,
         ThreadType, CountType
    <2>5. Position'
      BY <1>7 DEF Probe, InBody, running, Position, Probing, RunnerType,
         LogType, ThreadType, CountType
    <2>6. Probing'
      BY <1>7 DEF Probe, InBody, running, Probing, Owed, Position,
         ThreadType, CountType
    <2>7. Logs'
      BY <1>7 DEF Probe, InBody, running, Logs, LogType, Position
    <2> QED
      BY <2>1, <2>2, <2>3, <2>4, <2>5, <2>6, <2>7
  <1> QED
    BY <1>1, <1>2, <1>3, <1>4, <1>5, <1>6, <1>7 DEF Body

\* and the steps that lead a thread of a test to its end.
LEMMA EndingStep ==
  ASSUME IInv, NEW t \in Threads, Ending(t)
  PROVE  IInv'
  <1> USE DEF IInv, TypeOK, runnerVars, logVars, counters, threadVars, reportVars
  <1>1. CASE FailPrint(t)
    <2>1. RunnerType' /\ LogType'
      BY <1>1 DEF FailPrint, InBody, running, Load, Loaded, RunnerType,
         LogType, Position
    <2>2. ThreadType' /\ CountType'
      BY <1>1 DEF FailPrint, InBody, running, Load, Loaded, ThreadType,
         CountType, Position, Probing, Owed
    <2>3. ReportAccountedFor'
      <3> USE <1>1 DEF FailPrint, InBody, running, Load, Loaded
      <3>1. CASE overlap'
        BY <3>1 DEF ReportAccountedFor, CountType
      <3>2. CASE ~overlap'
        <4>1. ~overlap /\ \A u \in Threads : thread[u] # "failing"
          BY <3>2 DEF Updating, ThreadType
        <4>2. InFlight = 0 /\ InFlight' = 1
          BY <4>1 DEF InFlight, ThreadType
        <4> QED
          BY <4>1, <4>2 DEF ReportAccountedFor, CountType
      <3> QED
        BY <3>1, <3>2
    <2>4. Apart'
      BY <1>1 DEF FailPrint, InBody, running, Load, Loaded, Apart, Updating,
         Probing, ThreadType, CountType
    <2>5. Position'
      BY <1>1 DEF FailPrint, InBody, running, Load, Loaded, Position,
         Probing, RunnerType, LogType, ThreadType, CountType
    <2>6. Probing'
      BY <1>1 DEF FailPrint, InBody, running, Load, Loaded, Probing, Owed,
         Position, ThreadType, CountType
    <2>7. Logs'
      BY <1>1 DEF FailPrint, InBody, running, Load, Loaded, Logs, LogType,
         Position
    <2> QED
      BY <2>1, <2>2, <2>3, <2>4, <2>5, <2>6, <2>7
  <1>2. CASE FailStore(t)
    <2>1. RunnerType' /\ LogType'
      BY <1>2 DEF FailStore, running, Ends, OneMore, RunnerType, LogType,
         Position
    <2>2. ThreadType' /\ CountType'
      BY <1>2 DEF FailStore, running, Ends, OneMore, ThreadType, CountType,
         Position, Probing, Owed
    <2>3. ReportAccountedFor'
      BY <1>2 DEF FailStore, running, Ends, OneMore, ReportAccountedFor,
         InFlight, Apart, Updating, Probing, Position, ThreadType, CountType
    <2>4. Apart'
      BY <1>2 DEF FailStore, running, Ends, OneMore, Apart, Updating,
         Probing, ThreadType, CountType
    <2>5. Position'
      BY <1>2 DEF FailStore, running, Ends, OneMore, Position, Probing,
         RunnerType, LogType, ThreadType, CountType
    <2>6. Probing'
      BY <1>2 DEF FailStore, running, Ends, OneMore, Probing, Owed, Position,
         ThreadType, CountType
    <2>7. Logs'
      BY <1>2 DEF FailStore, running, Ends, OneMore, Logs, LogType, Position
    <2> QED
      BY <2>1, <2>2, <2>3, <2>4, <2>5, <2>6, <2>7
  <1>3. CASE AbortPrint(t)
    <2>1. RunnerType' /\ LogType'
      BY <1>3 DEF AbortPrint, InBody, running, Ends, RunnerType, LogType,
         Position
    <2>2. ThreadType' /\ CountType'
      BY <1>3 DEF AbortPrint, InBody, running, Ends, ThreadType, CountType,
         Position, Probing, Owed
    <2>3. ReportAccountedFor'
      BY <1>3 DEF AbortPrint, InBody, running, Ends, ReportAccountedFor,
         InFlight, Apart, Updating, Probing, Position, ThreadType, CountType
    <2>4. Apart'
      BY <1>3 DEF AbortPrint, InBody, running, Ends, Apart, Updating,
         Probing, ThreadType, CountType
    <2>5. Position'
      BY <1>3 DEF AbortPrint, InBody, running, Ends, Position, Probing,
         RunnerType, LogType, ThreadType, CountType
    <2>6. Probing'
      BY <1>3 DEF AbortPrint, InBody, running, Ends, Probing, Owed, Position,
         ThreadType, CountType
    <2>7. Logs'
      BY <1>3 DEF AbortPrint, InBody, running, Ends, Logs, LogType, Position
    <2> QED
      BY <2>1, <2>2, <2>3, <2>4, <2>5, <2>6, <2>7
  <1>4. CASE Quit(t)
    <2>1. RunnerType' /\ LogType'
      BY <1>4 DEF Quit, InBody, running, Ends, RunnerType, LogType, Position
    <2>2. ThreadType' /\ CountType'
      BY <1>4 DEF Quit, InBody, running, Ends, ThreadType, CountType,
         Position, Probing, Owed
    <2>3. ReportAccountedFor'
      BY <1>4 DEF Quit, InBody, running, Ends, ReportAccountedFor, InFlight,
         Apart, Updating, Probing, Position, ThreadType, CountType
    <2>4. Apart'
      BY <1>4 DEF Quit, InBody, running, Ends, Apart, Updating, Probing,
         ThreadType, CountType
    <2>5. Position'
      BY <1>4 DEF Quit, InBody, running, Ends, Position, Probing, RunnerType,
         LogType, ThreadType, CountType
    <2>6. Probing'
      BY <1>4 DEF Quit, InBody, running, Ends, Probing, Owed, Position,
         ThreadType, CountType
    <2>7. Logs'
      BY <1>4 DEF Quit, InBody, running, Ends, Logs, LogType, Position
    <2> QED
      BY <2>1, <2>2, <2>3, <2>4, <2>5, <2>6, <2>7
  <1>5. CASE t = Tester /\ Return
    <2>1. RunnerType' /\ LogType'
      BY <1>5 DEF Return, InBody, running, Ends, LogAfterTest, RunnerType,
         LogType, Position
    <2>2. ThreadType' /\ CountType'
      BY <1>5 DEF Return, InBody, running, Ends, LogAfterTest, ThreadType,
         CountType, Position, Probing, Owed
    <2>3. ReportAccountedFor'
      BY <1>5 DEF Return, InBody, running, Ends, LogAfterTest,
         ReportAccountedFor, InFlight, Apart, Updating, Probing, Position,
         ThreadType, CountType
    <2>4. Apart'
      BY <1>5 DEF Return, InBody, running, Ends, LogAfterTest, Apart,
         Updating, Probing, ThreadType, CountType
    <2>5. Position'
      BY <1>5 DEF Return, InBody, running, Ends, LogAfterTest, Position,
         Probing, RunnerType, LogType, ThreadType, CountType
    <2>6. Probing'
      BY <1>5 DEF Return, InBody, running, Ends, LogAfterTest, Probing, Owed,
         Position, ThreadType, CountType
    <2>7. Logs'
      BY <1>5 DEF Return, InBody, running, Ends, LogAfterTest, Logs, LogType,
         Position
    <2> QED
      BY <2>1, <2>2, <2>3, <2>4, <2>5, <2>6, <2>7
  <1>6. CASE t = Tester /\ JoinProbe /\ ProbeFailed
    <2>1. RunnerType' /\ LogType'
      BY <1>6 DEF JoinProbe, ProbeFailed, running, Load, Loaded, RunnerType,
         LogType, Position
    <2>2. ThreadType' /\ CountType'
      BY <1>6 DEF JoinProbe, ProbeFailed, running, Load, Loaded, ThreadType,
         CountType, Position, Probing, Owed
    <2>3. ReportAccountedFor'
      BY <1>6 DEF JoinProbe, ProbeFailed, running, Load, Loaded,
         ReportAccountedFor, InFlight, Apart, Updating, Probing, Position,
         ThreadType, CountType
    <2>4. Apart'
      BY <1>6 DEF JoinProbe, ProbeFailed, running, Load, Loaded, Apart,
         Updating, Probing, ThreadType, CountType
    <2>5. Position'
      BY <1>6 DEF JoinProbe, ProbeFailed, running, Load, Loaded, Position,
         Probing, RunnerType, LogType, ThreadType, CountType
    <2>6. Probing'
      BY <1>6 DEF JoinProbe, ProbeFailed, running, Load, Loaded, Probing,
         Owed, Position, ThreadType, CountType
    <2>7. Logs'
      BY <1>6 DEF JoinProbe, ProbeFailed, running, Load, Loaded, Logs,
         LogType, Position
    <2> QED
      BY <2>1, <2>2, <2>3, <2>4, <2>5, <2>6, <2>7
  <1>7. CASE t = Tester /\ JoinProbe /\ ProbeAborted
    <2>1. RunnerType' /\ LogType'
      BY <1>7 DEF JoinProbe, ProbeAborted, running, RunnerType, LogType,
         Position
    <2>2. ThreadType' /\ CountType'
      BY <1>7 DEF JoinProbe, ProbeAborted, running, ThreadType, CountType,
         Position, Probing, Owed
    <2>3. ReportAccountedFor'
      BY <1>7 DEF JoinProbe, ProbeAborted, running, ReportAccountedFor,
         InFlight, Apart, Updating, Probing, Position, ThreadType, CountType
    <2>4. Apart'
      BY <1>7 DEF JoinProbe, ProbeAborted, running, Apart, Updating, Probing,
         ThreadType, CountType
    <2>5. Position'
      BY <1>7 DEF JoinProbe, ProbeAborted, running, Position, Probing,
         RunnerType, LogType, ThreadType, CountType
    <2>6. Probing'
      BY <1>7 DEF JoinProbe, ProbeAborted, running, Probing, Owed, Position,
         ThreadType, CountType
    <2>7. Logs'
      BY <1>7 DEF JoinProbe, ProbeAborted, running, Logs, LogType, Position
    <2> QED
      BY <2>1, <2>2, <2>3, <2>4, <2>5, <2>6, <2>7
  <1>8. CASE t = Tester /\ JoinProbe /\ ProbeSilent
    <2>1. RunnerType' /\ LogType'
      BY <1>8 DEF JoinProbe, ProbeSilent, running, Load, Loaded, RunnerType,
         LogType, Position
    <2>2. ThreadType' /\ CountType'
      BY <1>8 DEF JoinProbe, ProbeSilent, running, Load, Loaded, ThreadType,
         CountType, Position, Probing, Owed
    <2>3. ReportAccountedFor'
      <3> USE <1>8 DEF JoinProbe, ProbeSilent, running, Load, Loaded
      <3>1. CASE overlap'
        BY <3>1 DEF ReportAccountedFor, CountType
      <3>2. CASE ~overlap'
        <4>1. ~overlap /\ \A u \in Threads : thread[u] # "failing"
          BY <3>2 DEF Updating, ThreadType
        <4>2. InFlight = 0 /\ InFlight' = 1
          BY <4>1 DEF InFlight, ThreadType
        <4> QED
          BY <4>1, <4>2 DEF ReportAccountedFor, CountType
      <3> QED
        BY <3>1, <3>2
    <2>4. Apart'
      BY <1>8 DEF JoinProbe, ProbeSilent, running, Load, Loaded, Apart,
         Updating, Probing, ThreadType, CountType
    <2>5. Position'
      BY <1>8 DEF JoinProbe, ProbeSilent, running, Load, Loaded, Position,
         Probing, RunnerType, LogType, ThreadType, CountType
    <2>6. Probing'
      BY <1>8 DEF JoinProbe, ProbeSilent, running, Load, Loaded, Probing,
         Owed, Position, ThreadType, CountType
    <2>7. Logs'
      BY <1>8 DEF JoinProbe, ProbeSilent, running, Load, Loaded, Logs,
         LogType, Position
    <2> QED
      BY <2>1, <2>2, <2>3, <2>4, <2>5, <2>6, <2>7
  <1>9. CASE t = Tester /\ ExcuseStore
    <2>1. RunnerType' /\ LogType'
      BY <1>9 DEF ExcuseStore, running, RunnerType, LogType, Position
    <2>2. ThreadType' /\ CountType'
      BY <1>9 DEF ExcuseStore, running, ThreadType, CountType, Position,
         Probing, Owed
    <2>3. ReportAccountedFor'
      BY <1>9 DEF ExcuseStore, running, ReportAccountedFor, InFlight, Apart,
         Updating, Probing, Position, ThreadType, CountType
    <2>4. Apart'
      BY <1>9 DEF ExcuseStore, running, Apart, Updating, Probing, ThreadType,
         CountType
    <2>5. Position'
      BY <1>9 DEF ExcuseStore, running, Position, Probing, RunnerType,
         LogType, ThreadType, CountType
    <2>6. Probing'
      BY <1>9 DEF ExcuseStore, running, Probing, Owed, Position, ThreadType,
         CountType
    <2>7. Logs'
      BY <1>9 DEF ExcuseStore, running, Logs, LogType, Position
    <2> QED
      BY <2>1, <2>2, <2>3, <2>4, <2>5, <2>6, <2>7
  <1> QED
    BY <1>1, <1>2, <1>3, <1>4, <1>5, <1>6, <1>7, <1>8, <1>9 DEF Ending,
       JoinProbe

\* Every step of the engine, and stuttering, preserves the invariant.
LEMMA StepIInv == IInv /\ [Next]_vars => IInv'
  <1> SUFFICES ASSUME IInv, [Next]_vars PROVE IInv'
    OBVIOUS
  <1>1. CASE Main
    BY <1>1, MainStep
  <1>2. CASE Body
    BY <1>2, BodyStep
  <1>3. ASSUME NEW t \in Threads, Ending(t) PROVE IInv'
    BY <1>3, EndingStep
  <1>4. CASE Done \/ UNCHANGED vars
    <2> USE <1>4 DEF Done, vars, runnerVars, logVars, counters, threadVars, reportVars
    <2>1. TypeOK'
      BY DEF IInv, TypeOK, RunnerType, LogType, ThreadType, CountType
    <2>2. ReportAccountedFor' /\ Position' /\ Apart'
      BY DEF IInv, ReportAccountedFor, InFlight, Position, Apart, Updating
    <2>3. Probing' /\ Logs'
      BY DEF IInv, Probing, Owed, Logs
    <2> QED
      BY <2>1, <2>2, <2>3 DEF IInv
  <1> QED
    BY <1>1, <1>2, <1>3, <1>4 DEF Next

\* The invariant holds throughout every run, however the threads interleave.
THEOREM Invariance == Spec => []IInv
  BY InitIInv, StepIInv, PTL DEF Spec

\* The variables keep their types: no counter of results goes below zero, and
\* an unarmed malloc stays unarmed.
THEOREM TypeCorrect == Spec => []TypeOK
  <1>1. IInv => TypeOK
    BY DEF IInv
  <1> QED
    BY <1>1, Invariance, PTL

\* printStats() and the exit status agree with the result lines printed, for
\* any number of threads, as long as no two updates of failures overlap.
THEOREM ReportIsAccountedFor == Spec => []ReportAccountedFor
  <1>1. IInv => ReportAccountedFor
    BY DEF IInv
  <1> QED
    BY <1>1, Invariance, PTL

\* The log opened for --log is on for as long as tests run, and no longer.
THEOREM RunLogIsKept == Spec => []RunLogKept
  <1>1. IInv => RunLogKept
    BY DEF IInv, Logs, RunLogKept
  <1> QED
    BY <1>1, Invariance, PTL

\* The size of a set of helpers, and of what is left when some, or one, go.
LEMMA Sizes ==
  ASSUME NEW S \in SUBSET Helpers
  PROVE  /\ Cardinality(S) \in Nat /\ Cardinality(Helpers) \in Nat
         /\ Cardinality(S) <= Cardinality(Helpers)
         /\ \A R \in SUBSET S : Cardinality(R) \in Nat /\ Cardinality(R) <= Cardinality(S)
         /\ \A h \in S : Cardinality(S \ {h}) = Cardinality(S) - 1
  BY FS_Subset, FS_CardinalityType, FS_RemoveElement

\* Between tests nothing of JInv but the quiet of Settled is at stake, when the
\* main thread creates a test it all starts afresh, and joining ends it.
LEMMA MainJoined == Strays = {} /\ JInv /\ Main => JInv'
  <1> SUFFICES ASSUME Strays = {}, JInv, Main PROVE JInv'
    OBVIOUS
  <1> USE DEF JInv, runnerVars, logVars, counters, threadVars, reportVars
  <1>1. IInv'
    BY MainStep
  <1>2. CASE CreateTest
    <2> USE <1>2 DEF CreateTest, IInv, TypeOK, RunnerType, ThreadType, CountType
    <2>1. Settled' /\ Floor' /\ Ceiling'
      BY DEF Settled, Floor, Owed, Updating, Live, Ceiling, Lines, Position
    <2>2. Quota'
      BY Sizes DEF Quota, Turns, Lines, Left
    <2> QED
      BY <1>1, <2>1, <2>2
  <1>3. CASE JoinTest
    BY <1>1, <1>3 DEF JoinTest, HelpersOver, AfterJoin, Settled, Live, Floor,
       Ceiling, Quota, IInv, TypeOK, ThreadType
  <1>4. CASE ~CreateTest /\ ~JoinTest
    <2>1. UNCHANGED thread /\ failures' = failures /\ pc # "join" /\ pc' \notin {"join", "main"}
      BY <1>4 DEF Main, Refuse, Accept, OpenRunLog, OutOfMemory, SkipLibrary,
         LoadSuite, CreateFails, EndSuite, PrintStats, Exit
    <2>2. allocCount' \in {allocCount, AfterMalloc}
      BY <1>4 DEF Main, Refuse, Accept, OpenRunLog, OutOfMemory, SkipLibrary,
         LoadSuite, CreateFails, EndSuite, PrintStats, Exit
    <2> QED
      BY <1>1, <2>1, <2>2 DEF Settled, Live, Floor, Ceiling, Quota, AfterMalloc
  <1> QED
    BY <1>2, <1>3, <1>4

\* A test body's calls print and count nothing, ...
LEMMA BodyJoined == JInv /\ Body => JInv'
  <1> SUFFICES ASSUME JInv, Body PROVE JInv'
    OBVIOUS
  <1> USE DEF JInv, runnerVars, logVars, counters, threadVars, reportVars
  <1>0. IInv'
    BY BodyStep
  <1>1. ASSUME NEW opens \in BOOLEAN, StartLog(opens) PROVE JInv'
    <2>1. Settled'
      BY <1>1 DEF StartLog, InBody, running, AfterMalloc, MallocFails,
         Settled, Live, IInv, TypeOK, Position, ThreadType, CountType,
         RunnerType, Probing
    <2>2. Floor'
      BY <1>1 DEF StartLog, InBody, running, AfterMalloc, MallocFails,
         Settled, Live, Floor, Owed, Updating, Probing, IInv, TypeOK,
         Position, ThreadType, CountType, RunnerType
    <2>3. Ceiling'
      BY <1>1 DEF StartLog, InBody, running, AfterMalloc, MallocFails,
         Settled, Live, Ceiling, Lines, Updating, Probing, IInv, TypeOK,
         Position, ThreadType, CountType, RunnerType
    <2>4. Quota'
      BY <1>1 DEF StartLog, InBody, running, AfterMalloc, MallocFails,
         Settled, Live, Quota, Turns, Ceiling, Lines, Left, Probing, IInv,
         TypeOK, Position, ThreadType, CountType, RunnerType
    <2> QED
      BY <1>0, <2>1, <2>2, <2>3, <2>4
  <1>2. CASE StopLog
    <2>1. Settled'
      BY <1>2 DEF StopLog, InBody, running, AfterStop, Settled, Live, IInv,
         TypeOK, Position, ThreadType, CountType, RunnerType, Probing
    <2>2. Floor'
      BY <1>2 DEF StopLog, InBody, running, AfterStop, Settled, Live, Floor,
         Owed, Updating, Probing, IInv, TypeOK, Position, ThreadType,
         CountType, RunnerType
    <2>3. Ceiling'
      BY <1>2 DEF StopLog, InBody, running, AfterStop, Settled, Live,
         Ceiling, Lines, Updating, Probing, IInv, TypeOK, Position,
         ThreadType, CountType, RunnerType
    <2>4. Quota'
      BY <1>2 DEF StopLog, InBody, running, AfterStop, Settled, Live, Quota,
         Turns, Ceiling, Lines, Left, Probing, IInv, TypeOK, Position,
         ThreadType, CountType, RunnerType
    <2> QED
      BY <1>0, <2>1, <2>2, <2>3, <2>4
  <1>3. ASSUME NEW t \in Threads, NEW n \in 0..MaxArm, Arm(t, n) PROVE JInv'
    <2>1. Settled'
      BY <1>3 DEF Arm, InBody, running, Settled, Live, IInv, TypeOK,
         Position, ThreadType, CountType, RunnerType, Probing
    <2>2. Floor'
      BY <1>3 DEF Arm, InBody, running, Settled, Live, Floor, Owed, Updating,
         Probing, IInv, TypeOK, Position, ThreadType, CountType, RunnerType
    <2>3. Ceiling'
      BY <1>3 DEF Arm, InBody, running, Settled, Live, Ceiling, Lines,
         Updating, Probing, IInv, TypeOK, Position, ThreadType, CountType,
         RunnerType
    <2>4. Quota'
      BY <1>3 DEF Arm, InBody, running, Settled, Live, Quota, Turns, Ceiling,
         Lines, Left, Probing, IInv, TypeOK, Position, ThreadType, CountType,
         RunnerType
    <2> QED
      BY <1>0, <2>1, <2>2, <2>3, <2>4
  <1>4. ASSUME NEW t \in Threads, Malloc(t) PROVE JInv'
    <2>1. Settled'
      BY <1>4 DEF Malloc, InBody, running, AfterMalloc, Settled, Live, IInv,
         TypeOK, Position, ThreadType, CountType, RunnerType, Probing
    <2>2. Floor'
      BY <1>4 DEF Malloc, InBody, running, AfterMalloc, Settled, Live, Floor,
         Owed, Updating, Probing, IInv, TypeOK, Position, ThreadType,
         CountType, RunnerType
    <2>3. Ceiling'
      BY <1>4 DEF Malloc, InBody, running, AfterMalloc, Settled, Live,
         Ceiling, Lines, Updating, Probing, IInv, TypeOK, Position,
         ThreadType, CountType, RunnerType
    <2>4. Quota'
      BY <1>4 DEF Malloc, InBody, running, AfterMalloc, Settled, Live, Quota,
         Turns, Ceiling, Lines, Left, Probing, IInv, TypeOK, Position,
         ThreadType, CountType, RunnerType
    <2> QED
      BY <1>0, <2>1, <2>2, <2>3, <2>4
  <1>5. ASSUME NEW h \in Helpers, Spawn(h) PROVE JInv'
    <2>1. Settled'
      BY <1>5 DEF Spawn, InBody, running, Settled, Live, IInv, TypeOK,
         Position, ThreadType, CountType, RunnerType, Probing
    <2>2. Floor'
      BY <1>5 DEF Spawn, InBody, running, Settled, Live, Floor, Owed,
         Updating, Probing, IInv, TypeOK, Position, ThreadType, CountType,
         RunnerType
    <2>3. Ceiling'
      BY <1>5 DEF Spawn, InBody, running, Settled, Live, Ceiling, Lines,
         Updating, Probing, IInv, TypeOK, Position, ThreadType, CountType,
         RunnerType
    <2>4. Quota'
      BY <1>5 DEF Spawn, InBody, running, Settled, Live, Quota, Turns,
         Ceiling, Lines, Left, Probing, IInv, TypeOK, Position, ThreadType,
         CountType, RunnerType
    <2> QED
      BY <1>0, <2>1, <2>2, <2>3, <2>4
  <1>6. ASSUME NEW h \in Helpers, Join(h) PROVE JInv'
    <2>1. Settled'
      BY <1>6 DEF Join, InBody, running, Settled, Live, IInv, TypeOK,
         Position, ThreadType, CountType, RunnerType, Probing
    <2>2. Floor'
      BY <1>6 DEF Join, InBody, running, Settled, Live, Floor, Owed,
         Updating, Probing, IInv, TypeOK, Position, ThreadType, CountType,
         RunnerType
    <2>3. Ceiling'
      BY <1>6 DEF Join, InBody, running, Settled, Live, Ceiling, Lines,
         Updating, Probing, IInv, TypeOK, Position, ThreadType, CountType,
         RunnerType
    <2>4. Quota'
      BY <1>6 DEF Join, InBody, running, Settled, Live, Quota, Turns,
         Ceiling, Lines, Left, Probing, IInv, TypeOK, Position, ThreadType,
         CountType, RunnerType
    <2> QED
      BY <1>0, <2>1, <2>2, <2>3, <2>4
  <1>7. ASSUME NEW h \in Helpers, Probe(h) PROVE JInv'
    <2>1. Settled'
      BY <1>7 DEF Probe, InBody, running, Settled, Live, IInv, TypeOK,
         Position, ThreadType, CountType, RunnerType, Probing
    <2>2. Floor'
      BY <1>7 DEF Probe, InBody, running, Settled, Live, Floor, Owed,
         Updating, Probing, IInv, TypeOK, Position, ThreadType, CountType,
         RunnerType
    <2>3. Ceiling'
      BY <1>7 DEF Probe, InBody, running, Settled, Live, Ceiling, Lines,
         Updating, Probing, IInv, TypeOK, Position, ThreadType, CountType,
         RunnerType
    <2>4. Quota'
      <3> USE <1>7 DEF Probe, InBody, running,
              Settled, Live, Quota, Turns, Ceiling, Lines, IInv, TypeOK,
              Position, Probing, ThreadType, CountType
      <3>1. Left' = Left
        BY DEF Left
      <3>2. Cardinality(Left) \in Nat /\ Cardinality(Helpers) \in Nat
        BY Sizes DEF Left
      <3> QED
        BY <3>1, <3>2
    <2> QED
      BY <1>0, <2>1, <2>2, <2>3, <2>4
  <1> QED
    BY <1>1, <1>2, <1>3, <1>4, <1>5, <1>6, <1>7 DEF Body

\* ... and each step towards a thread's end accounts for what it does.
LEMMA EndingJoined ==
  ASSUME JInv, NEW t \in Threads, Ending(t)
  PROVE  JInv'
  <1> USE DEF JInv, runnerVars, logVars, counters, threadVars, reportVars
  <1>0. IInv'
    BY EndingStep
  <1>1. CASE FailPrint(t)
    <2>1. Settled'
      BY <1>1 DEF FailPrint, InBody, running, Load, Loaded, Settled, Live,
         IInv, TypeOK, Position, ThreadType, CountType, RunnerType, Probing
    <2>2. Floor'
      BY <1>1 DEF FailPrint, InBody, running, Load, Loaded, Settled, Live,
         Floor, Owed, Updating, Probing, IInv, TypeOK, Position, ThreadType,
         CountType, RunnerType
    <2>3. Ceiling'
      BY <1>1 DEF FailPrint, InBody, running, Load, Loaded, Settled, Live,
         Ceiling, Lines, Updating, Probing, IInv, TypeOK, Position,
         ThreadType, CountType, RunnerType
    <2>4. Quota'
      <3> USE <1>1 DEF FailPrint, InBody, running, Load, Loaded,
              Settled, Live, Quota, Turns, Ceiling, Lines, IInv, TypeOK,
              Position, Probing, ThreadType, CountType
      <3>1. CASE t = Tester
        <4>1. Left' = Left
          BY <3>1 DEF Left
        <4>2. Cardinality(Left) \in Nat /\ Cardinality(Helpers) \in Nat
          BY Sizes DEF Left
        <4> QED
          BY <3>1, <4>1, <4>2
      <3>2. CASE t \in Helpers
        <4>1. t \in Left /\ Left' = Left \ {t}
          BY <3>2 DEF Left
        <4>2. Left \in SUBSET Helpers /\ Cardinality(Left') = Cardinality(Left) - 1
          BY <4>1, Sizes DEF Left
        <4> QED
          BY <3>2, <4>2, Sizes
      <3> QED
        BY <3>1, <3>2
    <2> QED
      BY <1>0, <2>1, <2>2, <2>3, <2>4
  <1>2. CASE FailStore(t)
    <2>1. Settled'
      BY <1>2 DEF FailStore, running, Ends, OneMore, Settled, Live, IInv,
         TypeOK, Position, ThreadType, CountType, RunnerType, Probing
    <2>2. Floor'
      BY <1>2 DEF FailStore, running, Ends, OneMore, Settled, Live, Floor,
         Owed, Updating, Probing, IInv, TypeOK, Position, ThreadType,
         CountType, RunnerType
    <2>3. Ceiling'
      BY <1>2 DEF FailStore, running, Ends, OneMore, Settled, Live, Ceiling,
         Lines, Updating, Probing, IInv, TypeOK, Position, ThreadType,
         CountType, RunnerType
    <2>4. Quota'
      BY <1>2 DEF FailStore, running, Ends, OneMore, Settled, Live, Quota,
         Turns, Ceiling, Lines, Left, Probing, IInv, TypeOK, Position,
         ThreadType, CountType, RunnerType
    <2> QED
      BY <1>0, <2>1, <2>2, <2>3, <2>4
  <1>3. CASE AbortPrint(t)
    <2>1. Settled'
      BY <1>3 DEF AbortPrint, InBody, running, Ends, Settled, Live, IInv,
         TypeOK, Position, ThreadType, CountType, RunnerType, Probing
    <2>2. Floor'
      BY <1>3 DEF AbortPrint, InBody, running, Ends, Settled, Live, Floor,
         Owed, Updating, Probing, IInv, TypeOK, Position, ThreadType,
         CountType, RunnerType
    <2>3. Ceiling'
      BY <1>3 DEF AbortPrint, InBody, running, Ends, Settled, Live, Ceiling,
         Lines, Updating, Probing, IInv, TypeOK, Position, ThreadType,
         CountType, RunnerType
    <2>4. Quota'
      <3> USE <1>3 DEF AbortPrint, InBody, running, Ends,
              Settled, Live, Quota, Turns, Ceiling, Lines, IInv, TypeOK,
              Position, Probing, ThreadType, CountType
      <3>1. CASE t = Tester
        <4>1. Left' = Left
          BY <3>1 DEF Left
        <4>2. Cardinality(Left) \in Nat /\ Cardinality(Helpers) \in Nat
          BY Sizes DEF Left
        <4> QED
          BY <3>1, <4>1, <4>2
      <3>2. CASE t \in Helpers
        <4>1. t \in Left /\ Left' = Left \ {t}
          BY <3>2 DEF Left
        <4>2. Left \in SUBSET Helpers /\ Cardinality(Left') = Cardinality(Left) - 1
          BY <4>1, Sizes DEF Left
        <4> QED
          BY <3>2, <4>2, Sizes
      <3> QED
        BY <3>1, <3>2
    <2> QED
      BY <1>0, <2>1, <2>2, <2>3, <2>4
  <1>4. CASE Quit(t)
    <2>1. Settled'
      BY <1>4 DEF Quit, InBody, running, Ends, Settled, Live, IInv, TypeOK,
         Position, ThreadType, CountType, RunnerType, Probing
    <2>2. Floor'
      BY <1>4 DEF Quit, InBody, running, Ends, Settled, Live, Floor, Owed,
         Updating, Probing, IInv, TypeOK, Position, ThreadType, CountType,
         RunnerType
    <2>3. Ceiling'
      BY <1>4 DEF Quit, InBody, running, Ends, Settled, Live, Ceiling, Lines,
         Updating, Probing, IInv, TypeOK, Position, ThreadType, CountType,
         RunnerType
    <2>4. Quota'
      <3> USE <1>4 DEF Quit, InBody, running, Ends,
              Settled, Live, Quota, Turns, Ceiling, Lines, IInv, TypeOK,
              Position, Probing, ThreadType, CountType
      <3>1. CASE t = Tester
        <4>1. Left' = Left
          BY <3>1 DEF Left
        <4>2. Cardinality(Left) \in Nat /\ Cardinality(Helpers) \in Nat
          BY Sizes DEF Left
        <4> QED
          BY <3>1, <4>1, <4>2
      <3>2. CASE t \in Helpers
        <4>1. t \in Left /\ Left' = Left \ {t}
          BY <3>2 DEF Left
        <4>2. Left \in SUBSET Helpers /\ Cardinality(Left') = Cardinality(Left) - 1
          BY <4>1, Sizes DEF Left
        <4> QED
          BY <3>2, <4>2, Sizes
      <3> QED
        BY <3>1, <3>2
    <2> QED
      BY <1>0, <2>1, <2>2, <2>3, <2>4
  <1>5. CASE t = Tester /\ Return
    <2>1. Settled'
      BY <1>5 DEF Return, InBody, running, Ends, LogAfterTest, Settled, Live,
         IInv, TypeOK, Position, ThreadType, CountType, RunnerType, Probing
    <2>2. Floor'
      BY <1>5 DEF Return, InBody, running, Ends, LogAfterTest, Settled, Live,
         Floor, Owed, Updating, Probing, IInv, TypeOK, Position, ThreadType,
         CountType, RunnerType
    <2>3. Ceiling'
      BY <1>5 DEF Return, InBody, running, Ends, LogAfterTest, Settled, Live,
         Ceiling, Lines, Updating, Probing, IInv, TypeOK, Position,
         ThreadType, CountType, RunnerType
    <2>4. Quota'
      <3> USE <1>5 DEF Return, InBody, running, Ends,
              Settled, Live, Quota, Turns, Ceiling, Lines, IInv, TypeOK,
              Position, Probing, ThreadType, CountType
      <3>1. Left' = Left
        BY DEF Left
      <3>2. Cardinality(Left) \in Nat /\ Cardinality(Helpers) \in Nat
        BY Sizes DEF Left
      <3> QED
        BY <3>1, <3>2
    <2> QED
      BY <1>0, <2>1, <2>2, <2>3, <2>4
  <1>6. CASE t = Tester /\ JoinProbe /\ ProbeFailed
    <2>1. Settled'
      BY <1>6 DEF JoinProbe, ProbeFailed, running, Load, Loaded, Settled,
         Live, IInv, TypeOK, Position, ThreadType, CountType, RunnerType,
         Probing
    <2>2. Floor'
      BY <1>6 DEF JoinProbe, ProbeFailed, running, Load, Loaded, Settled,
         Live, Floor, Owed, Updating, Probing, IInv, TypeOK, Position,
         ThreadType, CountType, RunnerType
    <2>3. Ceiling'
      BY <1>6 DEF JoinProbe, ProbeFailed, running, Load, Loaded, Settled,
         Live, Ceiling, Lines, Updating, Probing, IInv, TypeOK, Position,
         ThreadType, CountType, RunnerType
    <2>4. Quota'
      BY <1>6 DEF JoinProbe, ProbeFailed, running, Load, Loaded, Settled,
         Live, Quota, Turns, Ceiling, Lines, Left, Probing, IInv, TypeOK,
         Position, ThreadType, CountType, RunnerType
    <2> QED
      BY <1>0, <2>1, <2>2, <2>3, <2>4
  <1>7. CASE t = Tester /\ JoinProbe /\ ProbeAborted
    <2>1. Settled'
      BY <1>7 DEF JoinProbe, ProbeAborted, running, Settled, Live, IInv,
         TypeOK, Position, ThreadType, CountType, RunnerType, Probing
    <2>2. Floor'
      BY <1>7 DEF JoinProbe, ProbeAborted, running, Settled, Live, Floor,
         Owed, Updating, Probing, IInv, TypeOK, Position, ThreadType,
         CountType, RunnerType
    <2>3. Ceiling'
      BY <1>7 DEF JoinProbe, ProbeAborted, running, Settled, Live, Ceiling,
         Lines, Updating, Probing, IInv, TypeOK, Position, ThreadType,
         CountType, RunnerType
    <2>4. Quota'
      BY <1>7 DEF JoinProbe, ProbeAborted, running, Settled, Live, Quota,
         Turns, Ceiling, Lines, Left, Probing, IInv, TypeOK, Position,
         ThreadType, CountType, RunnerType
    <2> QED
      BY <1>0, <2>1, <2>2, <2>3, <2>4
  <1>8. CASE t = Tester /\ JoinProbe /\ ProbeSilent
    <2>1. Settled'
      BY <1>8 DEF JoinProbe, ProbeSilent, running, Load, Loaded, Settled,
         Live, IInv, TypeOK, Position, ThreadType, CountType, RunnerType,
         Probing
    <2>2. Floor'
      BY <1>8 DEF JoinProbe, ProbeSilent, running, Load, Loaded, Settled,
         Live, Floor, Owed, Updating, Probing, IInv, TypeOK, Position,
         ThreadType, CountType, RunnerType
    <2>3. Ceiling'
      BY <1>8 DEF JoinProbe, ProbeSilent, running, Load, Loaded, Settled,
         Live, Ceiling, Lines, Updating, Probing, IInv, TypeOK, Position,
         ThreadType, CountType, RunnerType
    <2>4. Quota'
      <3> USE <1>8 DEF JoinProbe, ProbeSilent, running, Load, Loaded,
              Settled, Live, Quota, Turns, Ceiling, Lines, IInv, TypeOK,
              Position, Probing, ThreadType, CountType
      <3>1. Left' = Left
        BY DEF Left
      <3>2. Cardinality(Left) \in Nat /\ Cardinality(Helpers) \in Nat
        BY Sizes DEF Left
      <3> QED
        BY <3>1, <3>2
    <2> QED
      BY <1>0, <2>1, <2>2, <2>3, <2>4
  <1>9. CASE t = Tester /\ ExcuseStore
    <2>1. Settled'
      BY <1>9 DEF ExcuseStore, running, Settled, Live, IInv, TypeOK,
         Position, ThreadType, CountType, RunnerType, Probing
    <2>2. Floor'
      BY <1>9 DEF ExcuseStore, running, Settled, Live, Floor, Owed, Updating,
         Probing, IInv, TypeOK, Position, ThreadType, CountType, RunnerType
    <2>3. Ceiling'
      BY <1>9 DEF ExcuseStore, running, Settled, Live, Ceiling, Lines,
         Updating, Probing, IInv, TypeOK, Position, ThreadType, CountType,
         RunnerType
    <2>4. Quota'
      BY <1>9 DEF ExcuseStore, running, Settled, Live, Quota, Turns, Ceiling,
         Lines, Left, Probing, IInv, TypeOK, Position, ThreadType, CountType,
         RunnerType
    <2> QED
      BY <1>0, <2>1, <2>2, <2>3, <2>4
  <1> QED
    BY <1>1, <1>2, <1>3, <1>4, <1>5, <1>6, <1>7, <1>8, <1>9 DEF Ending,
       JoinProbe

\* While the threads a test starts are over when it is joined, every step
\* preserves the second invariant.
LEMMA StepJInv == Strays = {} /\ JInv /\ [Next]_vars => JInv'
  <1> SUFFICES ASSUME Strays = {}, JInv, [Next]_vars PROVE JInv'
    OBVIOUS
  <1>1. CASE Main
    BY <1>1, MainJoined
  <1>2. CASE Body
    BY <1>2, BodyJoined
  <1>3. ASSUME NEW t \in Threads, Ending(t) PROVE JInv'
    BY <1>3, EndingJoined
  <1>4. CASE Done \/ UNCHANGED vars
    <2> USE <1>4 DEF JInv, Done, vars, runnerVars, logVars, counters, threadVars,
                     reportVars
    <2>1. IInv' /\ Settled'
      BY StepIInv DEF Settled, Live
    <2>2. Floor'
      BY DEF Floor, Owed, Updating
    <2>3. Ceiling' /\ Quota'
      BY DEF Ceiling, Quota, Lines, Turns, Left
    <2> QED
      BY <2>1, <2>2, <2>3
  <1> QED
    BY <1>1, <1>2, <1>3, <1>4 DEF Next

\* The second invariant holds throughout every run whose tests leave no thread
\* behind.
THEOREM JoinedInvariance == ASSUME Strays = {} PROVE Spec => []JInv
  <1>1. JInv /\ [Next]_vars => JInv'
    BY StepJInv
  <1> QED
    BY <1>1, InitJInv, PTL DEF Spec

\* A lost update never hides the last failure of a test: its threads over, a
\* test that printed FAIL and took nothing back has raised the counter.
THEOREM FailureAlwaysShows == ASSUME Strays = {} PROVE Spec => []FailureShows
  <1>1. JInv => FailureShows
    BY DEF JInv, IInv, TypeOK, ThreadType, Floor, FailureShows, Live
  <1> QED
    BY <1>1, JoinedInvariance, PTL

\* runTests() never meets a malloc that a test left armed.
THEOREM RunnerNeverArmed == ASSUME Strays = {} PROVE Spec => []RunnerMallocsUnarmed
  <1>1. JInv => RunnerMallocsUnarmed
    BY DEF JInv, Settled, RunnerMallocsUnarmed
  <1> QED
    BY <1>1, JoinedInvariance, PTL

----------------------------------------------------------------------------
(* The engine implements TestRun.                                           *)

USE DEF T!Init, T!Next, T!vars, T!Report, T!Finish, T!GiveUp, T!Undecided,
        T!AllGood, T!SomeBad, T!NoRun

\* When a test is joined, what its threads added to the counters is a report of
\* at most one result for each of them, and a pass at most once.
LEMMA JoinReports == JInv /\ JoinTest => T!Report
  <1> SUFFICES ASSUME JInv, JoinTest PROVE T!Report
    OBVIOUS
  <1> USE DEF JInv, IInv, TypeOK, CountType, Position, JoinTest, counters, reportVars
  <1>1. Cardinality(Helpers) \in Nat /\ Turns \in Nat
    BY Sizes DEF Turns, Left
  <1>2. /\ failures \in before.failures .. before.failures + Lines
        /\ passes \in before.passes .. before.passes + 1
        /\ Lines + (passes - before.passes) <= 1 + Cardinality(Helpers)
    BY <1>1 DEF Floor, Ceiling, Quota, Lines
  <1>3. pc = "join" /\ pc' # "join" /\ exitCode = Running
    OBVIOUS
  <1>4. UNCHANGED <<passes, failures, exitCode>>
    OBVIOUS
  <1> QED
    BY <1>1, <1>2, <1>3, <1>4 DEF Lines

\* A step of the main thread is a step of TestRun or changes nothing in it:
\* a test counts when it is joined, the verdict when the process ends.
LEMMA MainRefines == JInv /\ Main => [T!Next]_(T!vars)
  <1> SUFFICES ASSUME JInv, Main PROVE [T!Next]_(T!vars)
    OBVIOUS
  <1> USE DEF JInv, IInv, TypeOK, CountType, Position, reportVars, counters
  <1>1. CASE Refuse(0) \/ Refuse(2)
    BY <1>1 DEF Refuse, Ceiling
  <1>2. ASSUME NEW n \in 1..MaxLibs, NEW log \in BOOLEAN, Accept(n, log)
        PROVE  UNCHANGED T!vars
    BY <1>2 DEF Accept
  <1>3. ASSUME NEW opens \in BOOLEAN, OpenRunLog(opens)
        PROVE  UNCHANGED T!vars
    BY <1>3 DEF OpenRunLog
  <1>4. CASE OutOfMemory \/ SkipLibrary \/ CreateFails \/ EndSuite \/ PrintStats
    BY <1>4 DEF OutOfMemory, SkipLibrary, CreateFails, EndSuite, PrintStats
  <1>5. ASSUME NEW n \in 0..MaxTests, LoadSuite(n)
        PROVE  UNCHANGED T!vars
    BY <1>5 DEF LoadSuite
  <1>6. CASE CreateTest
    BY <1>6 DEF CreateTest
  <1>7. CASE JoinTest
    BY <1>7, JoinReports
  <1>8. CASE Exit
    BY <1>8 DEF Exit, ExitStatus
  <1> QED
    BY <1>1, <1>2, <1>3, <1>4, <1>5, <1>6, <1>7, <1>8 DEF Main

\* What happens on the test's side changes nothing in TestRun: results count
\* there when the main thread has joined the test.
LEMMA TestRefines ==
  ASSUME JInv, Body \/ \E t \in Threads : Ending(t)
  PROVE  UNCHANGED T!vars
  <1>1. \E t \in Threads : Live(t)
    BY DEF Body, StartLog, StopLog, Arm, Malloc, Spawn, Join, Probe, Ending,
           FailPrint, FailStore, AbortPrint, Quit, Return, JoinProbe,
           ExcuseStore, InBody, Live
  <1>2. pc = "join"
    BY <1>1 DEF JInv, Settled
  <1>3. UNCHANGED <<pc, before, exitCode>>
    BY DEF Body, StartLog, StopLog, Arm, Malloc, Spawn, Join, Probe, Ending,
           FailPrint, FailStore, AbortPrint, Quit, Return, JoinProbe,
           ExcuseStore, runnerVars, reportVars
  <1> QED
    BY <1>2, <1>3

\* The engine implements TestRun: whatever the threads of a test do, and even
\* if they lose updates, a test adds at most one result for each of them and
\* takes back none of another test, and the exit status is 0 or 1 by the
\* failures counted, or 2 for a run abandoned.
THEOREM Refinement == ASSUME Strays = {} PROVE Spec => ImplementsTestRun
  <1>1. Init => T!Init
    BY DEF Init
  <1>2. JInv /\ [Next]_vars => [T!Next]_(T!vars)
    <2> SUFFICES ASSUME JInv, [Next]_vars PROVE [T!Next]_(T!vars)
      OBVIOUS
    <2>1. CASE Done \/ UNCHANGED vars
      BY <2>1 DEF Done, vars, runnerVars, counters, reportVars
    <2> QED
      BY <2>1, MainRefines, TestRefines DEF Next
  <1> QED
    BY <1>1, <1>2, JoinedInvariance, PTL DEF Spec, ImplementsTestRun, T!Spec

\* Nothing is started and no summary is printed once a test has aborted.
THEOREM AbortEndsTheRun == Spec => AbortIsFinal
  <1> DEFINE Quiet == code[Tester] = THREAD_ABORT
                        => thread'[Tester] # "body" /\ summary' = summary
  <1>1. IInv /\ [Next]_vars => [Quiet]_vars
    <2> SUFFICES ASSUME IInv, [Next]_vars, code[Tester] = THREAD_ABORT
                 PROVE  thread'[Tester] # "body" /\ summary' = summary
      OBVIOUS
    <2> USE DEF IInv, TypeOK, ThreadType, Position
    <2>1. thread[Tester] \in {"none", "exited"}
      OBVIOUS
    <2>2. CASE Main
      BY <2>2 DEF Main, Refuse, Accept, OpenRunLog, OutOfMemory, SkipLibrary,
             LoadSuite, CreateTest, CreateFails, JoinTest, EndSuite, PrintStats,
             Exit, EndsRun, threadVars, reportVars
    <2>3. CASE Body
      BY <2>1, <2>3 DEF Body, StartLog, StopLog, Arm, Malloc, Spawn, Join, Probe,
             InBody, threadVars, reportVars
    <2>4. CASE \E t \in Threads : Ending(t)
      BY <2>1, <2>4 DEF Ending, FailPrint, FailStore, AbortPrint, Quit, Return,
             JoinProbe, ExcuseStore, InBody, Ends, reportVars
    <2>5. CASE Done \/ UNCHANGED vars
      BY <2>5 DEF Done, vars, threadVars, reportVars
    <2> QED
      BY <2>2, <2>3, <2>4, <2>5 DEF Next
  <1> QED
    BY <1>1, Invariance, PTL DEF Spec, AbortIsFinal
==============================================================================
