------------------------------- MODULE Crunch --------------------------------
(***************************************************************************)
(* The C engine: main() and runTests() of crunch/crunch.c on the main      *)
(* thread, testRunner() on the thread it creates for each test, the        *)
(* assertions of crunch/Core.c, the counters of crunch/Logger.c and the    *)
(* malloc() that tests can arm to fail.  The thread shim and the logger    *)
(* have modules of their own; here a call to them is one step.             *)
(*                                                                         *)
(* A test body is arbitrary code.  It is modelled by the calls into the    *)
(* engine it can make, in any order: assertions that fail, an abort, early *)
(* thread exit, startLogging/stopLogging, arming and calling malloc, and   *)
(* starting threads of its own, whose calls come between its own ones and  *)
(* between each other's.  tryShouldFail(), the idiom of the repository's   *)
(* tests, starts a thread, joins it and takes its failure back.            *)
(***************************************************************************)
EXTENDS Integers, FiniteSets

CONSTANTS
  Tester,      \* the thread runTests() creates for the current test
  Helpers,     \* threads test bodies start, each at most once
  Strays,      \* the helpers that may still run when their test is over
  MaxLibs,     \* bound: test libraries named on the command line
  MaxTests,    \* bound: tests in one suite
  MaxArm       \* bound: the largest value a test stores in allocCount

ASSUME ThreadsAssumption ==
  Tester \notin Helpers /\ IsFiniteSet(Helpers) /\ Strays \subseteq Helpers
ASSUME BoundsAssumption == MaxLibs \in Nat /\ MaxTests \in Nat /\ MaxArm \in Nat

VARIABLES
  pc,            \* where the main thread is
  nLibs,         \* numTests of crunch.c: libraries left by getTests()
  lib,           \* libraries dealt with
  suiteLen,      \* tests in the array the suite registered
  test,          \* tests of the suite that are over (currTest - tests)
  result,        \* what runTests() returns
  logging,       \* --log was given
  loggingTests,  \* the flag testRunner() looks at
  logger,        \* whose log is on
  logFile,       \* what startLogging() returned to runTests()
  allocCount,
  passes, failures,
  thread,        \* what each test-side thread is doing
  code,          \* the value each thread ended with
  reg,           \* a counter value loaded and not yet stored back
  waitFor,       \* the helper tryShouldFail() joins
  printed,       \* result lines printed so far
  excused,       \* failures test bodies took back with --failures
  overlap,       \* a counter was loaded while another thread had it loaded
  before,        \* the counters and lines when the current test was created
  summary,       \* failures as printed by printStats(), or NoSummary
  exitCode       \* exit status of the process, or Running

runnerVars == <<pc, nLibs, lib, suiteLen, test, result>>
logVars    == <<logging, loggingTests, logger, logFile>>
counters   == <<passes, failures>>
threadVars == <<thread, code, reg, waitFor>>
reportVars == <<printed, excused, overlap, before, summary, exitCode>>
vars == <<runnerVars, logVars, allocCount, counters, threadVars, reportVars>>

Threads == {Tester} \cup Helpers

THREAD_SUCCESS == 0
THREAD_ERROR   == 1
THREAD_ABORT   == 2

Running   == -1
NoSummary == -1

\* Whose testLog object: nobody's, the run's own (--log), or a test's.
NoLog   == "none"
RunLog  == "run"
TestLog == "test"

----------------------------------------------------------------------------
(* Decisions and updates the handlers share.                                *)

\* malloc(): an armed count runs down by one per call and the call that
\* finds 0 fails; a negative count is left alone.
AfterMalloc_NoGuard == allocCount - 1
AfterMalloc == IF allocCount >= 0 THEN allocCount - 1 ELSE allocCount
MallocFails == allocCount = 0

\* testRunner() after the test function returned: a log the test switched
\* on is switched off, unless the run itself is logging.
LogAfterTest_Always == NoLog
LogAfterTest == IF ~loggingTests /\ logger # NoLog THEN NoLog ELSE logger

\* stopLogging(l): nothing happens unless l is the log that is on.
AfterStop(l) == IF l # NoLog /\ l = logger THEN NoLog ELSE logger

\* runTests() disarms malloc after every join, however the test ended.
AfterJoin_Armed == allocCount
AfterJoin == -1

\* ++currTest
NextTest_Same == test
NextTest == test + 1

\* Does the code a test thread ended with end the run?
EndsRun_Never(c) == FALSE
EndsRun(c) == c = THREAD_ABORT

\* main(): the exit status for what runTests() returned.
ExitStatus_Blind == IF result # THREAD_SUCCESS THEN 2 ELSE 0
ExitStatus == IF result # THREAD_SUCCESS
              THEN IF result = THREAD_ERROR THEN 0 ELSE 2
              ELSE IF failures = 0 THEN 0 ELSE 1

\* ++failures and --failures start from the counter as it is ...
Loaded_Early == before.failures
Loaded == failures

\* ... and ++ stores one more, whatever became of the counter meanwhile.
OneMore_Once(n) == IF n = failures THEN n + 1 ELSE n
OneMore(n) == n + 1

----------------------------------------------------------------------------
(* The main thread.                                                         *)

Init ==
  /\ pc = "main" /\ result = THREAD_SUCCESS
  /\ nLibs = 0 /\ lib = 0 /\ suiteLen = 0 /\ test = 0
  /\ logging = FALSE /\ loggingTests = FALSE
  /\ logger = NoLog /\ logFile = NoLog
  /\ allocCount = -1
  /\ passes = 0 /\ failures = 0
  /\ thread = [t \in Threads |-> "none"]
  /\ code = [t \in Threads |-> THREAD_SUCCESS]
  /\ reg = [t \in Threads |-> 0]
  /\ waitFor = Tester
  /\ printed = [ok |-> 0, fail |-> 0, abort |-> 0]
  /\ excused = 0 /\ overlap = FALSE
  /\ before = [passes |-> 0, failures |-> 0, fail |-> 0, excused |-> 0]
  /\ summary = NoSummary
  /\ exitCode = Running

\* --help and --version are answered and end the process with 0; a command
\* line that does not parse, or names no test, ends it with 2.
Refuse(status) ==
  /\ pc = "main"
  /\ pc' = "over"
  /\ exitCode' = status
  /\ UNCHANGED <<nLibs, lib, suiteLen, test, result, logVars, allocCount,
                 counters, threadVars, printed, excused, overlap, before, summary>>

Accept(n, log) ==
  /\ pc = "main"
  /\ pc' = "start"
  /\ nLibs' = n
  /\ logging' = log
  /\ UNCHANGED <<lib, suiteLen, test, result, loggingTests, logger, logFile,
                 allocCount, counters, threadVars, reportVars>>

\* The head of runTests(): with --log the log is opened, which can fail, and
\* loggingTests is set either way.
OpenRunLog(opens) ==
  /\ pc = "start"
  /\ pc' = "libs"
  /\ IF logging
     THEN /\ loggingTests' = TRUE
          /\ logFile' = IF opens THEN RunLog ELSE NoLog
          /\ logger' = IF opens THEN RunLog ELSE logger
     ELSE UNCHANGED <<loggingTests, logFile, logger>>
  /\ UNCHANGED <<nLibs, lib, suiteLen, test, result, logging, allocCount,
                 counters, threadVars, reportVars>>

\* extForLibrary() cannot allocate the path: the run is abandoned.
OutOfMemory ==
  /\ pc = "libs" /\ lib < nLibs
  /\ allocCount' = AfterMalloc
  /\ pc' = "exit"
  /\ result' = THREAD_ABORT
  /\ UNCHANGED <<nLibs, lib, suiteLen, test, logVars, counters, threadVars,
                 reportVars>>

\* No such library, dlopen() refuses it, or it has no registerTests(): it is
\* reported and skipped, and does not count as a failure.
SkipLibrary ==
  /\ pc = "libs" /\ lib < nLibs
  /\ ~MallocFails
  /\ allocCount' = AfterMalloc
  /\ lib' = lib + 1
  /\ UNCHANGED <<pc, nLibs, suiteLen, test, result, logVars, counters,
                 threadVars, reportVars>>

\* The library registers an array of n tests.
LoadSuite(n) ==
  /\ pc = "libs" /\ lib < nLibs
  /\ ~MallocFails
  /\ allocCount' = AfterMalloc
  /\ suiteLen' = n
  /\ test' = 0
  /\ pc' = "suite"
  /\ UNCHANGED <<nLibs, lib, result, logVars, counters, threadVars, reportVars>>

CreateTest ==
  /\ pc = "suite" /\ test < suiteLen
  /\ pc' = "join"
  /\ thread' = [thread EXCEPT ![Tester] = "body"]
  /\ before' = [passes |-> passes, failures |-> failures,
                fail |-> printed.fail, excused |-> excused]
  /\ UNCHANGED <<nLibs, lib, suiteLen, test, result, logVars, allocCount,
                 counters, code, reg, waitFor, printed, excused, overlap,
                 summary, exitCode>>

CreateFails ==
  /\ pc = "suite" /\ test < suiteLen
  /\ pc' = "exit"
  /\ result' = THREAD_ABORT
  /\ UNCHANGED <<nLibs, lib, suiteLen, test, logVars, allocCount, counters,
                 threadVars, reportVars>>

\* What is asked of tests, not of the engine: the threads a test starts, but
\* for the strays, have come to their end when the engine goes on.
Live(t) == thread[t] \in {"body", "waiting", "failing", "excusing"}
HelpersOver == \A h \in Helpers \ Strays : ~Live(h)

\* thrd_join() returns: disarm malloc, and go on unless the test aborted.
JoinTest ==
  /\ pc = "join" /\ thread[Tester] = "exited" /\ HelpersOver
  /\ allocCount' = AfterJoin
  /\ thread' = [thread EXCEPT ![Tester] = "none"]
  /\ IF EndsRun(code[Tester])
     THEN pc' = "exit" /\ result' = code[Tester] /\ test' = test
     ELSE pc' = "suite" /\ result' = result /\ test' = NextTest
  /\ UNCHANGED <<nLibs, lib, suiteLen, logVars, counters, code, reg, waitFor,
                 reportVars>>

EndSuite ==
  /\ pc = "suite" /\ test = suiteLen
  /\ pc' = "libs"
  /\ lib' = lib + 1
  /\ UNCHANGED <<nLibs, suiteLen, test, result, logVars, allocCount, counters,
                 threadVars, reportVars>>

\* printStats(), then the run's log is closed.
PrintStats ==
  /\ pc = "libs" /\ lib = nLibs
  /\ pc' = "exit"
  /\ summary' = failures
  /\ logger' = IF logging THEN AfterStop(logFile) ELSE logger
  /\ UNCHANGED <<nLibs, lib, suiteLen, test, result, logging, loggingTests,
                 logFile, allocCount, counters, threadVars, printed, excused,
                 overlap, before, exitCode>>

Exit ==
  /\ pc = "exit"
  /\ pc' = "over"
  /\ exitCode' = ExitStatus
  /\ UNCHANGED <<nLibs, lib, suiteLen, test, result, logVars, allocCount,
                 counters, threadVars, printed, excused, overlap, before, summary>>

----------------------------------------------------------------------------
(* The test's thread and the threads it starts.                             *)

running == pc # "over"
InBody(t) == running /\ thread[t] = "body"

\* The thread is over and left c for whoever joins it.
Ends(t, c) == /\ thread' = [thread EXCEPT ![t] = "exited"]
              /\ code' = [code EXCEPT ![t] = c]

\* Between the load and the store of an update of failures.
Updating(t) == thread[t] \in {"failing", "excusing"}
Load(t) ==
  /\ reg' = [reg EXCEPT ![t] = Loaded]
  /\ overlap' = (overlap \/ \E u \in Threads \ {t} : Updating(u))

\* A failed assertion of Core.c prints its result, and echoFailure() loads
\* the counter; FailStore is the rest of it, with the thrd_exit().
FailPrint(t) ==
  /\ InBody(t)
  /\ printed' = [printed EXCEPT !.fail = @ + 1]
  /\ thread' = [thread EXCEPT ![t] = "failing"]
  /\ Load(t)
  /\ UNCHANGED <<runnerVars, logVars, allocCount, counters, code, waitFor,
                 excused, before, summary, exitCode>>

FailStore(t) ==
  /\ running /\ thread[t] = "failing"
  /\ failures' = OneMore(reg[t])
  /\ reg' = [reg EXCEPT ![t] = 0]
  /\ Ends(t, THREAD_ERROR)
  /\ UNCHANGED <<runnerVars, logVars, allocCount, passes, waitFor, reportVars>>

\* logResult(RESULT_ABORT): printed, counted nowhere, thrd_exit(THREAD_ABORT).
AbortPrint(t) ==
  /\ InBody(t)
  /\ printed' = [printed EXCEPT !.abort = @ + 1]
  /\ Ends(t, THREAD_ABORT)
  /\ UNCHANGED <<runnerVars, logVars, allocCount, counters, reg, waitFor,
                 excused, overlap, before, summary, exitCode>>

\* The thread ends without a result: thrd_exit(0), or a helper returning.
Quit(t) ==
  /\ InBody(t)
  /\ Ends(t, THREAD_SUCCESS)
  /\ UNCHANGED <<runnerVars, logVars, allocCount, counters, reg, waitFor,
                 reportVars>>

\* The test function returns to testRunner().
Return ==
  /\ InBody(Tester)
  /\ allocCount' = -1
  /\ logger' = LogAfterTest
  /\ printed' = [printed EXCEPT !.ok = @ + 1]
  /\ passes' = passes + 1
  /\ Ends(Tester, THREAD_SUCCESS)
  /\ UNCHANGED <<runnerVars, logging, loggingTests, logFile, failures, reg,
                 waitFor, excused, overlap, before, summary, exitCode>>

\* startLogging() by the test; it returns NULL while a log is on.
StartLog(opens) ==
  /\ InBody(Tester)
  /\ logger = NoLog
  /\ allocCount' = AfterMalloc
  /\ logger' = IF MallocFails \/ ~opens THEN NoLog ELSE TestLog
  /\ UNCHANGED <<runnerVars, logging, loggingTests, logFile, counters,
                 threadVars, reportVars>>

\* stopLogging() by the test.  A test has no pointer to the run's log, and a
\* pointer to a log that is no longer on changes nothing.
StopLog ==
  /\ InBody(Tester)
  /\ logger = TestLog
  /\ logger' = AfterStop(TestLog)
  /\ UNCHANGED <<runnerVars, logging, loggingTests, logFile, allocCount,
                 counters, threadVars, reportVars>>

\* allocCount = n, by any test-side thread.
Arm(t, n) ==
  /\ InBody(t)
  /\ allocCount' = n
  /\ UNCHANGED <<runnerVars, logVars, counters, threadVars, reportVars>>

Malloc(t) ==
  /\ InBody(t)
  /\ allocCount' = AfterMalloc
  /\ UNCHANGED <<runnerVars, logVars, counters, threadVars, reportVars>>

\* thrd_create() by the test, which goes on beside its helper, ...
Spawn(h) ==
  /\ InBody(Tester) /\ thread[h] = "none"
  /\ thread' = [thread EXCEPT ![h] = "body"]
  /\ UNCHANGED <<runnerVars, logVars, allocCount, counters, code, reg,
                 waitFor, reportVars>>

\* ... and may join it when it is over, whatever it ended with.
Join(h) ==
  /\ InBody(Tester) /\ thread[h] = "exited"
  /\ thread' = [thread EXCEPT ![h] = "joined"]
  /\ UNCHANGED <<runnerVars, logVars, allocCount, counters, code, reg,
                 waitFor, reportVars>>

\* tryShouldFail() starts a helper and is in thrd_join() at once.
Probe(h) ==
  /\ InBody(Tester) /\ thread[h] = "none"
  /\ thread' = [thread EXCEPT ![h] = "body", ![Tester] = "waiting"]
  /\ waitFor' = h
  /\ UNCHANGED <<runnerVars, logVars, allocCount, counters, code, reg,
                 reportVars>>

\* It has joined: a failure is taken back, an abort is accepted, and anything
\* else fails the test.
ProbeFailed ==
  /\ code[waitFor] = THREAD_ERROR
  /\ thread' = [thread EXCEPT ![waitFor] = "joined", ![Tester] = "excusing"]
  /\ Load(Tester)
  /\ UNCHANGED printed

ProbeAborted ==
  /\ code[waitFor] = THREAD_ABORT
  /\ thread' = [thread EXCEPT ![waitFor] = "joined", ![Tester] = "body"]
  /\ UNCHANGED <<reg, overlap, printed>>

ProbeSilent ==
  /\ code[waitFor] \notin {THREAD_ERROR, THREAD_ABORT}
  /\ thread' = [thread EXCEPT ![waitFor] = "joined", ![Tester] = "failing"]
  /\ Load(Tester)
  /\ printed' = [printed EXCEPT !.fail = @ + 1]

JoinProbe ==
  /\ running
  /\ thread[Tester] = "waiting" /\ thread[waitFor] = "exited"
  /\ ProbeFailed \/ ProbeAborted \/ ProbeSilent
  /\ UNCHANGED <<runnerVars, logVars, allocCount, counters, code, waitFor,
                 excused, before, summary, exitCode>>

\* --failures, stored.
ExcuseStore ==
  /\ running /\ thread[Tester] = "excusing"
  /\ failures' = reg[Tester] - 1
  /\ reg' = [reg EXCEPT ![Tester] = 0]
  /\ excused' = excused + 1
  /\ thread' = [thread EXCEPT ![Tester] = "body"]
  /\ UNCHANGED <<runnerVars, logVars, allocCount, passes, code, waitFor,
                 printed, overlap, before, summary, exitCode>>

----------------------------------------------------------------------------
(* The system.                                                              *)

\* The process has ended; its threads ended with it.
Done == pc = "over" /\ UNCHANGED vars

Main ==
  \/ Refuse(0) \/ Refuse(2)
  \/ \E n \in 1..MaxLibs, log \in BOOLEAN : Accept(n, log)
  \/ \E opens \in BOOLEAN : OpenRunLog(opens)
  \/ OutOfMemory \/ SkipLibrary
  \/ \E n \in 0..MaxTests : LoadSuite(n)
  \/ CreateTest \/ CreateFails \/ JoinTest \/ EndSuite
  \/ PrintStats \/ Exit

\* What a test body can do short of ending its thread.
Body ==
  \/ \E opens \in BOOLEAN : StartLog(opens)
  \/ StopLog
  \/ \E t \in Threads, n \in 0..MaxArm : Arm(t, n)
  \/ \E t \in Threads : Malloc(t)
  \/ \E h \in Helpers : Spawn(h) \/ Join(h) \/ Probe(h)

\* What brings thread t nearer to its end.
Ending(t) ==
  \/ FailPrint(t) \/ FailStore(t) \/ AbortPrint(t) \/ Quit(t)
  \/ t = Tester /\ (Return \/ JoinProbe \/ ExcuseStore)

Next == Main \/ Body \/ (\E t \in Threads : Ending(t)) \/ Done

Spec == Init /\ [][Next]_vars

\* The operating system schedules every thread, and the threads a test body
\* is made of come to their end: the engine has no timeout of its own.
FairSpec == /\ Spec
            /\ WF_vars(Main)
            /\ \A t \in Threads : WF_vars(Ending(t))

----------------------------------------------------------------------------
(* Properties.                                                              *)

RunnerType ==
  /\ pc \in {"main", "start", "libs", "suite", "join", "exit", "over"}
  /\ nLibs \in 0..MaxLibs /\ lib \in 0..MaxLibs
  /\ suiteLen \in 0..MaxTests /\ test \in 0..MaxTests
  /\ result \in {THREAD_SUCCESS, THREAD_ERROR, THREAD_ABORT}

LogType ==
  /\ logging \in BOOLEAN /\ loggingTests \in BOOLEAN
  /\ logger \in {NoLog, RunLog, TestLog} /\ logFile \in {NoLog, RunLog}

ThreadType ==
  /\ thread \in [Threads -> {"none", "body", "waiting", "excusing", "failing",
                             "exited", "joined"}]
  /\ code \in [Threads -> {THREAD_SUCCESS, THREAD_ERROR, THREAD_ABORT}]
  /\ reg \in [Threads -> Nat]
  /\ waitFor \in Threads

CountType ==
  /\ allocCount \in -1..MaxArm
  /\ passes \in Nat /\ failures \in Nat
  /\ printed \in [ok : Nat, fail : Nat, abort : Nat]
  /\ excused \in Nat /\ overlap \in BOOLEAN
  /\ before \in [passes : Nat, failures : Nat, fail : Nat, excused : Nat]
  /\ summary \in Nat \cup {NoSummary}
  /\ exitCode \in {Running, 0, 1, 2}

\* Every variable keeps its type; in particular an unarmed allocCount stays
\* at -1, and no counter of results goes below zero.
TypeOK == RunnerType /\ LogType /\ ThreadType /\ CountType

\* The counters printStats() and the exit status are computed from agree with
\* the results the user saw, as long as no two threads of a test were inside
\* an update of failures at once: a failure is counted once for every FAIL line,
\* less the ones a test took back, whichever threads print them.  A pass is
\* counted once for every OK line in any case.
InFlight == IF \E t \in Threads : thread[t] = "failing" THEN 1 ELSE 0
ReportAccountedFor ==
  /\ ~overlap => failures + InFlight = printed.fail - excused
  /\ passes = printed.ok

\* Updates of the counter do get lost, since nothing keeps the threads of a
\* test apart, but not the last one: once its threads are over, a test that
\* printed FAIL, and took nothing back, has left the counter higher than it
\* found it, in whatever order they loaded and stored.
FailureShows ==
  /\ pc = "join" /\ \A t \in Threads : ~Live(t)
  /\ printed.fail > before.fail /\ excused = before.excused
  => failures > before.failures

\* A test that arms malloc to fail and then dies (fails, aborts or leaves its
\* thread) before disarming it never hits the runner: whenever runTests()
\* itself may allocate, the count is off.
RunnerMallocsUnarmed == pc \in {"libs", "suite", "exit"} => allocCount = -1

\* The log opened for --log stays on while there are tests, whatever logs the
\* tests try to start or stop, and a run that printed its summary closed it.
RunLogKept ==
  /\ logFile = RunLog /\ pc \in {"libs", "suite", "join"} => logger = RunLog
  /\ pc = "over" /\ summary # NoSummary => logger # RunLog

\* The whole engine implements TestRun.  While a test is under way its
\* results are still being made up (a helper's failure may be taken back), so
\* they are what they were when its thread was created.  Each thread of a test
\* contributes one result at most.
T == INSTANCE TestRun WITH
       Most    <- 1 + Cardinality(Helpers),
       passed  <- IF pc = "join" THEN before.passes ELSE passes,
       failed  <- IF pc = "join" THEN before.failures ELSE failures,
       verdict <- exitCode
ImplementsTestRun == T!Spec

\* Once a test's thread has ended with THREAD_ABORT no other test starts and
\* no summary is printed.
AbortIsFinal ==
  [][code[Tester] = THREAD_ABORT
       => thread'[Tester] # "body" /\ summary' = summary]_vars

\* Every run comes to an exit status, if every test body comes to an end.
Terminates == <>(exitCode # Running)

----------------------------------------------------------------------------
(* What comments and documents say of the program, and the runs refute.     *)

\* crunch.c:128-130, "Did the test switch logging on?  Yes, switch it back
\* off again": without --log, no log is on between two tests.
LogOffBetweenTests == pc = "suite" /\ ~logging => logger = NoLog

\* docs/index.md:11-15, "Most frameworks can't handle assertions on threads
\* other than the main test ... This has a large amount of room for improvement,
\* which crunch provides": a run that printed a FAIL nobody took back, on
\* whichever thread, does not complete with status 0.
FailedRunFails == exitCode = 0 /\ summary # NoSummary => printed.fail = excused
==============================================================================
