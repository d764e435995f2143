------------------------------ MODULE CrunchPP -------------------------------
(***************************************************************************)
(* The C++ engine: crunch::main() and runTests() of crunch++/crunch++.cpp, *)
(* testsuite::test() and testRunner() of crunch++/tester.cxx, the results  *)
(* of crunch++/core.cxx and crunch++/logger.cxx.                           *)
(*                                                                         *)
(* Where the C engine ends a test's thread from inside an assertion, this  *)
(* one throws threadExit_t and lets it unwind to testRunner(), which hands *)
(* a value, or the exception itself, to the main thread in a std::promise. *)
(* An exception that finds no handler ends the process with SIGABRT.       *)
(*                                                                         *)
(* A test body is modelled by what it can throw and by the logs it starts; *)
(* it may catch a threadExit_t of its own and take the failure back, which *)
(* is the tryShouldFail() of the repository's tests, and start threads     *)
(* that may outlive it.  What such a thread throws has no handler there.   *)
(*                                                                         *)
(* A helper's update of a counter is a load and a store, the other steps   *)
(* update it at once, a failure that is taken back included.  That leaves  *)
(* out orders of updates that overlap; what the counters are worth after   *)
(* an overlap is not claimed by any property, only what follows from them. *)
(***************************************************************************)
EXTENDS Integers, Sequences, FiniteSets

CONSTANTS
  Tester,        \* the std::thread test() creates for the current test
  Helpers,       \* threads test bodies start
  MaxLibs,       \* bound: test libraries on the command line
  MaxSuites,     \* bound: testsuite classes one library registers
  MaxTests,      \* bound: tests one suite registers
  MaxExcused     \* bound: failures test bodies take back

ASSUME ThreadsAssumption == Tester \notin Helpers /\ IsFiniteSet(Helpers)
ASSUME BoundsAssumption == /\ MaxLibs \in Nat /\ MaxSuites \in Nat
                           /\ MaxTests \in Nat /\ MaxExcused \in Nat

VARIABLES
  pc,            \* where the main thread is
  nLibs,         \* numTests of crunch++.cpp
  lib,           \* libraries dealt with
  cxxTests,      \* the registered suites, each by the library it came from
  suite,         \* suites of cxxTests dealt with
  suiteLen,      \* tests the current suite registered
  test,          \* tests of it that are over
  logging, loggingTests, logger, logFile,
  passes, failures,
  thread,        \* what each test-side thread is doing
  value,         \* what the test threw, or what its promise holds
  reg,           \* a helper's counter value, loaded and not yet stored back
  printed,       \* result lines printed so far
  outside,       \* "Exception caught by crunch++ outside test" was printed
  excused,       \* FAIL lines taken back with --failures
  overlap,       \* a counter was updated while a helper had one loaded
  settled,       \* the counters as of the last test or suite dealt with
  summary,       \* failures as printed by printStats(), or NoSummary
  exitCode

runnerVars == <<pc, nLibs, lib, cxxTests, suite, suiteLen, test>>
logVars    == <<logging, loggingTests, logger, logFile>>
counters   == <<passes, failures>>
threadVars == <<thread, value, reg>>
reportVars == <<printed, outside, excused, overlap, settled, summary, exitCode>>
vars == <<runnerVars, logVars, counters, threadVars, reportVars>>

Threads == {Tester} \cup Helpers

NoLog   == "none"
RunLog  == "run"
TestLog == "test"

\* Beside the ints of threadExit_t, a test's result may be an exception of
\* its own, or one that testRunner() let through.
Foreign == 3
Escaped == 4

Running   == -1
Killed    == 134      \* 128 + SIGABRT, what a shell reports
NoSummary == -1

----------------------------------------------------------------------------
(* Decisions and updates the handlers share.                                *)

\* testRunner(), on each of its three ways out.
LogAfterTest_Never == logger
LogAfterTest == IF ~loggingTests /\ logger # NoLog THEN NoLog ELSE logger

\* stopLogging(l)
AfterStop(l) == IF l # NoLog /\ l = logger THEN NoLog ELSE logger

\* What is left of cxxTests when a library is done with.
Cleared_Kept == cxxTests
Cleared == <<>>

\* Does the promise's content end the run?
EndsRun_Never(v) == FALSE
EndsRun(v) == v \in {2, Escaped}

\* --failures, after the second handler of test() printed its FAIL line.
TakenBack_Not(n) == n
TakenBack_Twice(n) == n - 2
TakenBack(n) == n - 1

\* main(): failures ? 1 : 0
ExitStatus_Passes == IF passes # 0 THEN 0 ELSE 1
ExitStatus == IF failures # 0 THEN 1 ELSE 0

\* printStats(), then stopLogging(logFile) if the run was logging.
LogAfterRun_Kept == logger
LogAfterRun == IF logging THEN AfterStop(logFile) ELSE logger

NextTest_Same == test
NextTest == test + 1

\* Between the load and the store of a helper's update.
Updating(h) == thread[h] \in {"failing", "skipping"}
Updates(others) == overlap' = (overlap \/ \E h \in others : Updating(h))

\* What has been counted is settled, but for the test that is under way.
Settle == settled' = IF pc = "join" THEN settled
                     ELSE [passes |-> passes', failures |-> failures']

\* The process ends on the spot.  An exception nobody catches kills it, and so
\* does a bad pointer; main() still catches an out_of_range, and returns 2.
Dies(status) == /\ pc' = "over"
                /\ exitCode' = status

----------------------------------------------------------------------------
(* The main thread.                                                         *)

Init ==
  /\ pc = "main" /\ nLibs = 0 /\ lib = 0
  /\ cxxTests = <<>> /\ suite = 0 /\ suiteLen = 0 /\ test = 0
  /\ logging = FALSE /\ loggingTests = FALSE
  /\ logger = NoLog /\ logFile = NoLog
  /\ passes = 0 /\ failures = 0
  /\ thread = [t \in Threads |-> "none"]
  /\ value = 0
  /\ printed = [ok |-> 0, fail |-> 0, skip |-> 0, abort |-> 0]
  /\ reg = [h \in Helpers |-> 0]
  /\ outside = FALSE /\ excused = 0 /\ overlap = FALSE
  /\ settled = [passes |-> 0, failures |-> 0]
  /\ summary = NoSummary /\ exitCode = Running

\* --help and --version end the process with 0, a command line without tests,
\* or one whose splicing throws out_of_range, with 2.
Refuse(status) ==
  /\ pc = "main"
  /\ pc' = "over" /\ exitCode' = status
  /\ UNCHANGED <<nLibs, lib, cxxTests, suite, suiteLen, test, logVars, counters,
                 threadVars, printed, outside, excused, overlap, settled, summary>>

Accept(n, log) ==
  /\ pc = "main"
  /\ pc' = "start" /\ nLibs' = n /\ logging' = log
  /\ UNCHANGED <<lib, cxxTests, suite, suiteLen, test, loggingTests, logger,
                 logFile, counters, threadVars, reportVars>>

OpenRunLog(opens) ==
  /\ pc = "start"
  /\ pc' = "libs"
  /\ IF logging
     THEN /\ loggingTests' = TRUE
          /\ logFile' = IF opens THEN RunLog ELSE NoLog
          /\ logger' = IF opens THEN RunLog ELSE logger
     ELSE UNCHANGED <<loggingTests, logFile, logger>>
  /\ UNCHANGED <<nLibs, lib, cxxTests, suite, suiteLen, test, logging, counters,
                 threadVars, reportVars>>

\* extForLibrary() without memory writes through the null pointer it got;
\* registerCXXTests() may throw something that no handler is meant for.
LibraryKills ==
  /\ pc = "libs" /\ lib < nLibs
  /\ Dies(Killed) \/ Dies(2)
  /\ UNCHANGED <<nLibs, lib, cxxTests, suite, suiteLen, test, logVars, counters,
                 threadVars, printed, outside, excused, overlap, settled, summary>>

\* There is no such library, it does not open, or it does not register.
SkipLibrary ==
  /\ pc = "libs" /\ lib < nLibs
  /\ lib' = lib + 1
  /\ UNCHANGED <<pc, nLibs, cxxTests, suite, suiteLen, test, logVars, counters,
                 threadVars, reportVars>>

\* registerCXXTests() runs out of memory: what it registered is dropped.
RegistrationFails ==
  /\ pc = "libs" /\ lib < nLibs
  /\ cxxTests' = <<>>
  /\ lib' = lib + 1
  /\ UNCHANGED <<pc, nLibs, suite, suiteLen, test, logVars, counters, threadVars,
                  reportVars>>

\* The library appends its n suites to cxxTests.
LoadLibrary(n) ==
  /\ pc = "libs" /\ lib < nLibs
  /\ cxxTests' = cxxTests \o [i \in 1..n |-> lib]
  /\ suite' = 0
  /\ pc' = "suites"
  /\ UNCHANGED <<nLibs, lib, suiteLen, test, logVars, counters, threadVars,
                 reportVars>>

\* registerTests() of the next suite returns, with n tests registered.  A
\* test whose registration ran out of memory is not among them.
RegisterTests(n) ==
  /\ pc = "suites" /\ suite < Len(cxxTests)
  /\ suiteLen' = n /\ test' = 0
  /\ pc' = "tests"
  /\ UNCHANGED <<nLibs, lib, cxxTests, suite, logVars, counters, threadVars,
                 reportVars>>

\* A suite's own code, outside its tests, leaves through skip(), fail() or an
\* abort, which throw a threadExit_t, or through one it throws itself.
SuiteSkips ==
  /\ passes' = passes + 1
  /\ printed' = [printed EXCEPT !.skip = @ + 1]
  /\ Updates(Helpers)
  /\ UNCHANGED failures

SuiteFails ==
  /\ failures' = failures + 1
  /\ printed' = [printed EXCEPT !.fail = @ + 1]
  /\ Updates(Helpers)
  /\ UNCHANGED passes

SuiteAborts ==
  /\ printed' = [printed EXCEPT !.abort = @ + 1]
  /\ UNCHANGED <<counters, overlap>>

SuiteLeaves == UNCHANGED <<counters, printed, overlap>>

\* From registerTests() it is caught, as bad_alloc is: the suite is passed over.
PassOver ==
  /\ pc = "suites" /\ suite < Len(cxxTests)
  /\ suite' = suite + 1
  /\ SuiteSkips \/ SuiteFails \/ SuiteAborts \/ SuiteLeaves
  /\ Settle
  /\ UNCHANGED <<pc, nLibs, lib, cxxTests, suiteLen, test, logVars, threadVars,
                 outside, excused, summary, exitCode>>

\* From the constructor of a suite, run by registerCXXTests(), it is not: after
\* n suites it leaves tryRegistration() and runTests() with value v.
RegistrationThrows(n, v) ==
  /\ pc = "libs" /\ lib < nLibs
  /\ cxxTests' = cxxTests \o [i \in 1..n |-> lib]
  /\ \/ v = 1 /\ (SuiteSkips \/ SuiteFails)
     \/ v = 2 /\ SuiteAborts
     \/ SuiteLeaves
  /\ Settle
  /\ value' = v
  /\ pc' = "thrown"
  /\ UNCHANGED <<nLibs, lib, suite, suiteLen, test, logVars, thread, reg,
                 outside, excused, summary, exitCode>>

\* registerTests() throws anything else.
SuiteKills ==
  /\ pc = "suites" /\ suite < Len(cxxTests)
  /\ Dies(Killed) \/ Dies(2)
  /\ UNCHANGED <<nLibs, lib, cxxTests, suite, suiteLen, test, logVars, counters,
                 threadVars, printed, outside, excused, overlap, settled, summary>>

CreateTest ==
  /\ pc = "tests" /\ test < suiteLen
  /\ pc' = "join"
  /\ thread' = [thread EXCEPT ![Tester] = "body"]
  /\ UNCHANGED <<nLibs, lib, cxxTests, suite, suiteLen, test, logVars, counters,
                 value, reg, printed, outside, excused, overlap, settled,
                 summary, exitCode>>

\* The constructor of std::thread throws system_error.
CreateFails ==
  /\ pc = "tests" /\ test < suiteLen
  /\ Dies(Killed)
  /\ UNCHANGED <<nLibs, lib, cxxTests, suite, suiteLen, test, logVars, counters,
                 threadVars, printed, outside, excused, overlap, settled, summary>>

\* join(), then result.get().
JoinTest ==
  /\ pc = "join" /\ thread[Tester] = "exited"
  /\ thread' = [thread EXCEPT ![Tester] = "none"]
  /\ settled' = [passes |-> passes, failures |-> failures]
  /\ IF EndsRun(value)
     THEN pc' = "abort" /\ test' = test
     ELSE pc' = "tests" /\ test' = NextTest
  /\ UNCHANGED <<nLibs, lib, cxxTests, suite, suiteLen, logVars, counters, value,
                 reg, printed, outside, excused, overlap, summary, exitCode>>

\* The end of test() for a test that ends the run.  A value of 2 makes it call
\* echoAborted(), whose threadExit_t is caught by the handler around the very
\* same try; the handler prints a failure, takes it back and aborts for good.
\* runTests() then prints the statistics, closes its log and rethrows.
Abandon ==
  /\ pc = "abort"
  /\ printed' = [printed EXCEPT !.abort = @ + (IF value = Escaped THEN 1 ELSE 2),
                                !.fail = @ + 1]
  /\ outside' = TRUE
  /\ failures' = TakenBack(failures + 1)
  /\ excused' = excused + 1
  /\ Updates(Helpers)
  /\ cxxTests' = <<>>
  /\ summary' = failures'
  /\ logger' = LogAfterRun
  /\ pc' = "thrown"
  /\ UNCHANGED <<nLibs, lib, suite, suiteLen, test, logging, loggingTests,
                 logFile, passes, threadVars, settled, exitCode>>

\* main() returns the value of the threadExit_t that left runTests().
CatchInMain ==
  /\ pc = "thrown"
  /\ pc' = "over" /\ exitCode' = IF outside THEN 2 ELSE value
  /\ UNCHANGED <<nLibs, lib, cxxTests, suite, suiteLen, test, logVars, counters,
                 threadVars, printed, outside, excused, overlap, settled, summary>>

EndSuite ==
  /\ pc = "tests" /\ test = suiteLen
  /\ suite' = suite + 1
  /\ pc' = "suites"
  /\ UNCHANGED <<nLibs, lib, cxxTests, suiteLen, test, logVars, counters, threadVars,
                  reportVars>>

EndLibrary ==
  /\ pc = "suites" /\ suite = Len(cxxTests)
  /\ cxxTests' = Cleared
  /\ lib' = lib + 1
  /\ pc' = "libs"
  /\ UNCHANGED <<nLibs, suite, suiteLen, test, logVars, counters, threadVars,
                 reportVars>>

\* runTests() comes to its end ...
EndRun ==
  /\ pc = "libs" /\ lib = nLibs
  /\ summary' = failures
  /\ logger' = LogAfterRun
  /\ pc' = "exit"
  /\ UNCHANGED <<nLibs, lib, cxxTests, suite, suiteLen, test, logging,
                 loggingTests, logFile, counters, threadVars, printed, outside,
                 excused, overlap, settled, exitCode>>

\* ... and main() looks at failures again for the status.
Exit ==
  /\ pc = "exit"
  /\ pc' = "over" /\ exitCode' = ExitStatus
  /\ UNCHANGED <<nLibs, lib, cxxTests, suite, suiteLen, test, logVars, counters,
                 threadVars, printed, outside, excused, overlap, settled, summary>>

----------------------------------------------------------------------------
(* The test's thread and the threads it starts.                             *)

running == pc # "over"
InBody(t) == running /\ thread[t] = "body"

Throws(v) == /\ thread' = [thread EXCEPT ![Tester] = "unwinding"]
             /\ value' = v
             /\ UNCHANGED reg

Leaves == thread' = [thread EXCEPT ![Tester] = "exited"] /\ UNCHANGED reg

\* A failed assertion, or fail(): the result is printed and counted.
AssertFails ==
  /\ InBody(Tester)
  /\ printed' = [printed EXCEPT !.fail = @ + 1]
  /\ failures' = failures + 1
  /\ Updates(Helpers)
  /\ Throws(1)
  /\ UNCHANGED <<runnerVars, logVars, passes, outside, excused, settled, summary,
                 exitCode>>

\* skip(): counts as a pass.
Skip ==
  /\ InBody(Tester)
  /\ printed' = [printed EXCEPT !.skip = @ + 1]
  /\ passes' = passes + 1
  /\ Updates(Helpers)
  /\ Throws(1)
  /\ UNCHANGED <<runnerVars, logVars, failures, outside, excused, settled,
                 summary, exitCode>>

\* logResult(RESULT_ABORT)
Abort ==
  /\ InBody(Tester)
  /\ printed' = [printed EXCEPT !.abort = @ + 1]
  /\ Throws(2)
  /\ UNCHANGED <<runnerVars, logVars, counters, outside, excused, overlap,
                 settled, summary, exitCode>>

\* The test throws a threadExit_t itself, or any other exception.
ThrowOwn(v) ==
  /\ InBody(Tester)
  /\ Throws(v)
  /\ UNCHANGED <<runnerVars, logVars, counters, reportVars>>

\* tryShouldFail() catches the threadExit_t of the assertion it tried, and
\* takes the failure back.
AssertExcused ==
  /\ InBody(Tester) /\ excused < MaxExcused
  /\ printed' = [printed EXCEPT !.fail = @ + 1]
  /\ excused' = excused + 1
  /\ Updates(Helpers)
  /\ UNCHANGED <<runnerVars, logVars, counters, threadVars, outside, settled,
                 summary, exitCode>>

\* testRunner()'s handler for threadExit_t: its value is the test's.
CatchExit ==
  /\ running /\ thread[Tester] = "unwinding" /\ value # Foreign
  /\ logger' = LogAfterTest
  /\ Leaves
  /\ UNCHANGED <<runnerVars, logging, loggingTests, logFile, counters, value,
                 reportVars>>

\* Its handler for everything else: kept, counted as a failure, and 2.
CatchForeign ==
  /\ running /\ thread[Tester] = "unwinding" /\ value = Foreign
  /\ logger' = LogAfterTest
  /\ printed' = [printed EXCEPT !.fail = @ + 1]
  /\ failures' = failures + 1
  /\ Updates(Helpers)
  /\ value' = 2
  /\ Leaves
  /\ UNCHANGED <<runnerVars, logging, loggingTests, logFile, passes, outside,
                 excused, settled, summary, exitCode>>

\* There is no memory to keep the exception: it escapes testRunner() with
\* bad_alloc and goes into the promise.
CatchFails ==
  /\ running /\ thread[Tester] = "unwinding" /\ value = Foreign
  /\ value' = Escaped
  /\ Leaves
  /\ UNCHANGED <<runnerVars, logVars, counters, reportVars>>

\* The test function returns.
Return ==
  /\ InBody(Tester)
  /\ logger' = LogAfterTest
  /\ printed' = [printed EXCEPT !.ok = @ + 1]
  /\ passes' = passes + 1
  /\ Updates(Helpers)
  /\ value' = 0
  /\ Leaves
  /\ UNCHANGED <<runnerVars, logging, loggingTests, logFile, failures, outside,
                 excused, settled, summary, exitCode>>

StartLog(opens) ==
  /\ InBody(Tester)
  /\ logger = NoLog
  /\ logger' = IF opens THEN TestLog ELSE NoLog
  /\ UNCHANGED <<runnerVars, logging, loggingTests, logFile, counters, threadVars,
                  reportVars>>

StopLog ==
  /\ InBody(Tester)
  /\ logger = TestLog
  /\ logger' = AfterStop(TestLog)
  /\ UNCHANGED <<runnerVars, logging, loggingTests, logFile, counters, threadVars,
                  reportVars>>

\* A std::thread the test starts; it may detach it, and end before it.
Spawn(h) ==
  /\ InBody(Tester) /\ thread[h] = "none"
  /\ thread' = [thread EXCEPT ![h] = "body"]
  /\ UNCHANGED <<runnerVars, logVars, counters, value, reg, reportVars>>

HelperReturns(h) ==
  /\ InBody(h)
  /\ thread' = [thread EXCEPT ![h] = "exited"]
  /\ UNCHANGED <<runnerVars, logVars, counters, value, reg, reportVars>>

\* On such a thread an assertion fails, or it calls fail() or skip(): the
\* result is printed and the counter loaded, ...
HelperFails(h) ==
  /\ thread' = [thread EXCEPT ![h] = "failing"]
  /\ printed' = [printed EXCEPT !.fail = @ + 1]
  /\ reg' = [reg EXCEPT ![h] = failures]

HelperSkips(h) ==
  /\ thread' = [thread EXCEPT ![h] = "skipping"]
  /\ printed' = [printed EXCEPT !.skip = @ + 1]
  /\ reg' = [reg EXCEPT ![h] = passes]

HelperPrints(h) ==
  /\ InBody(h)
  /\ HelperFails(h) \/ HelperSkips(h)
  /\ Updates(Helpers \ {h})
  /\ UNCHANGED <<runnerVars, logVars, counters, value, outside, excused,
                 settled, summary, exitCode>>

\* ... the counter is stored, and the threadExit_t thrown.
HelperCounts(h) ==
  /\ running /\ Updating(h)
  /\ IF thread[h] = "failing"
     THEN failures' = reg[h] + 1 /\ UNCHANGED passes
     ELSE passes' = reg[h] + 1 /\ UNCHANGED failures
  /\ reg' = [reg EXCEPT ![h] = 0]
  /\ thread' = [thread EXCEPT ![h] = "throwing"]
  /\ Settle
  /\ UNCHANGED <<runnerVars, logVars, value, printed, outside, excused, overlap,
                 summary, exitCode>>

\* It aborts.
HelperAborts(h) ==
  /\ InBody(h)
  /\ printed' = [printed EXCEPT !.abort = @ + 1]
  /\ thread' = [thread EXCEPT ![h] = "throwing"]
  /\ UNCHANGED <<runnerVars, logVars, counters, value, reg, outside, excused,
                 overlap, settled, summary, exitCode>>

\* Nothing catches what it threw, or any exception of its own: std::terminate()
\* takes the process with it, wherever the main thread is by then.
Terminate(h) ==
  /\ running /\ thread[h] \in {"throwing", "body"}
  /\ Dies(Killed)
  /\ UNCHANGED <<nLibs, lib, cxxTests, suite, suiteLen, test, logVars, counters,
                 threadVars, printed, outside, excused, overlap, settled, summary>>

----------------------------------------------------------------------------
(* The system.                                                              *)

Done == pc = "over" /\ UNCHANGED vars

Main ==
  \/ Refuse(0) \/ Refuse(2)
  \/ \E n \in 1..MaxLibs, log \in BOOLEAN : Accept(n, log)
  \/ \E opens \in BOOLEAN : OpenRunLog(opens)
  \/ LibraryKills \/ SkipLibrary \/ RegistrationFails
  \/ \E n \in 0..MaxSuites : LoadLibrary(n)
  \/ \E n \in 0..MaxSuites, v \in 0..2 : RegistrationThrows(n, v)
  \/ \E n \in 0..MaxTests : RegisterTests(n)
  \/ PassOver \/ SuiteKills
  \/ CreateTest \/ CreateFails \/ JoinTest \/ Abandon \/ CatchInMain
  \/ EndSuite \/ EndLibrary \/ EndRun \/ Exit

Body ==
  \/ AssertExcused
  \/ \E opens \in BOOLEAN : StartLog(opens)
  \/ StopLog
  \/ \E h \in Helpers : Spawn(h) \/ HelperReturns(h) \/ HelperPrints(h)
       \/ HelperCounts(h) \/ HelperAborts(h) \/ Terminate(h)

\* What brings the test's thread nearer to its end.
Ending ==
  \/ AssertFails \/ Skip \/ Abort
  \/ \E v \in {0, 1, 2, Foreign} : ThrowOwn(v)
  \/ CatchExit \/ CatchForeign \/ CatchFails
  \/ Return

Next == Main \/ Body \/ Ending \/ Done

Spec == Init /\ [][Next]_vars

\* The operating system schedules every thread, and test bodies come to their
\* end: the engine has no timeout of its own.
FairSpec == Spec /\ WF_vars(Main) /\ WF_vars(Ending)

----------------------------------------------------------------------------
(* Properties.                                                              *)

RunnerType ==
  /\ pc \in {"main", "start", "libs", "suites", "tests", "join", "abort",
             "thrown", "exit", "over"}
  /\ nLibs \in 0..MaxLibs /\ lib \in 0..MaxLibs
  /\ cxxTests \in Seq(0..MaxLibs) /\ suite \in 0..MaxSuites
  /\ suiteLen \in 0..MaxTests /\ test \in 0..MaxTests

LogType ==
  /\ logging \in BOOLEAN /\ loggingTests \in BOOLEAN
  /\ logger \in {NoLog, RunLog, TestLog} /\ logFile \in {NoLog, RunLog}

ThreadType ==
  /\ thread \in [Threads -> {"none", "body", "unwinding", "failing", "skipping",
                             "throwing", "exited"}]
  /\ value \in {0, 1, 2, Foreign, Escaped}
  /\ reg \in [Helpers -> Nat]

CountType ==
  /\ passes \in Nat /\ failures \in Nat
  /\ printed \in [ok : Nat, fail : Nat, skip : Nat, abort : Nat]
  /\ outside \in BOOLEAN /\ excused \in Nat /\ overlap \in BOOLEAN
  /\ settled \in [passes : Nat, failures : Nat]
  /\ summary \in Nat \cup {NoSummary}
  /\ exitCode \in {Running, 0, 1, 2, Killed}

\* Every variable keeps its type; in particular no counter of results goes
\* below zero.
TypeOK == RunnerType /\ LogType /\ ThreadType /\ CountType

\* The counters agree with the result lines, along every way an exception can
\* take and on whichever thread: one failure for every FAIL line but the ones
\* taken back, one pass for every OK or SKIP line, as long as no two updates
\* have overlapped.
InFlight(update) == IF \E h \in Helpers : thread[h] = update THEN 1 ELSE 0
ReportAccountedFor ==
  ~overlap => /\ failures + InFlight("failing") = printed.fail - excused
              /\ passes + InFlight("skipping") = printed.ok + printed.skip

\* A test cannot leave its log on for the next one, whichever way it ended.
LogOffBetweenTests == pc \in {"tests", "suites", "libs"} /\ ~logging => logger = NoLog

\* A run that gets through its libraries, or that a test has abandoned, printed
\* its summary, closed the file of --log, and has the status its failures ask
\* for; if they are not the ones in the summary, that is because a thread a test
\* left behind failed in between, and was about to take the process with it.
EndsInOrder ==
  pc = "over" /\ exitCode # Killed /\ nLibs # 0 /\ (outside \/ lib = nLibs) =>
    /\ summary # NoSummary /\ logger # RunLog
    /\ exitCode = 2 <=> outside
    /\ exitCode = 1 <=> failures # 0 /\ ~outside
    /\ summary # failures => \E h \in Helpers : thread[h] = "throwing"

\* No suite outlives the library whose code it is: while a library's tests
\* run, cxxTests holds suites of that library only, and none between two.
NoStaleSuites ==
  /\ \A i \in 1..Len(cxxTests) : pc # "over" => cxxTests[i] = lib
  /\ pc = "libs" => cxxTests = <<>>

\* The whole engine implements TestRun.  A test counts when it has been joined,
\* with what threads have counted meanwhile; a suite or library that leaves by
\* an exception, and a thread left behind, when they do.  A run that dies, or
\* that ends before its last library, is a run abandoned whatever its status.
\* Once two updates have overlapped the counters may go astray, but not the
\* verdict on them.
T == INSTANCE TestRun WITH
       Most    <- 1 + Cardinality(Helpers),
       passed  <- settled.passes,
       failed  <- settled.failures,
       verdict <- IF exitCode # Running /\ (exitCode = Killed \/ lib < nLibs)
                  THEN 2 ELSE exitCode
ImplementsTestRun ==
  T!Init /\ [][T!Next \/ (overlap' /\ UNCHANGED exitCode)]_(T!vars)

\* Every run comes to an end, if every test body does.
Terminates == <>(exitCode # Running)
==============================================================================
