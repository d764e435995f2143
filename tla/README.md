# A TLA+ model of crunch

crunch is a unit-test framework for C and C++.  A *suite* is a shared library;
the engine (`crunch` for C, `crunch++` for C++) loads each library named on its
command line, runs every test of it on a thread of its own, prints a result for
each, and ends with a status.  A test that fails does not return: its thread is
ended (C) or unwound (C++) from inside the assertion.  `crunchMake` builds
suites.

This directory models the parts of crunch whose correctness depends on the
order in which things happen: who ends when, which clean-up an abnormal end
skips, which thread writes a counter, which file standard output is open on,
who frees what when an allocation fails; and the two pure parts a user relies
on, the reading of a command line and the comparisons of the assertions.
All paths below are relative to the repository.

## Inventory

| component | code | state | operations | modelled by |
|---|---|---|---|---|
| C engine | `crunch/crunch.c`, `Core.c` | `numTests`, `tests`, `loggingTests`, `allocCount`, `passes`, `failures` | `main`, `getTests`, `runTests`, `tryRegistration`, `extForLibrary`, `testRunner`, `printStats`, `assert*`, `malloc` | `Crunch`, `CrunchProofs` |
| C++ engine | `crunch++/crunch++.cpp`, `tester.cxx`, `core.cxx` | `namedTests`, `cxxTests`, each suite's `tests` and `exceptions`, `loggingTests`, `passes`, `failures` | `main`, `runTests`, `tryRegistration`, `registerTestClass`, `registerTest`, `test`, `testRunner`, `assert*`, `fail`, `skip` | `CrunchPP`, `CrunchPPProofs` |
| logger | `crunch/Logger.c`, `crunch++/logger.cxx` | `logger`, the `testLog` objects, `stdout`, descriptor 1, the flock of each file, the buffers of every `FILE` | `startLogging`, `stopLogging`, `testPrintf`, `logResult` | `Logger` and `LoggerProofs` (in full), `Crunch` and `CrunchPP` (as one step) |
| thread shim | `crunch/threading/threadShim.c` | the thread, its value, the Win32 parameter block and last error | `thrd_create`, `thrd_join`, `thrd_exit` | `ThreadShim`, `ThreadShimProofs` |
| argument parsers | `crunch/ArgsParser.c`, `crunch++/argsParser.cxx` | the allowed arguments, the parsed list | `parseArguments`, `checkParams`, `findArg`, `findArgInArgs`, `freeParsedArgs` | `ArgsParser`, `ArgsParserProofs`; its memory, in C: `ArgsAlloc`, `ArgsAllocProofs` |
| crunchMake | `crunchMake/*.cpp`, `*.cxx` | lists of directories, libraries, objects; the compiler's command | `main`, `getTests`, `compileTests`, `compileTest`, name computations | `CrunchMake`, `FileNames`, `CrunchMakeProofs` |
| assertions | `crunch/Core.c`, `crunch++/core.cxx`, `crunch++.h` | none | comparisons over several widths, of doubles, texts, memory, pointers | `Asserts`, `AssertsProofs`; the effect of a failure in the engines |
| malloc interposer | `crunch/crunch.c:84-95` | `allocCount` | `malloc` | `Crunch`, `ArgsAlloc`, in one step |
| signal handler | `crunch++/crunch++.cpp:255-477` | none | `trapHandler` | `CrunchPP`, as the end of the process |
| string helpers, texts, build files | | | | not modelled |

How they interact.  The *main thread* runs `main()` and `runTests()`.  For each
test it creates one thread (thread shim, or `std::thread`), waits for it without
a timeout and looks at one integer: in C what the thread ended with, in C++
what is in a `std::promise`.  The *test thread* shares `passes`, `failures`,
`allocCount` and `logger` with the main thread and with every thread the test
starts itself; none of them is protected by a lock.  The test is arbitrary code
in a shared library and calls back into the engine.  Two engine *processes* can
share one log file, through `flock()`.

What is hard:

* a failed assertion ends its thread in the middle of the test, past
  `testRunner()`'s clean-up in C, through two layers of handlers in C++;
* tests take failures back (`--failures`, the `tryShouldFail()` idiom) while
  other threads count theirs, and neither is one step;
* `startLogging()` is nine statements that each change one piece of global
  state; four can fail, of which two are not looked at, and one blocks;
* code outside any test runs too: the constructors of C++ suites and their
  `registerTests()` can throw what a test can, under other handlers;
* the result of a join is not looked at, only the integer it may have filled in;
* registration, logging and thread creation each fail in ways only their callers
  clean up after;
* the C parser makes each entry in up to two blocks and one per parameter, keeps
  the half-made one apart, and has a clean-up path after every allocation;
* an assertion converts its arguments (to the parameter of a C function, to the
  type of the first one in C++, to `bool` or `uint8_t`) before it compares them,
  and compares doubles through a sum that is rounded;
* three readers of one command line compare names in three ways: the parser, the
  count of an option's parameters and the look-up of an option later;
* `crunchMake` runs one or two commands per source that write over each other's
  files, and hands on a wait status as its exit status.

What makes each correct: see "Runs" below, and `"hazards"` in `PROJECT.json`
for where each property bites.

## The modules

    TestRun                 what an exit status promises
      ^ implemented by
    Crunch      CrunchPP    the two engines        Logger      ThreadShim
      ^             ^                                 ^            ^
    MCCrunch    MCCrunchPP                         MCLogger   MCThreadShim

    ArgsParser              the command line of the three programs
      ^ extended by             ^ implemented by
    CrunchMake                ArgsAlloc     the memory of the C one
      ^        \                ^
    MCCrunchMake  FileNames   MCArgsAlloc

    Asserts                 when an assertion fails
      ^
    MCAsserts

Each of `Crunch`, `CrunchPP`, `Logger`, `ThreadShim`, `ArgsParser`, `ArgsAlloc`,
`CrunchMake` and `Asserts` has the proofs about it in a module that extends it
(`CrunchProofs`, and so on).  `CrunchMakeProofs` also extends `ArgsParserProofs`,
and `ArgsAllocProofs` instantiates it: both use its lemmas about the parser.

In every module a definition named `X_Something` right above `X` is a variant of
`X` with a plausible bug in it.  It is not used by the specification; it is what
the properties are tested against.

### TestRun

The contract both engines implement: a run adds passes and failures one test at
a time, at most `Most` of them per test (one for each thread it runs on), and its
status is 0 or 1 by the failures of a *completed* run, or 2 for one that was
refused or abandoned.  Once it is decided nothing changes.

### Crunch: the C engine

`pc` is the place of the main thread (`main`, `start`: before `runTests()`;
`libs`, `suite`: at the heads of its two loops; `join`: in `thrd_join()`;
`exit`: back in `main()`).  `thread[t]` says what the test's thread (`Tester`)
and the threads the test starts (`Helpers`) are doing:

* `body`: in test code;  `waiting`: the test is in `tryShouldFail()`'s join;
* `failing`: `echoFailure()` printed the result and loaded `failures` (into
  `reg`), and has not stored it back; `excusing`: the same for `--failures`;
* `exited`: ended, with the value in `code`; `joined`: and joined.

Loads and stores of `failures` are steps of their own, so those of several threads
come in any order and updates get lost.  `overlap` records that a counter was
loaded while another thread had it loaded.  `passes` is updated by the test's
thread alone.

| action | code |
|---|---|
| `Refuse`, `Accept` | `parseArguments`, `handleVersionOrHelp`, `getTests` in `main` (crunch.c:358-370) |
| `OpenRunLog` | `--log` (crunch.c:245-250) |
| `OutOfMemory`, `SkipLibrary`, `LoadSuite` | the outcomes of `extForLibrary`, `dlopen`, `tryRegistration` (crunch.c:254-285) |
| `CreateTest`, `CreateFails`, `JoinTest`, `EndSuite` | the loop over tests (crunch.c:286-305) |
| `PrintStats`, `Exit` | crunch.c:308-311, 383-389 |
| `FailPrint`, `FailStore`, `AbortPrint` | a failing assertion up to the load of `failures`, the store, `logResult(RESULT_ABORT)`, `thrd_exit` |
| `Quit`, `Return` | a thread that ends without a result; the test function returns to `testRunner` |
| `StartLog`, `StopLog`, `Arm`, `Malloc`, `Spawn`, `Join` | what a test body may call; it runs on beside the threads it starts |
| `Probe`, `JoinProbe`, `ExcuseStore` | `tryShouldFail()`: start a thread, wait for it, and take its failure back, accept its abort, or fail (testCrunch.c:65-76) |

A test body is any interleaving of these calls; there is no model of what a test
computes.  `printed` and `excused` are history: the result lines the user saw
and the failures tests took back.  `before` holds the counters and the lines when
the current test started.  `Strays` are the helpers that may still run when their
test is over: `JoinTest` waits for all others (`HelpersOver`), which is asked of
tests, not of the engine.

Abstracted: names, paths and texts; `dlopen` of one library twice; a thread that
ends without a result ends with 0, although `thrd_exit()` takes any integer (2 is
an abort without its line, every other one is treated like 0 by the engine).
`malloc()` is one step.

### CrunchPP: the C++ engine

As `Crunch`, with an outer loop over libraries, one over the suites in `cxxTests`
(each known by the library it came from) and one over the suite's tests.  The
test's thread is in its `body`, `unwinding` with `value` (the integer of a
`threadExit_t`, or `Foreign` for any other exception) or `exited`, with `value`
in its promise (`Escaped`: an exception that got out of `testRunner()`).
`CatchExit`, `CatchForeign` and `CatchFails` are the handlers; `Abandon` is the
way an abort takes from `result.get()` in `testsuite::test()` through the
`catch (...)` right below it and `runTests()`, and `CatchInMain` the handler in
`main()`, which returns the thrown value.  An exception no handler takes ends the
process with 134, what a shell reports for `SIGABRT`; an `out_of_range` from a
suite's registration reaches the last handler of `main()`.

A suite's own code, outside its tests, may call `skip()`, `fail()` or abort.  In
`registerTests()` that is caught and the suite passed over (`PassOver`); in the
constructor of the suite, which `registerCXXTests()` runs, it is not
(`RegistrationThrows`): `tryRegistration()` catches `bad_alloc` only, so the
`threadExit_t` goes to `CatchInMain`, past the summary and the log.

A thread that a test starts may outlive it, and fails in three steps:
`HelperPrints` prints the result and loads the counter, `HelperCounts` stores it,
`Terminate` is the end of the process, since nothing catches the `threadExit_t`
there.  The main thread takes any steps in between, its last one included.
`settled` is the counters as of the last test, suite or such thread that was dealt
with.  A helper's update is a load and a store; an update by any other thread is
one step, and so is a failure that is taken back (`AssertExcused`, `Abandon`).  This
leaves out orders of updates that overlap, among them those in which a helper
counts within such a pair and its failure is lost.  `overlap` records that two
updates did overlap, and from then on nothing is claimed of the counters, only of
what follows from them; `Crunch` has every load and store apart.
It is assumed that threads do not catch what they throw.

### Logger

Several threads of several processes in `startLogging()` and `stopLogging()`, one
action per statement that touches shared state; what a thread is about to do is
`pc[t]`.  `stdoutVar` is the C variable `stdout` (0: the real one, `l`: the file
of log `l`), `fd1` is what descriptor 1 is open on, `log[l]` the `testLog`
object, `lock[f]` the flock of file `f`.  Text is the engine's report or what a test
wrote, and sits in `realBuf`, `fileBuf` or `outBuf` until its `FILE` is flushed.
What the properties ask of a file is whether some of the report is in it, so
`content` keeps that and leaves out the text of the tests; so is what a test writes
past `stdout` (`std::cout`), which no property depends on.  `Exit` may happen with a log on: buffers are
flushed and locks dropped.  Files, `stdio` and `flock()` are modelled from their
use and marked external.  `isTTY` is chosen in the initial state: a terminal is
line buffered, a pipe or a file is not.

Four calls can fail.  `fopen()` and `dup()` are looked at (`OpenFileFails`,
`DupFails`).  `fdopen()` and `flock()` are not: after `FdopenFails` the log that is
published has no stream (`broken`), and the process dies at the next line of its
report or in `fclose()` (`ReportLineNull`, `CloseNull`, `Killed`); after `LockFails`
descriptor 1 is redirected without the lock (`unlocked`).  That `dup2()` fails
between two descriptors that are open is not considered.

The two engines share these functions line for line, and print differently:
`cxx` (a member of `Mixes`, chosen initially) are the processes that run the C++
engine, whose every line is flushed (`FlushedReportLine`, logger.cxx:40) where
the C engine leaves it in the buffer (`ReportLine`).  It is that flush that keeps
the report out of a log when the output is a pipe: `ReportOnConsole` is claimed on
a terminal, or for C++ engines.  With the C engine and a pipe, text printed
earlier can still be in the buffer of the real `stdout` when descriptor 1 is
redirected, and ends in the log when that buffer is flushed (a run without the
condition shows it).

### ThreadShim

`runTests()` as caller and one test thread after another, over pthreads and over
Win32; which of the two is chosen in the initial state.  Errors are named, not
numbered.  `OtherCall` is any call between two tests that leaves an error behind.
Every call can fail, the joins too: `JoinFailsPosix` leaves 0 where the test's value
would be, `JoinFailsWin32` leaves what `runTests()` preset, and in both the thread may
still run.  `runTests()` looks at that integer only (`GivesUp`, `GoesOn`); `left`
counts the threads it has gone on past.

### ArgsParser

`parseArguments()` of both languages, an argument per step.  `prog` is the
program (its table of options is `rows`), `argv` its arguments, `i` the one to
read next, `ret` what was read so far.  A token is a string only to give it a
name: the parsers compare whole tokens and beginnings, so all that is known of
one is the set `Beginnings[t]` of the tokens it begins with.  An entry of `ret`
keeps the row that took it instead of `flags` and `minLength`, which are copied
from the row.

| operator or action | C (`ArgsParser.c`) | C++ (`argsParser.cxx`) |
|---|---|---|
| `Decides`: first row that takes or rejects a token | 95-153 | 90-128 |
| `Rejects`, `BadlyFormed` | 145-151: a complete option with more text behind it | 121-126: the beginning of an incomplete option |
| `EndsParams`, `checkParams` | 23-45: the exact name of an option | 51-74: whatever a row takes |
| `DropDuplicate`, `NotEnoughParams`, `TakeOption`, `TakeWord` | 99-167 | 93-138 |
| `OutOfMemory`, `Refuse` | every allocation, 47-74 | 144-145 |
| `Is`, `findArg` | 179-190 | 21-27, 147-158 |
| `findArgInArgs`, `namedTests` | 192-203, crunch.c:166-188 | 160-170, crunch++.cpp:127-139 |

### ArgsAlloc

`parseArguments()` of C again, an allocation per step, and `main()` and
`getTests()` of crunch.c as the owner of the result.  `pc` is the allocation that
comes next.  `live` is what `malloc()` gave and `free()` has not got back; a block
is named by what it holds, so that a name freed twice, or never made, ends in
`wrong`.  `arrays` are the arrays that a variable of the program still points at:
whether everything in `live` can be reached is the leak check.  `allocCount` is
the interposer's countdown, which is how test/crunch/testArgsParser.c:158-197
fails each allocation in turn; here it starts at every value up to `MaxArm`, on
every command line.  Outcomes that are not `malloc()`'s are choices:
`ShrinkTestsFails` (`realloc()`), `GetCwdFails` (the process dies in
`extForLibrary()`, `pc = "killed"`).  `Parser` is `ArgsParser` with `ret` mapped
entry by entry; it supplies the operators that read tokens, and is what this
module is shown to implement: in it a command line takes one step per argument.

### FileNames and CrunchMake

`FileNames` has no state: `checkExt`, `isObj`, `toO` and `toSO` over names that are
sequences of pieces, split at ".", "/" and "\".  `stringView`'s `rfind` and
`compare` are modelled by what they do there.

`main()` of crunchMake: the parser, then `getTests()`, an entry of `ret` per step
(`seen` of them so far), then `compileTests()` source by source.
`Name[t]` is a token read as a file name.
`clang` is the build of crunchMake (two commands per source, or one); `code[f]`
says whose code is in file `f`; `test` is the place of the loop; `result` is
what `system()` returned last.  A source can be skipped at any time, since its
file may go away; a command that fails leaves its output as it was or without
code.  The texts of the commands are left out, and so is the handler of
`out_of_range` in `main()`: no conversion in crunchMake can throw it on the
paths modelled.  `Command` and `ExitStatus` (the low 8 bits) model `system()` and
`exit()`, which are external.

### Asserts

One call of an assertion per behaviour: `call` is chosen in the initial state and
`Return` or `Fail` is what becomes of it.  The model keeps the conversions:
`Parameter` is the type the arguments arrive in (`takes`, the prototype of a C
function; the type of the first argument for `assertEqual` in C++; `long`, whose
width is a variable, for the orders), `Result` and `Expected` the values that are
compared.  Integer types are their ranges and `Convert` is conversion modulo the
range.  Finite doubles are a set of integers with gaps that double with the
magnitude; `Plus` rounds to the nearest one and to the even one of two, as the
sums in `DELTA` and `delta()` are.  Texts are sequences of bytes with 0 the NUL
(`char *` stops there, `std::string` does not).  The diagnostic is left out, and
so are `fenv` (restored on every path) and enumerations (compared as their
underlying type).

## Runs

| run | what is checked |
|---|---|
| `c_engine` | `TypeOK`; `ReportAccountedFor`: the counters agree with the result lines as long as no two updates overlap; `FailureShows`: a test that failed shows in the counter, lost updates or not; `RunnerMallocsUnarmed`: a test that dies with malloc armed does not take the engine down; `RunLogKept`; `ImplementsTestRun`; `AbortIsFinal`; `Terminates` |
| `cxx_engine` | `TypeOK`; `ReportAccountedFor` along every unwinding; `LogOffBetweenTests`; `EndsInOrder`: a completed or abandoned run printed its summary, closed its log and has the status of its failures; `NoStaleSuites`; `ImplementsTestRun`; `Terminates` |
| `log_two_engines` | `TypeOK`; `RedirectedUnderLock`: of two processes with descriptor 1 on one file, one has no lock because its `flock()` failed; `OffMeansRestored`; `ReportOnConsole`; `LoggerIsLive`: what is published is not freed, at any step; `LockIsGranted` |
| `shim` | `TypeOK`; `JoinsAThread`; `DecidesOnTheValue`: on what the test ended with, and what a failed join is taken for; `OneTestAtATime` over Win32; `ParamsAreFreed`; `GetsThrough` |
| `command_lines` | `MakeTypeOK`; `ReadsInOrder`: what was read is what was given, in order and once, but for later copies of options; `ParamsFit`; `TestsAreWords`: the look-up agrees with the parser on what is no option; `FindsTheOption`: an option is found where it was given and nowhere else; `BuiltFromItsSource`: libraries hold the code of their own sources, up to the first failure, and no source is written over without `-o` |
| `args_alloc` | `TypeOK`; `NothingFreedTwice`: no clean-up path frees a block twice, or one never made; `NothingLeaked`: at every moment the blocks there are, are those a variable leads to; `ImplementsParser`: the steps are those of `ArgsParser` |
| `asserts` | `SaysWhatItReads`: a value in range of the parameters is compared as itself, a `std::string` byte for byte; `Complementary`: of an assertion and its negation exactly one passes; `DoublesNearEqual`: what the rounded epsilon guarantees, with NaN and infinities |
| `c_log_left_on` | refutes `LogOffBetweenTests` for the C engine: a failing test leaves its log on |
| `c_lost_update` | refutes `FailedRunFails`: of two failures on two threads one is lost, and when the test takes one back the run ends with 0 |
| `shim_stale_error` | refutes `CreatedAsReported` over Win32: a thread that runs is reported as not created |
| `make_status` | refutes `FailureIsReported`: a compiler exits with 1, crunchMake with 0 |
| `make_gather` | refutes `OneCompleteLibrary`: under `-o` every source is built over the one before |

The findings behind the refuted properties are in `PROJECT.json`, with the line
of the comment, test or document each disagrees with.

### Bounds

* `c_engine`: two libraries, so that a second one follows whatever happened in
  the first; up to two tests each, so that a test is followed by another one and
  by the end of its suite; two helpers beside the test, so that three updates of a
  counter can overlap, and a failure can be taken back while another one is
  being counted.  `allocCount` is armed with 0 (`MaxArm`): it can be on, fail a call
  and go off; larger values only put that off (the proofs have any).  The
  counters are bounded by the number of threads.  `c_lost_update` needs one test.
* `cxx_engine`: two libraries of up to two suites of one test, so that a library, a
  suite and a test follow whatever happened, one helper, which may outlive its
  test, and at most one failure taken back by a body (`MaxExcused`).  A second test
  of the same suite meets the state a test of the next suite does; the proofs have
  suites of any length.
* `log_two_engines`: one file, two engines of one thread each, and two successful
  allocations of a log between them: one each, so that either can wait for the
  other, or two for one of them, so that it logs again.  Both engines C, both C++,
  or one of each.
* `shim`: three threads, which is enough for an error to be left over from one
  and met by the next.

* `command_lines`: the tables of the three programs, with the larger one cut down
  to a row of each kind in its order, and those of the parsers' own tests (the only
  ones with an option of up to two parameters, or with an incomplete option in
  C).  Up to four tokens, which is a repeated option with a parameter each time,
  or `-o` with a name and two sources; tokens are an option, one that goes on, a
  beginning of one, the empty one, words.  The sources `a.c` and `a.cpp` share
  their object and library; `a.so.c`, `b.so.1` and `x.so.d/b` have ".so." in the
  name, at its end, and in a directory.  `system()` returns 0, 2 (a signal) or 256.

* `args_alloc`: lines of up to three tokens, which is a word or an option with one
  or two parameters followed by an argument whose allocation fails; the line of
  `testAllocs` makes 13 allocations in all, and `MaxArm` lets each be the one.
* `asserts`: types of 2, 3 and 4 bits stand for 8, 32 and 64 (with `long` either of
  the wider two), so every pair of narrower, wider and differently signed types
  occurs, with all values of both.  Doubles have 3-bit significands over nine
  magnitudes: at the small end an epsilon spans several gaps, at 1.0 it is
  one, in [2, 4) it meets ties, at the large end it vanishes.  Texts of up to three
  bytes of three values: a prefix, an embedded NUL, a difference behind it.

Symmetry is not used: the runs with many threads check liveness.

### Fairness

The engines have no timeouts, so every liveness property assumes that test
bodies end: weak fairness of the main thread (`Main`, `Caller`), of the actions
that bring a test's thread to its end (`Ending`, `Thread`), and in `Logger` of a
thread inside `startLogging()` or `stopLogging()` and of the end of each process.
It is the operating system's scheduling and nothing else; calls a test *may* make
(start a log, arm malloc, start a thread) carry no fairness, and no join or `flock()`
need ever fail (`JoinFails`, `LockFails` are outside the fair actions).  `flock()` needs no
strong fairness in these instances: an engine can start logging only a bounded
number of times, after which the lock stays free.

## Proofs

Every safety property and every refinement that a passing run checks is also
proved by TLAPS, for all values of the constants; two more, `PosixReports` and
`NoFalseAlarm`, are proved and in no run.

| module | theorem | statement |
|---|---|---|
| `CrunchProofs` | `Invariance`, `TypeCorrect` | `Spec => []IInv`, `Spec => []TypeOK` |
| | `ReportIsAccountedFor` | `Spec => []ReportAccountedFor` |
| | `RunLogIsKept` | `Spec => []RunLogKept` |
| | `AbortEndsTheRun` | `Spec => AbortIsFinal` |
| (`Strays = {}`) | `JoinedInvariance` | `Spec => []JInv` |
| | `FailureAlwaysShows` | `Spec => []FailureShows` |
| | `RunnerNeverArmed` | `Spec => []RunnerMallocsUnarmed` |
| | `Refinement` | `Spec => ImplementsTestRun` |
| `CrunchPPProofs` | `Invariance`, `TypeCorrect` | `Spec => []IInv`, `Spec => []TypeOK` |
| | `ReportIsAccountedFor` | `Spec => []ReportAccountedFor` |
| | `LogIsOffBetweenTests` | `Spec => []LogOffBetweenTests` |
| | `RunEndsInOrder` | `Spec => []EndsInOrder` |
| | `SuitesAreNeverStale` | `Spec => []NoStaleSuites` |
| | `Refinement` | `Spec => ImplementsTestRun` |
| `ThreadShimProofs` | `Invariance`, `TypeCorrect` | `Spec => []IInv`, `Spec => []TypeOK` |
| | `AlwaysJoinsAThread` | `Spec => []JoinsAThread` |
| | `PosixReportsTruly` | `Spec => []PosixReports` |
| | `DecisionIsOnTheValue` | `Spec => DecidesOnTheValue` |
| | `TestsRunOneAtATime` | `Spec => []OneTestAtATime` |
| | `ParametersAreFreed` | `Spec => []ParamsAreFreed` |
| `LoggerProofs` | `Invariance`, `TypeCorrect` | `Spec => []IInv`, `Spec => []TypeOK` |
| | `OutputUnderLock` | `Spec => []RedirectedUnderLock` |
| | `OffIsRestored` | `Spec => []OffMeansRestored` |
| | `ReportStaysOnConsole` | `Spec => []ReportOnConsole` |
| | `LoggerStaysLive` | `Spec => []LoggerIsLive` |
| `AssertsProofs` | `EqualsNeverDiffer` | `Spec => []NoFalseAlarm` |
| | `AssertionsSayWhatTheyRead` | `Spec => []SaysWhatItReads` |
| | `NegationsExclude` | `Spec => []Complementary` |
| | `NearDoublesAreEqual` | `Spec => []DoublesNearEqual` |
| `ArgsParserProofs` | `Invariance`, `TypeCorrect` | `Spec => []IInv`, `Spec => []TypeOK` |
| | `ParametersFit` | `Spec => []ParamsFit` |
| | `WordsAreTests` | `Spec => []TestsAreWords` |
| | `OptionsAreFound` | `Spec => []FindsTheOption` |
| | `LineIsReadInOrder` | `Spec => []ReadsInOrder` |
| `ArgsAllocProofs` | `Invariance`, `TypeCorrect` | `Spec => []IInv`, `Spec => []TypeOK` |
| | `EachBlockIsFreedOnce` | `Spec => []NothingFreedTwice` |
| | `NoBlockIsLost` | `Spec => []NothingLeaked` |
| | `Refinement` | `Spec => ImplementsParser` |
| `CrunchMakeProofs` | `RunsTheParser` | `MakeSpec => Spec` |
| | `MakeInvariance`, `MakeTypeCorrect` | `MakeSpec => []MakeIInv`, `MakeSpec => []MakeTypeOK` |
| | `ReadsItsLine` | `MakeSpec => [](ReadsInOrder /\ ParamsFit /\ TestsAreWords /\ FindsTheOption)` |
| | `LibrariesOfTheirSources` | `MakeSpec => []BuiltFromItsSource` |

### From which assumptions

The named assumptions of the modules on their constants, which TLC evaluates on
the runs' instances, and two hypotheses:

* `Strays = {}` in four theorems of `CrunchProofs`: the threads of a test are over
  when it is.  Nothing less will do: a thread that is left behind fails, or arms
  malloc, for the next test or for the engine.  The runs of `Crunch` have it too.
  How the threads of one test interleave is not restricted.
* `OneThreadEach` in `LoggerProofs`: in each process one thread starts and stops
  logs.  With two, `LoggerIsLive` does not hold (see below, "Seen on the way").  Any
  number of processes, of both engines, share any number of files.

The assumptions that say something about the code:

* `TableAssumption`, `TextAssumption`, `UnambiguousAssumption` (`ArgsParser`): a table
  is a sequence of rows; tokens begin with one another the way texts do; no name
  of an option is taken by another row before its own.  The last is what the order
  of the rows in the three tables is for (`-s` before `-std=`), and it is needed:
  without it `findArg()` finds what the parser read as something else.
* `OutputAssumption` (`CrunchMake`): `-o` takes one parameter, as its row says.
* `NullAssumption` (`ArgsAlloc`): `NULL` is none of the tokens, arrays and entries.
* `RoundingAssumption` (`Asserts`): of two nearest doubles one is even.
* `TypesAssumption` (`Asserts`): an integer type is a range of integers; nothing is
  assumed of the widths or the signs.

### Along which argument

Hardly any of the properties is inductive as it stands, and each `IInv` adds what
carries them.

**`Crunch`.**  Two invariants.  `IInv` holds of any threads in any interleaving,
those left behind included.  It is `TypeOK`, `ReportAccountedFor` and

* `Position`: where the main thread is bounds its loop counters, says whether
  the test's thread exists and what `runTests()` is about to return;
* `Probing`: whom `tryShouldFail()` waits for, and that what it takes back has been
  counted, so that the counter is not 0;
* `Apart`: as long as no two updates have overlapped, at most one is under way and
  the counter it loaded (`reg`) is still the counter when it is stored.  This is
  what makes `ReportAccountedFor` inductive;
* `Logs`: which log can be on at each `pc`, given `logFile` and `loggingTests`.

`JInv` adds what needs `Strays = {}`, and says nothing of overlaps, so it holds when
updates are lost:

* `Settled`: between tests no thread of a test runs, and malloc is off;
* `Floor`: while a test runs, neither the counter nor any value a thread holds of it
  is lower than the counter was when the test started; and once a FAIL is printed,
  and nothing taken back, the counter is higher or a thread is about to store.
  This is why the *last* update is never lost;
* `Ceiling`: nor are they higher than what the lines printed since account for;
* `Quota`: the lines printed and those that the threads may still print are at most
  one per thread.  So a joined test is a step of `TestRun`, in which it takes
  nothing from another one and adds at most one result for each of its threads.

Each group of actions is shown to preserve them, action by action, and to map
to steps of `TestRun` or to stutters.

**`CrunchPP`.**  The same shape with `Position` over three loops and the ways a
process ends; `Suites` (a registered suite is of the library at hand, since
`cxxTests` is emptied before the next one is loaded); `Apart`, as above, for the
helpers; `Pending`: outside a test the counters are the settled ones, and inside
they are ahead by what its threads have counted, which together with the `Turns`
they still have is at most one result each; `Closing`: once the summary is printed
the log is closed, and if the counter still changes, the thread that changed it is
about to end the process; and `Logs`, where the log of a test that ended in a
foreign exception is off because each handler of `testRunner()` stops it, and
one that got past all of them (`Escaped`) ends the run.  Of updates that
overlapped only the status is claimed: `Refinement` lets the counters go anywhere
in a step after an overlap, but a status still follows from them.

**`ThreadShim`.**  `Stages` says what there is of a thread at each label of the
caller, what `retVal` holds after a join that worked and one that did not, and
that a creation which failed left an error behind: that is why a
stale Win32 error can turn a success into a failure (the refuted
`CreatedAsReported`) but never a failure into a success, so that no thread is joined
that is not there.  `Ownership` is whose the parameter block is.

**`Logger`.**  `Stage(t)` gives the value of `logger`, `stdout`, descriptor 1 and the
log object at each label of the thread, `Locks` the label at which whoever holds a
lock must be: a lock is never left to a process that is not at such a label or is
gone, killed by a null stream or otherwise.  `Unbuffered` is the part about the report: on a terminal, or where the
engine flushes each line, no buffer holds a line of it when descriptor 1 is
switched, which is what `ReportOnConsole` needs of every action that flushes.

**`Asserts`.**  The outcome of a call is `Fails(call)` and the arguments are of their
types; the rest is arithmetic.  `ConvertLemma` (a conversion modulo the range lands
in it and keeps what is in it) and `IntegerVerdict` give the theorems about
integers of any widths, `SameTextLemma` those about texts of any length;
`RoundingLemma` and `DeltaLemma` bound the rounded sum from both sides, for any set
of doubles: it is the nearest one, so it is never beyond a double that lies
between.

**`ArgsParser`.**  That an option is not read twice, and that looking it up finds
what was read, depends on a token being decided on by the same row whenever it is
looked at.  `Decided` says that every entry is of the first row that takes or
rejects its token.  `Decides` and `checkParams` choose a least number, and
`DecidesLemma` and `ParamsLemma` replace them by what determines it (`First`,
`Extent`).  `FindsTheOption` then follows from `UnambiguousAssumption`.  `ReadsInOrder` says that
there is a position for every entry; the proof that a step keeps it takes the
positions of the step before and adds `i` for a new entry (`AddInOrder`), and uses
`Decided` where a copy is left out: the entry it repeats is of the same row.

**`ArgsAlloc`.**  `AtWork` says which parts of the half-made entry there are at each
allocation (value; then `paramsFound`; then the array; then its first `m` strings),
because the clean-up paths go by what they find in it; `Stages` says which
arrays there are.  `NothingLeaked` equates `live` with what the variables lead to,
so a path that frees must free exactly that; that no block has two owners is
`ApartLemma` and `PendingLemma`.  The refinement maps the steps between two
arguments to stutters and the last one of each argument to the step of `ArgsParser`
(`PushRefines`).

**`CrunchMake`.**  With `Begun` the sources a command was given and `Clean` that none
of those was written over: `Intact`, a source no command wrote over holds its own
code; `Compiled`, under clang the object the linker is given has the code of the
source at hand; `Built`, the library of every earlier source holds its code or a
later one was built over it.  The last is preserved by a command because what it
writes is in `Writes(test)`, and `test` is later than all others.  `MadeIsObject`
(what `toO` and `toSO` make of any name is an object file to `isObj`) gives the
claim that without `-o` no source is written over.  Each step of crunchMake is one
of the parser or leaves it alone (`RunsTheParser`), which is how the theorems about
the parser, and `OutputAssumption`, come to bear: `NamesLemma` shows that
`computeSOName()` has a parameter of `-o` to read.

### What is only model-checked

* Liveness: `Terminates` (both engines), `GetsThrough`, `LockIsGranted`.  They need
  fairness and `ENABLED`, which the prover does not handle.
* That the tables of the three programs satisfy `UnambiguousAssumption`: TLC
  evaluates it for the tables of the runs, of which crunchMake's is cut down.
* The properties of the runs that expect a violation do not hold, and nothing is
  proved of them.

## Plan

Done, in this order:

1. `TestRun`, `Crunch`: the C engine, its runs.
2. `CrunchProofs`: its invariants and refinement for every instance.
3. `CrunchPP`: the C++ engine, against the same contract.
4. `Logger`, `ThreadShim`: what the engines take as one step.
5. `ArgsParser`, `CrunchMake`: the command lines and what crunchMake builds.
6. `ArgsAlloc`: the ownership of every block the C parser allocates.
7. `Asserts`: the comparisons of both assertion libraries.
8. `FileNames`, and the two engines apart in `Logger`.
9. Proofs about every component: `ThreadShimProofs`, `CrunchPPProofs`,
   `LoggerProofs`, `AssertsProofs`, `ArgsParserProofs`, `ArgsAllocProofs`,
   `CrunchMakeProofs`.
10. The threads of a test beside each other (`Crunch`, `CrunchPP`), with proofs that
    do not assume them apart; what suites throw outside their tests; the failures
    of `fdopen()`, `flock()` and the joins.

Next:

11. `Logger` for several threads of one engine that take turns (now: one thread),
    with the exchange of turns as an invariant.
12. `FileNames`: where the names that crunchMake computes coincide, so that the
    sources that are built over each other can be told from their names.

Not planned: the string helpers and the texts (formatting only), the register
dump of the signal handler (output), the interposed `malloc()` with its test and
decrement apart (nothing is promised of it for two threads), the flags of
crunchMake's commands (texts), colours and columns of `logResult()`, the
Windows half of the logger (no lock, no `stdout` to replace), build files.

## Seen on the way

Disagreements met while modelling that have no run of their own:

* `-pthread` is documented as "Specify that you wish to build and link against
  pthreads" (man/crunchMake.1.md:51); `threadingFlags()`
  (compilerUnixlike.cxx:47) passes the flag unless it is given.
* With `--log`, `loggingTests` is set whether or not the file opened
  (crunch.c:248-249), and a log that a passing test left on then stays on.
* docs/crunch.md:118 says an assertion "fails with a diagnostic, and aborts the test
  case"; on a thread that the test left running it ends that thread, and the
  test case can pass.  The C++ engine's assertions end the whole process there
  (nothing catches `threadExit_t` on a `std::thread`), although docs/index.md:11-12
  names assertions on other threads as what crunch improves on.
* Two threads of one test that call `startLogging()` at once can both get a log
  (Logger.c:208 tests what 234 sets); test/crunch/testCrunch.c:280 asserts "that
  double-logging is not allowed", from one thread.  A thread can also print between
  234, where another one publishes its log, and 235, where the log gets its stream;
  `LoggerIsLive` is violated in `Logger` as soon as `ProcOf` gives a process two
  threads.
* An abort of a C++ test is also reported as "Exception caught by crunch++ outside
  test" (tester.cxx:106): `echoAborted()` at line 102 throws inside the `try` that
  line is the handler of.  `Abandon` of `CrunchPP` has both lines and the failure that
  is counted and taken back.
* docs/crunch++.md:95 offers "run-time detection that a test or suite does not
  apply"; `skip()` in its constructor ends the run, with status 1 and no statistics
  (crunch++.cpp:145 and 537).  `RegistrationThrows` of `CrunchPP` is that path.
* docs/crunch++.md:172 says `assertEqual` "Checks that two entities have the same
  value."; the template for two types (crunch++.h:253) converts the second argument
  to the type of the first, so that 256 equals a `uint8_t` of 0.  `SaysWhatItReads` is
  about values both types have; `Expected` of `Asserts` is the conversion.
* A thread of a test that detached itself cannot be joined; over pthreads the engine
  takes that for a value of 0 (threadShim.c:51-54) and starts the next test beside it.
* `assertUintEqual`, `assertUint64Equal` and their negations are declared
  (crunch.h:95-106) and documented (docs/crunch.md:112-115) and defined nowhere.
* When `realloc()` fails in `getTests()` (crunch.c:193) the array it was given is
  leaked; when `getcwd()` fails (crunch.c:371) `extForLibrary()` takes the length of
  NULL.  `ArgsAlloc` has both.
* A source whose name has ".so." in it (`a.so.c`) is an object file to `isObj()`, and
  is linked instead of built.  Under clang, `-o dir.d/lib` puts the object beside
  the directory (`dir.o`), since `toO()` cuts at the last dot of the whole path.
