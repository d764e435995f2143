---------------------------- MODULE CrunchPPProofs ----------------------------
(***************************************************************************)
(* Proofs about the C++ engine, for any number of libraries, suites, tests *)
(* and threads that tests start, which may outlive them.                   *)
(*                                                                         *)
(* The invariant IInv adds to the checked properties what carries them     *)
(* from step to step: Position (where the main thread is against the       *)
(* test's thread, the lists it walks and the process), Suites (which       *)
(* suites are registered), Apart (a helper's loaded counter is current     *)
(* unless two updates have overlapped), Pending (what the counters are     *)
(* ahead of the results settled, and what the threads may still add),      *)
(* Closing (the summary against the counters) and Logs.                    *)
(***************************************************************************)
EXTENDS CrunchPP, FiniteSetTheorems, TLAPS

\* The main thread's position against the test's thread and the process.
Position ==
  /\ thread[Tester] \in {"none", "body", "unwinding", "exited"}
  /\ \A h \in Helpers : thread[h] # "unwinding"
  /\ pc = "join" => thread[Tester] # "none"
  /\ thread[Tester] # "none" => pc \in {"join", "over"}
  /\ pc = "over" <=> exitCode # Running
  /\ pc = "main" => nLibs = 0 /\ failures = 0
  /\ pc \in {"main", "start"} => lib = 0 /\ \A t \in Threads : thread[t] = "none"
  /\ pc # "main" => lib <= nLibs
  /\ pc \in {"suites", "tests", "join", "abort", "thrown"} => lib < nLibs
  /\ pc = "exit" => lib = nLibs
  /\ pc \notin {"main", "over"} => nLibs # 0
  /\ pc \in {"tests", "join", "abort"} => test <= suiteLen
  /\ pc = "join" => test < suiteLen
  /\ pc = "thrown" => outside \/ value \in 0..2
  /\ outside => pc \in {"thrown", "over"}

\* Once the summary is printed the log is closed, and only the threads left
\* behind change the counters.
Closing ==
  /\ summary # NoSummary => pc = "exit" \/ pc = "over" \/ outside
  /\ pc = "exit" \/ outside =>
       /\ summary # NoSummary /\ logger # RunLog
       /\ summary # failures => \E h \in Helpers : thread[h] = "throwing"
  /\ EndsInOrder

\* The suites there are, and the main thread's place among them.
Suites ==
  /\ NoStaleSuites
  /\ pc \in {"main", "start"} => cxxTests = <<>>
  /\ Len(cxxTests) <= MaxSuites
  /\ pc = "suites" => suite <= Len(cxxTests)
  /\ pc \in {"tests", "join", "abort"} => suite < Len(cxxTests)

\* While no two updates have overlapped, at most one helper is within one, and
\* the value it has loaded is still current.
Apart ==
  ~overlap =>
    \A h \in Helpers : Updating(h) =>
      /\ reg[h] = IF thread[h] = "failing" THEN failures ELSE passes
      /\ \A k \in Helpers : Updating(k) => k = h

\* What may still be counted of the test under way: one result for each helper
\* that has counted none, and one for the test itself, nothing of which has
\* been counted while its body runs or an exception of its own is unwinding.
Left == {h \in Helpers : thread[h] \in {"none", "body", "failing", "skipping"}}
Mine == \/ thread[Tester] = "body"
        \/ thread[Tester] = "unwinding" /\ value = Foreign
Turns == Cardinality(Left) + IF Mine THEN 1 ELSE 0

\* What has been counted is settled, but for the test under way.
Pending ==
  /\ pc \notin {"join", "over"}
       => passes = settled.passes /\ failures = settled.failures
  /\ pc = "join" /\ ~overlap =>
       /\ passes >= settled.passes /\ failures >= settled.failures
       /\ (passes - settled.passes) + (failures - settled.failures) + Turns
            <= 1 + Cardinality(Helpers)

\* Without --log a log is on only inside a test, or for good after bad_alloc;
\* the log of --log is open only for a run that logs.
Logs ==
  /\ LogOffBetweenTests
  /\ pc \in {"main", "start"} => logger = NoLog /\ logFile = NoLog /\ ~loggingTests
  /\ pc = "main" => ~logging
  /\ pc # "start" => loggingTests = logging
  /\ logger = RunLog => logFile = RunLog
  /\ logFile = RunLog => logging
  /\ pc = "join" /\ thread[Tester] = "exited" /\ ~logging
       => logger = NoLog \/ value = Escaped

IInv == /\ TypeOK /\ ReportAccountedFor /\ Apart /\ Position /\ Suites
        /\ Closing /\ Pending /\ Logs

----------------------------------------------------------------------------

USE ThreadsAssumption, BoundsAssumption
USE DEF Threads, NoLog, RunLog, TestLog, Foreign, Escaped, Running, Killed, NoSummary

\* What a library registers, as the whole of cxxTests.
LEMMA Registered ==
  ASSUME NEW n \in 0..MaxSuites, NEW l \in 0..MaxLibs
  PROVE  LET s == <<>> \o [i \in 1..n |-> l]
         IN  /\ s \in Seq(0..MaxLibs)
             /\ Len(s) = n
             /\ \A i \in 1..Len(s) : s[i] = l
  <1> DEFINE s == [i \in 1..n |-> l]
  <1>1. s \in Seq(0..MaxLibs) /\ Len(s) = n
    OBVIOUS
  <1>2. <<>> \o s = s
    BY <1>1
  <1> QED
    BY <1>1, <1>2

\* Adding lines to the result lines printed changes the numbers of those lines.
LEMMA MoreLines ==
  ASSUME NEW p \in [ok : Nat, fail : Nat, skip : Nat, abort : Nat],
         NEW f \in Nat, NEW a \in Nat
  PROVE  LET q == [p EXCEPT !.abort = @ + a, !.fail = @ + f]
         IN  /\ q \in [ok : Nat, fail : Nat, skip : Nat, abort : Nat]
             /\ q.fail = p.fail + f /\ q.ok = p.ok /\ q.skip = p.skip
  <1> DEFINE r == [p EXCEPT !.abort = @ + a]
             q == [r EXCEPT !.fail = @ + f]
  <1>1. /\ r \in [ok : Nat, fail : Nat, skip : Nat, abort : Nat]
        /\ r.fail = p.fail /\ r.ok = p.ok /\ r.skip = p.skip
    OBVIOUS
  <1> HIDE DEF r
  <1>2. /\ q \in [ok : Nat, fail : Nat, skip : Nat, abort : Nat]
        /\ q.fail = p.fail + f /\ q.ok = p.ok /\ q.skip = p.skip
    BY <1>1
  <1> QED
    BY <1>2 DEF r

\* The size of a set of helpers, and of what is left when some, or one, go.
LEMMA Sizes ==
  ASSUME NEW S \in SUBSET Helpers
  PROVE  /\ Cardinality(S) \in Nat /\ Cardinality(Helpers) \in Nat
         /\ Cardinality(S) <= Cardinality(Helpers)
         /\ \A R \in SUBSET S : Cardinality(R) \in Nat /\ Cardinality(R) <= Cardinality(S)
         /\ \A h \in S : Cardinality(S \ {h}) = Cardinality(S) - 1
  BY FS_Subset, FS_CardinalityType, FS_RemoveElement

\* The initial state satisfies the invariant.
LEMMA InitIInv == Init => IInv
  <1> SUFFICES ASSUME Init PROVE IInv
    OBVIOUS
  <1> USE DEF Init
  <1>1. TypeOK
    <2>1. RunnerType
      BY DEF RunnerType
    <2>2. LogType
      BY DEF LogType
    <2>3. ThreadType
      BY DEF ThreadType
    <2>4. passes \in Nat /\ failures \in Nat /\ excused \in Nat
      OBVIOUS
    <2>5. outside \in BOOLEAN /\ overlap \in BOOLEAN
      OBVIOUS
    <2>6. /\ printed \in [ok : Nat, fail : Nat, skip : Nat, abort : Nat]
          /\ settled \in [passes : Nat, failures : Nat]
      OBVIOUS
    <2>7. summary \in Nat \cup {NoSummary} /\ exitCode \in {Running, 0, 1, 2, Killed}
      OBVIOUS
    <2> QED
      BY <2>1, <2>2, <2>3, <2>4, <2>5, <2>6, <2>7 DEF TypeOK, CountType
  <1>2. ReportAccountedFor
    BY DEF ReportAccountedFor, InFlight
  <1>3. Position /\ Suites
    BY DEF Position, Suites, NoStaleSuites
  <1>4. Apart
    BY DEF Apart, Updating
  <1>5. Closing
    BY DEF Closing, EndsInOrder
  <1>6. Pending /\ Logs
    BY DEF Pending, Logs, LogOffBetweenTests
  <1> QED
    BY <1>1, <1>2, <1>3, <1>4, <1>5, <1>6 DEF IInv

\* What a suite does outside its tests adds one result at most, and its line.
LEMMA SuiteCounts ==
  ASSUME IInv, SuiteSkips \/ SuiteFails \/ SuiteAborts \/ SuiteLeaves,
         UNCHANGED <<thread, reg, excused>>
  PROVE  /\ passes' \in Nat /\ failures' \in Nat /\ overlap' \in BOOLEAN
         /\ printed' \in [ok : Nat, fail : Nat, skip : Nat, abort : Nat]
         /\ ReportAccountedFor' /\ Apart'
         /\ passes' >= passes /\ failures' >= failures
         /\ (passes' - passes) + (failures' - failures) <= 1
  <1> DEFINE Lines == [ok : Nat, fail : Nat, skip : Nat, abort : Nat]
             Counted == /\ passes' \in Nat /\ failures' \in Nat /\ printed' \in Lines
                        /\ passes' >= passes /\ failures' >= failures
                        /\ (passes' - passes) + (failures' - failures) <= 1
             Told == overlap' \in BOOLEAN /\ ReportAccountedFor' /\ Apart'
  <1> USE DEF IInv, TypeOK, CountType, counters
  <1>1. CASE SuiteSkips
    <2>1. Counted
      BY <1>1 DEF SuiteSkips
    <2>2. overlap' \in BOOLEAN
      BY <1>1 DEF SuiteSkips, Updates
    <2>3. CASE overlap'
      BY <2>1, <2>2, <2>3 DEF ReportAccountedFor, Apart
    <2>4. CASE ~overlap'
      <3>1. ~overlap /\ \A h \in Helpers : ~Updating(h) /\ ~Updating(h)'
        BY <1>1, <2>4 DEF SuiteSkips, Updates, Updating
      <3>2. \A u \in {"failing", "skipping"} : InFlight(u) = 0 /\ InFlight(u)' = 0
        BY <3>1 DEF InFlight, Updating
      <3>3. /\ printed'.ok = printed.ok /\ printed'.fail = printed.fail
            /\ printed'.skip = printed.skip + 1
            /\ passes' = passes + 1 /\ failures' = failures
        BY <1>1 DEF SuiteSkips
      <3> QED
        <4>1. ReportAccountedFor'
          BY <3>1, <3>2, <3>3 DEF ReportAccountedFor
        <4>2. Apart'
          BY <3>1 DEF Apart
        <4> QED
          BY <2>1, <2>2, <4>1, <4>2
    <2> QED
      BY <2>1, <2>2, <2>3, <2>4
  <1>2. CASE SuiteFails
    <2>1. Counted
      BY <1>2 DEF SuiteFails
    <2>2. overlap' \in BOOLEAN
      BY <1>2 DEF SuiteFails, Updates
    <2>3. CASE overlap'
      BY <2>1, <2>2, <2>3 DEF ReportAccountedFor, Apart
    <2>4. CASE ~overlap'
      <3>1. ~overlap /\ \A h \in Helpers : ~Updating(h) /\ ~Updating(h)'
        BY <1>2, <2>4 DEF SuiteFails, Updates, Updating
      <3>2. \A u \in {"failing", "skipping"} : InFlight(u) = 0 /\ InFlight(u)' = 0
        BY <3>1 DEF InFlight, Updating
      <3>3. /\ printed'.ok = printed.ok /\ printed'.fail = printed.fail + 1
            /\ printed'.skip = printed.skip
            /\ failures' = failures + 1 /\ passes' = passes
        BY <1>2 DEF SuiteFails
      <3> QED
        <4>1. ReportAccountedFor'
          BY <3>1, <3>2, <3>3 DEF ReportAccountedFor
        <4>2. Apart'
          BY <3>1 DEF Apart
        <4> QED
          BY <2>1, <2>2, <4>1, <4>2
    <2> QED
      BY <2>1, <2>2, <2>3, <2>4
  <1>3. CASE SuiteAborts
    <2>1. Counted
      BY <1>3 DEF SuiteAborts
    <2>2. Told
      BY <1>3 DEF SuiteAborts, ReportAccountedFor, InFlight, Apart, Updating
    <2> QED
      BY <2>1, <2>2
  <1>4. CASE SuiteLeaves
    BY <1>4 DEF SuiteLeaves, ReportAccountedFor, InFlight, Apart, Updating
  <1> QED
    BY <1>1, <1>2, <1>3, <1>4

\* A suite that is passed over counts at most one result, and reports it.
LEMMA PassOverStep == IInv /\ PassOver => IInv'
  <1> SUFFICES ASSUME IInv, PassOver PROVE IInv'
    OBVIOUS
  <1> USE SuiteCounts DEF IInv, TypeOK, PassOver, logVars, threadVars
  <1>1. RunnerType' /\ LogType' /\ ThreadType'
    BY DEF RunnerType, LogType, ThreadType, Suites
  <1>2. CountType'
    BY DEF CountType, Settle
  <1>3. ReportAccountedFor' /\ Apart'
    OBVIOUS
  <1>4. Position' /\ Suites'
    BY DEF RunnerType, ThreadType, CountType, Position, Suites, NoStaleSuites
  <1>5. Closing'
    BY DEF Closing, EndsInOrder, Position
  <1>6. Pending' /\ Logs'
    BY DEF Pending, Settle, CountType, Logs, LogOffBetweenTests
  <1> QED
    BY <1>1, <1>2, <1>3, <1>4, <1>5, <1>6

\* So does a library whose registration throws: it leaves its suites registered,
\* and the main thread on its way out of runTests().
LEMMA RegistrationThrowsStep ==
  ASSUME IInv, NEW n \in 0..MaxSuites, NEW v \in 0..2, RegistrationThrows(n, v)
  PROVE  IInv'
  <1> USE SuiteCounts DEF IInv, TypeOK, RegistrationThrows, logVars
  <1>1. /\ cxxTests' \in Seq(0..MaxLibs) /\ Len(cxxTests') = n
        /\ \A i \in 1..Len(cxxTests') : cxxTests'[i] = lib
    BY Registered DEF Suites, NoStaleSuites, RunnerType
  <1>2. RunnerType' /\ LogType' /\ ThreadType'
    BY <1>1 DEF RunnerType, LogType, ThreadType, Suites
  <1>3. CountType'
    BY DEF CountType, Settle
  <1>4. ReportAccountedFor' /\ Apart'
    OBVIOUS
  <1>5. Position'
    BY DEF RunnerType, ThreadType, CountType, Position
  <1>6. Suites'
    BY <1>1 DEF Suites, NoStaleSuites
  <1>7. Closing'
    BY DEF Closing, EndsInOrder, Position
  <1>8. Pending' /\ Logs'
    BY DEF Pending, Settle, CountType, Logs, LogOffBetweenTests
  <1> QED
    BY <1>2, <1>3, <1>4, <1>5, <1>6, <1>7, <1>8

\* A run that a test has abandoned: the failure printed is taken back, and the
\* summary and the log are dealt with as at an end in order.
LEMMA AbandonStep == IInv /\ Abandon => IInv'
  <1> SUFFICES ASSUME IInv, Abandon PROVE IInv'
    OBVIOUS
  <1> USE DEF IInv, TypeOK, threadVars
  <1> DEFINE lines == IF value = Escaped THEN 1 ELSE 2
  <1>1. failures' = failures
    BY DEF Abandon, TakenBack, CountType
  <1>2. printed' = [printed EXCEPT !.abort = @ + lines, !.fail = @ + 1]
    BY DEF Abandon
  <1>3. /\ printed' \in [ok : Nat, fail : Nat, skip : Nat, abort : Nat]
        /\ printed'.fail = printed.fail + 1
        /\ printed'.ok = printed.ok /\ printed'.skip = printed.skip
    <2>1. lines \in Nat
      OBVIOUS
    <2> HIDE DEF lines
    <2> QED
      BY <1>2, <2>1, MoreLines DEF CountType
  <1>4. /\ passes' = passes /\ outside' = TRUE /\ excused' = excused + 1
        /\ settled' = settled /\ summary' = failures /\ exitCode' = exitCode
        /\ thread' = thread /\ reg' = reg /\ value' = value
    BY <1>1 DEF Abandon
  <1>5. RunnerType' /\ LogType' /\ ThreadType'
    BY DEF Abandon, LogAfterRun, AfterStop, RunnerType, LogType, ThreadType
  <1>6. CountType'
    <2>1. overlap' \in BOOLEAN
      BY DEF Abandon, Updates, CountType
    <2> QED
      BY <1>1, <1>3, <1>4, <2>1 DEF CountType
  <1>7. ReportAccountedFor' /\ Apart'
    <2>1. ~overlap' => ~overlap
      BY DEF Abandon, Updates
    <2> QED
      BY <1>1, <1>3, <1>4, <2>1 DEF CountType, ReportAccountedFor, InFlight,
         Apart, Updating
  <1>8. Closing'
    BY <1>1, <1>4 DEF Abandon, LogAfterRun, AfterStop, Closing, EndsInOrder, Logs,
       LogType, Position, CountType
  <1>9. Position' /\ Suites'
    BY <1>4 DEF Abandon, Position, Suites, NoStaleSuites
  <1>10. Pending' /\ Logs'
    BY <1>1, <1>4 DEF Abandon, LogAfterRun, AfterStop, Pending, Logs,
       LogOffBetweenTests, LogType
  <1> QED
    BY <1>5, <1>6, <1>7, <1>8, <1>9, <1>10

\* The main thread's steps preserve the invariant.
LEMMA MainStep == IInv /\ Main => IInv'
  <1> SUFFICES ASSUME IInv, Main PROVE IInv'
    OBVIOUS
  <1> USE DEF IInv, TypeOK, runnerVars, logVars, counters, threadVars, reportVars
  <1>1. CASE Refuse(0)
    <2>1. RunnerType' /\ LogType'
      BY <1>1 DEF Refuse, RunnerType, LogType, Position, Suites
    <2>2. ThreadType'
      BY <1>1 DEF Refuse, ThreadType, CountType
    <2>3. CountType'
      BY <1>1 DEF Refuse, CountType, ThreadType, Position
    <2>4. ReportAccountedFor'
      BY <1>1 DEF Refuse, ReportAccountedFor, InFlight, Apart, Updating,
         ThreadType, CountType
    <2>5. Apart'
      BY <1>1 DEF Refuse, Apart, Updating, ThreadType, CountType
    <2>6. Position'
      BY <1>1 DEF Refuse, Position, RunnerType, ThreadType
    <2>7. Suites'
      BY <1>1 DEF Refuse, Suites, NoStaleSuites, Position, RunnerType
    <2>8. Closing'
      BY <1>1 DEF Refuse, Closing, EndsInOrder, Position, RunnerType,
         ThreadType, CountType, LogType, Logs
    <2>9. Pending'
      BY <1>1 DEF Refuse, Pending, Turns, Left, Mine, Position, ThreadType,
         CountType
    <2>10. Logs'
      BY <1>1 DEF Refuse, Logs, LogOffBetweenTests, LogType, Position,
         ThreadType
    <2> QED
      BY <2>1, <2>2, <2>3, <2>4, <2>5, <2>6, <2>7, <2>8, <2>9, <2>10
  <1>2. CASE Refuse(2)
    <2>1. RunnerType' /\ LogType'
      BY <1>2 DEF Refuse, RunnerType, LogType, Position, Suites
    <2>2. ThreadType'
      BY <1>2 DEF Refuse, ThreadType, CountType
    <2>3. CountType'
      BY <1>2 DEF Refuse, CountType, ThreadType, Position
    <2>4. ReportAccountedFor'
      BY <1>2 DEF Refuse, ReportAccountedFor, InFlight, Apart, Updating,
         ThreadType, CountType
    <2>5. Apart'
      BY <1>2 DEF Refuse, Apart, Updating, ThreadType, CountType
    <2>6. Position'
      BY <1>2 DEF Refuse, Position, RunnerType, ThreadType
    <2>7. Suites'
      BY <1>2 DEF Refuse, Suites, NoStaleSuites, Position, RunnerType
    <2>8. Closing'
      BY <1>2 DEF Refuse, Closing, EndsInOrder, Position, RunnerType,
         ThreadType, CountType, LogType, Logs
    <2>9. Pending'
      BY <1>2 DEF Refuse, Pending, Turns, Left, Mine, Position, ThreadType,
         CountType
    <2>10. Logs'
      BY <1>2 DEF Refuse, Logs, LogOffBetweenTests, LogType, Position,
         ThreadType
    <2> QED
      BY <2>1, <2>2, <2>3, <2>4, <2>5, <2>6, <2>7, <2>8, <2>9, <2>10
  <1>3. ASSUME NEW n \in 1..MaxLibs, NEW log \in BOOLEAN, Accept(n, log) PROVE IInv'
    <2>1. RunnerType' /\ LogType'
      BY <1>3 DEF Accept, RunnerType, LogType, Position, Suites
    <2>2. ThreadType'
      BY <1>3 DEF Accept, ThreadType, CountType
    <2>3. CountType'
      BY <1>3 DEF Accept, CountType, ThreadType, Position
    <2>4. ReportAccountedFor'
      BY <1>3 DEF Accept, ReportAccountedFor, InFlight, Apart, Updating,
         ThreadType, CountType
    <2>5. Apart'
      BY <1>3 DEF Accept, Apart, Updating, ThreadType, CountType
    <2>6. Position'
      BY <1>3 DEF Accept, Position, RunnerType, ThreadType
    <2>7. Suites'
      BY <1>3 DEF Accept, Suites, NoStaleSuites, Position, RunnerType
    <2>8. Closing'
      BY <1>3 DEF Accept, Closing, EndsInOrder, Position, RunnerType,
         ThreadType, CountType, LogType, Logs
    <2>9. Pending'
      BY <1>3 DEF Accept, Pending, Turns, Left, Mine, Position, ThreadType,
         CountType
    <2>10. Logs'
      BY <1>3 DEF Accept, Logs, LogOffBetweenTests, LogType, Position,
         ThreadType
    <2> QED
      BY <2>1, <2>2, <2>3, <2>4, <2>5, <2>6, <2>7, <2>8, <2>9, <2>10
  <1>4. ASSUME NEW opens \in BOOLEAN, OpenRunLog(opens) PROVE IInv'
    <2>1. RunnerType' /\ LogType'
      BY <1>4 DEF OpenRunLog, RunnerType, LogType, Position, Suites
    <2>2. ThreadType'
      BY <1>4 DEF OpenRunLog, ThreadType, CountType
    <2>3. CountType'
      BY <1>4 DEF OpenRunLog, CountType, ThreadType, Position
    <2>4. ReportAccountedFor'
      BY <1>4 DEF OpenRunLog, ReportAccountedFor, InFlight, Apart, Updating,
         ThreadType, CountType
    <2>5. Apart'
      BY <1>4 DEF OpenRunLog, Apart, Updating, ThreadType, CountType
    <2>6. Position'
      BY <1>4 DEF OpenRunLog, Position, RunnerType, ThreadType
    <2>7. Suites'
      BY <1>4 DEF OpenRunLog, Suites, NoStaleSuites, Position, RunnerType
    <2>8. Closing'
      BY <1>4 DEF OpenRunLog, Closing, EndsInOrder, Position, RunnerType,
         ThreadType, CountType, LogType, Logs
    <2>9. Pending'
      BY <1>4 DEF OpenRunLog, Pending, Turns, Left, Mine, Position,
         ThreadType, CountType
    <2>10. Logs'
      BY <1>4 DEF OpenRunLog, Logs, LogOffBetweenTests, LogType, Position,
         ThreadType
    <2> QED
      BY <2>1, <2>2, <2>3, <2>4, <2>5, <2>6, <2>7, <2>8, <2>9, <2>10
  <1>5. CASE LibraryKills
    <2>1. RunnerType' /\ LogType'
      BY <1>5 DEF LibraryKills, Dies, RunnerType, LogType, Position, Suites
    <2>2. ThreadType'
      BY <1>5 DEF LibraryKills, Dies, ThreadType, CountType
    <2>3. CountType'
      BY <1>5 DEF LibraryKills, Dies, CountType, ThreadType, Position
    <2>4. ReportAccountedFor'
      BY <1>5 DEF LibraryKills, Dies, ReportAccountedFor, InFlight, Apart,
         Updating, ThreadType, CountType
    <2>5. Apart'
      BY <1>5 DEF LibraryKills, Dies, Apart, Updating, ThreadType, CountType
    <2>6. Position'
      BY <1>5 DEF LibraryKills, Dies, Position, RunnerType, ThreadType
    <2>7. Suites'
      BY <1>5 DEF LibraryKills, Dies, Suites, NoStaleSuites, Position,
         RunnerType
    <2>8. Closing'
      BY <1>5 DEF LibraryKills, Dies, Closing, EndsInOrder, Position,
         RunnerType, ThreadType, CountType, LogType, Logs
    <2>9. Pending'
      BY <1>5 DEF LibraryKills, Dies, Pending, Turns, Left, Mine, Position,
         ThreadType, CountType
    <2>10. Logs'
      BY <1>5 DEF LibraryKills, Dies, Logs, LogOffBetweenTests, LogType,
         Position, ThreadType
    <2> QED
      BY <2>1, <2>2, <2>3, <2>4, <2>5, <2>6, <2>7, <2>8, <2>9, <2>10
  <1>6. CASE SkipLibrary
    <2>1. RunnerType' /\ LogType'
      BY <1>6 DEF SkipLibrary, RunnerType, LogType, Position, Suites
    <2>2. ThreadType'
      BY <1>6 DEF SkipLibrary, ThreadType, CountType
    <2>3. CountType'
      BY <1>6 DEF SkipLibrary, CountType, ThreadType, Position
    <2>4. ReportAccountedFor'
      BY <1>6 DEF SkipLibrary, ReportAccountedFor, InFlight, Apart, Updating,
         ThreadType, CountType
    <2>5. Apart'
      BY <1>6 DEF SkipLibrary, Apart, Updating, ThreadType, CountType
    <2>6. Position'
      BY <1>6 DEF SkipLibrary, Position, RunnerType, ThreadType
    <2>7. Suites'
      BY <1>6 DEF SkipLibrary, Suites, NoStaleSuites, Position, RunnerType
    <2>8. Closing'
      BY <1>6 DEF SkipLibrary, Closing, EndsInOrder, Position, RunnerType,
         ThreadType, CountType, LogType, Logs
    <2>9. Pending'
      BY <1>6 DEF SkipLibrary, Pending, Turns, Left, Mine, Position,
         ThreadType, CountType
    <2>10. Logs'
      BY <1>6 DEF SkipLibrary, Logs, LogOffBetweenTests, LogType, Position,
         ThreadType
    <2> QED
      BY <2>1, <2>2, <2>3, <2>4, <2>5, <2>6, <2>7, <2>8, <2>9, <2>10
  <1>7. CASE RegistrationFails
    <2>1. RunnerType' /\ LogType'
      BY <1>7 DEF RegistrationFails, RunnerType, LogType, Position, Suites
    <2>2. ThreadType'
      BY <1>7 DEF RegistrationFails, ThreadType, CountType
    <2>3. CountType'
      BY <1>7 DEF RegistrationFails, CountType, ThreadType, Position
    <2>4. ReportAccountedFor'
      BY <1>7 DEF RegistrationFails, ReportAccountedFor, InFlight, Apart,
         Updating, ThreadType, CountType
    <2>5. Apart'
      BY <1>7 DEF RegistrationFails, Apart, Updating, ThreadType, CountType
    <2>6. Position'
      BY <1>7 DEF RegistrationFails, Position, RunnerType, ThreadType
    <2>7. Suites'
      BY <1>7 DEF RegistrationFails, Suites, NoStaleSuites, Position,
         RunnerType
    <2>8. Closing'
      BY <1>7 DEF RegistrationFails, Closing, EndsInOrder, Position,
         RunnerType, ThreadType, CountType, LogType, Logs
    <2>9. Pending'
      BY <1>7 DEF RegistrationFails, Pending, Turns, Left, Mine, Position,
         ThreadType, CountType
    <2>10. Logs'
      BY <1>7 DEF RegistrationFails, Logs, LogOffBetweenTests, LogType,
         Position, ThreadType
    <2> QED
      BY <2>1, <2>2, <2>3, <2>4, <2>5, <2>6, <2>7, <2>8, <2>9, <2>10
  <1>8. ASSUME NEW n \in 0..MaxSuites, LoadLibrary(n) PROVE IInv'
    <2>1. RunnerType' /\ LogType'
      BY <1>8, Registered DEF LoadLibrary, RunnerType, LogType, Position,
         Suites
    <2>2. ThreadType'
      BY <1>8 DEF LoadLibrary, ThreadType, CountType
    <2>3. CountType'
      BY <1>8 DEF LoadLibrary, CountType, ThreadType, Position
    <2>4. ReportAccountedFor'
      BY <1>8 DEF LoadLibrary, ReportAccountedFor, InFlight, Apart, Updating,
         ThreadType, CountType
    <2>5. Apart'
      BY <1>8 DEF LoadLibrary, Apart, Updating, ThreadType, CountType
    <2>6. Position'
      BY <1>8 DEF LoadLibrary, Position, RunnerType, ThreadType
    <2>7. Suites'
      BY <1>8, Registered DEF LoadLibrary, Suites, NoStaleSuites, Position,
         RunnerType
    <2>8. Closing'
      BY <1>8 DEF LoadLibrary, Closing, EndsInOrder, Position, RunnerType,
         ThreadType, CountType, LogType, Logs
    <2>9. Pending'
      BY <1>8 DEF LoadLibrary, Pending, Turns, Left, Mine, Position,
         ThreadType, CountType
    <2>10. Logs'
      BY <1>8 DEF LoadLibrary, Logs, LogOffBetweenTests, LogType, Position,
         ThreadType
    <2> QED
      BY <2>1, <2>2, <2>3, <2>4, <2>5, <2>6, <2>7, <2>8, <2>9, <2>10
  <1>9. ASSUME NEW n \in 0..MaxTests, RegisterTests(n) PROVE IInv'
    <2>1. RunnerType' /\ LogType'
      BY <1>9 DEF RegisterTests, RunnerType, LogType, Position, Suites
    <2>2. ThreadType'
      BY <1>9 DEF RegisterTests, ThreadType, CountType
    <2>3. CountType'
      BY <1>9 DEF RegisterTests, CountType, ThreadType, Position
    <2>4. ReportAccountedFor'
      BY <1>9 DEF RegisterTests, ReportAccountedFor, InFlight, Apart,
         Updating, ThreadType, CountType
    <2>5. Apart'
      BY <1>9 DEF RegisterTests, Apart, Updating, ThreadType, CountType
    <2>6. Position'
      BY <1>9 DEF RegisterTests, Position, RunnerType, ThreadType
    <2>7. Suites'
      BY <1>9 DEF RegisterTests, Suites, NoStaleSuites, Position, RunnerType
    <2>8. Closing'
      BY <1>9 DEF RegisterTests, Closing, EndsInOrder, Position, RunnerType,
         ThreadType, CountType, LogType, Logs
    <2>9. Pending'
      BY <1>9 DEF RegisterTests, Pending, Turns, Left, Mine, Position,
         ThreadType, CountType
    <2>10. Logs'
      BY <1>9 DEF RegisterTests, Logs, LogOffBetweenTests, LogType, Position,
         ThreadType
    <2> QED
      BY <2>1, <2>2, <2>3, <2>4, <2>5, <2>6, <2>7, <2>8, <2>9, <2>10
  <1>10. CASE SuiteKills
    <2>1. RunnerType' /\ LogType'
      BY <1>10 DEF SuiteKills, Dies, RunnerType, LogType, Position, Suites
    <2>2. ThreadType'
      BY <1>10 DEF SuiteKills, Dies, ThreadType, CountType
    <2>3. CountType'
      BY <1>10 DEF SuiteKills, Dies, CountType, ThreadType, Position
    <2>4. ReportAccountedFor'
      BY <1>10 DEF SuiteKills, Dies, ReportAccountedFor, InFlight, Apart,
         Updating, ThreadType, CountType
    <2>5. Apart'
      BY <1>10 DEF SuiteKills, Dies, Apart, Updating, ThreadType, CountType
    <2>6. Position'
      BY <1>10 DEF SuiteKills, Dies, Position, RunnerType, ThreadType
    <2>7. Suites'
      BY <1>10 DEF SuiteKills, Dies, Suites, NoStaleSuites, Position,
         RunnerType
    <2>8. Closing'
      BY <1>10 DEF SuiteKills, Dies, Closing, EndsInOrder, Position,
         RunnerType, ThreadType, CountType, LogType, Logs
    <2>9. Pending'
      BY <1>10 DEF SuiteKills, Dies, Pending, Turns, Left, Mine, Position,
         ThreadType, CountType
    <2>10. Logs'
      BY <1>10 DEF SuiteKills, Dies, Logs, LogOffBetweenTests, LogType,
         Position, ThreadType
    <2> QED
      BY <2>1, <2>2, <2>3, <2>4, <2>5, <2>6, <2>7, <2>8, <2>9, <2>10
  <1>11. CASE CreateTest
    <2>1. RunnerType' /\ LogType'
      BY <1>11 DEF CreateTest, RunnerType, LogType, Position, Suites
    <2>2. ThreadType'
      BY <1>11 DEF CreateTest, ThreadType, CountType
    <2>3. CountType'
      BY <1>11 DEF CreateTest, CountType, ThreadType, Position
    <2>4. ReportAccountedFor'
      BY <1>11 DEF CreateTest, ReportAccountedFor, InFlight, Apart, Updating,
         ThreadType, CountType
    <2>5. Apart'
      BY <1>11 DEF CreateTest, Apart, Updating, ThreadType, CountType
    <2>6. Position'
      BY <1>11 DEF CreateTest, Position, RunnerType, ThreadType
    <2>7. Suites'
      BY <1>11 DEF CreateTest, Suites, NoStaleSuites, Position, RunnerType
    <2>8. Closing'
      BY <1>11 DEF CreateTest, Closing, EndsInOrder, Position, RunnerType,
         ThreadType, CountType, LogType, Logs
    <2>9. Pending'
      <3> USE <1>11 DEF CreateTest, Pending, Turns, Position, ThreadType,
              CountType
      <3>1. /\ Cardinality(Left') \in Nat /\ Cardinality(Helpers) \in Nat
            /\ Cardinality(Left') <= Cardinality(Helpers)
        BY Sizes DEF Left
      <3> QED
        BY <3>1
    <2>10. Logs'
      BY <1>11 DEF CreateTest, Logs, LogOffBetweenTests, LogType, Position,
         ThreadType
    <2> QED
      BY <2>1, <2>2, <2>3, <2>4, <2>5, <2>6, <2>7, <2>8, <2>9, <2>10
  <1>12. CASE CreateFails
    <2>1. RunnerType' /\ LogType'
      BY <1>12 DEF CreateFails, Dies, RunnerType, LogType, Position, Suites
    <2>2. ThreadType'
      BY <1>12 DEF CreateFails, Dies, ThreadType, CountType
    <2>3. CountType'
      BY <1>12 DEF CreateFails, Dies, CountType, ThreadType, Position
    <2>4. ReportAccountedFor'
      BY <1>12 DEF CreateFails, Dies, ReportAccountedFor, InFlight, Apart,
         Updating, ThreadType, CountType
    <2>5. Apart'
      BY <1>12 DEF CreateFails, Dies, Apart, Updating, ThreadType, CountType
    <2>6. Position'
      BY <1>12 DEF CreateFails, Dies, Position, RunnerType, ThreadType
    <2>7. Suites'
      BY <1>12 DEF CreateFails, Dies, Suites, NoStaleSuites, Position,
         RunnerType
    <2>8. Closing'
      BY <1>12 DEF CreateFails, Dies, Closing, EndsInOrder, Position,
         RunnerType, ThreadType, CountType, LogType, Logs
    <2>9. Pending'
      BY <1>12 DEF CreateFails, Dies, Pending, Turns, Left, Mine, Position,
         ThreadType, CountType
    <2>10. Logs'
      BY <1>12 DEF CreateFails, Dies, Logs, LogOffBetweenTests, LogType,
         Position, ThreadType
    <2> QED
      BY <2>1, <2>2, <2>3, <2>4, <2>5, <2>6, <2>7, <2>8, <2>9, <2>10
  <1>13. CASE JoinTest
    <2>1. RunnerType' /\ LogType'
      BY <1>13 DEF JoinTest, NextTest, EndsRun, RunnerType, LogType,
         Position, Suites
    <2>2. ThreadType'
      BY <1>13 DEF JoinTest, NextTest, EndsRun, ThreadType, CountType
    <2>3. CountType'
      BY <1>13 DEF JoinTest, NextTest, EndsRun, CountType, ThreadType,
         Position
    <2>4. ReportAccountedFor'
      BY <1>13 DEF JoinTest, NextTest, EndsRun, ReportAccountedFor, InFlight,
         Apart, Updating, ThreadType, CountType
    <2>5. Apart'
      BY <1>13 DEF JoinTest, NextTest, EndsRun, Apart, Updating, ThreadType,
         CountType
    <2>6. Position'
      BY <1>13 DEF JoinTest, NextTest, EndsRun, Position, RunnerType,
         ThreadType
    <2>7. Suites'
      BY <1>13 DEF JoinTest, NextTest, EndsRun, Suites, NoStaleSuites,
         Position, RunnerType
    <2>8. Closing'
      BY <1>13 DEF JoinTest, NextTest, EndsRun, Closing, EndsInOrder,
         Position, RunnerType, ThreadType, CountType, LogType, Logs
    <2>9. Pending'
      BY <1>13 DEF JoinTest, NextTest, EndsRun, Pending, Turns, Left, Mine,
         Position, ThreadType, CountType
    <2>10. Logs'
      BY <1>13 DEF JoinTest, NextTest, EndsRun, Logs, LogOffBetweenTests,
         LogType, Position, ThreadType
    <2> QED
      BY <2>1, <2>2, <2>3, <2>4, <2>5, <2>6, <2>7, <2>8, <2>9, <2>10
  <1>14. CASE CatchInMain
    <2>1. RunnerType' /\ LogType'
      BY <1>14 DEF CatchInMain, RunnerType, LogType, Position, Suites
    <2>2. ThreadType'
      BY <1>14 DEF CatchInMain, ThreadType, CountType
    <2>3. CountType'
      BY <1>14 DEF CatchInMain, CountType, ThreadType, Position
    <2>4. ReportAccountedFor'
      BY <1>14 DEF CatchInMain, ReportAccountedFor, InFlight, Apart,
         Updating, ThreadType, CountType
    <2>5. Apart'
      BY <1>14 DEF CatchInMain, Apart, Updating, ThreadType, CountType
    <2>6. Position'
      BY <1>14 DEF CatchInMain, Position, RunnerType, ThreadType
    <2>7. Suites'
      BY <1>14 DEF CatchInMain, Suites, NoStaleSuites, Position, RunnerType
    <2>8. Closing'
      BY <1>14 DEF CatchInMain, Closing, EndsInOrder, Position, RunnerType,
         ThreadType, CountType, LogType, Logs
    <2>9. Pending'
      BY <1>14 DEF CatchInMain, Pending, Turns, Left, Mine, Position,
         ThreadType, CountType
    <2>10. Logs'
      BY <1>14 DEF CatchInMain, Logs, LogOffBetweenTests, LogType, Position,
         ThreadType
    <2> QED
      BY <2>1, <2>2, <2>3, <2>4, <2>5, <2>6, <2>7, <2>8, <2>9, <2>10
  <1>15. CASE EndSuite
    <2>1. RunnerType' /\ LogType'
      BY <1>15 DEF EndSuite, RunnerType, LogType, Position, Suites
    <2>2. ThreadType'
      BY <1>15 DEF EndSuite, ThreadType, CountType
    <2>3. CountType'
      BY <1>15 DEF EndSuite, CountType, ThreadType, Position
    <2>4. ReportAccountedFor'
      BY <1>15 DEF EndSuite, ReportAccountedFor, InFlight, Apart, Updating,
         ThreadType, CountType
    <2>5. Apart'
      BY <1>15 DEF EndSuite, Apart, Updating, ThreadType, CountType
    <2>6. Position'
      BY <1>15 DEF EndSuite, Position, RunnerType, ThreadType
    <2>7. Suites'
      BY <1>15 DEF EndSuite, Suites, NoStaleSuites, Position, RunnerType
    <2>8. Closing'
      BY <1>15 DEF EndSuite, Closing, EndsInOrder, Position, RunnerType,
         ThreadType, CountType, LogType, Logs
    <2>9. Pending'
      BY <1>15 DEF EndSuite, Pending, Turns, Left, Mine, Position,
         ThreadType, CountType
    <2>10. Logs'
      BY <1>15 DEF EndSuite, Logs, LogOffBetweenTests, LogType, Position,
         ThreadType
    <2> QED
      BY <2>1, <2>2, <2>3, <2>4, <2>5, <2>6, <2>7, <2>8, <2>9, <2>10
  <1>16. CASE EndLibrary
    <2>1. RunnerType' /\ LogType'
      BY <1>16 DEF EndLibrary, Cleared, RunnerType, LogType, Position, Suites
    <2>2. ThreadType'
      BY <1>16 DEF EndLibrary, Cleared, ThreadType, CountType
    <2>3. CountType'
      BY <1>16 DEF EndLibrary, Cleared, CountType, ThreadType, Position
    <2>4. ReportAccountedFor'
      BY <1>16 DEF EndLibrary, Cleared, ReportAccountedFor, InFlight, Apart,
         Updating, ThreadType, CountType
    <2>5. Apart'
      BY <1>16 DEF EndLibrary, Cleared, Apart, Updating, ThreadType,
         CountType
    <2>6. Position'
      BY <1>16 DEF EndLibrary, Cleared, Position, RunnerType, ThreadType
    <2>7. Suites'
      BY <1>16 DEF EndLibrary, Cleared, Suites, NoStaleSuites, Position,
         RunnerType
    <2>8. Closing'
      BY <1>16 DEF EndLibrary, Cleared, Closing, EndsInOrder, Position,
         RunnerType, ThreadType, CountType, LogType, Logs
    <2>9. Pending'
      BY <1>16 DEF EndLibrary, Cleared, Pending, Turns, Left, Mine, Position,
         ThreadType, CountType
    <2>10. Logs'
      BY <1>16 DEF EndLibrary, Cleared, Logs, LogOffBetweenTests, LogType,
         Position, ThreadType
    <2> QED
      BY <2>1, <2>2, <2>3, <2>4, <2>5, <2>6, <2>7, <2>8, <2>9, <2>10
  <1>17. CASE EndRun
    <2>1. RunnerType' /\ LogType'
      BY <1>17 DEF EndRun, LogAfterRun, AfterStop, RunnerType, LogType,
         Position, Suites
    <2>2. ThreadType'
      BY <1>17 DEF EndRun, LogAfterRun, AfterStop, ThreadType, CountType
    <2>3. CountType'
      BY <1>17 DEF EndRun, LogAfterRun, AfterStop, CountType, ThreadType,
         Position
    <2>4. ReportAccountedFor'
      BY <1>17 DEF EndRun, LogAfterRun, AfterStop, ReportAccountedFor,
         InFlight, Apart, Updating, ThreadType, CountType
    <2>5. Apart'
      BY <1>17 DEF EndRun, LogAfterRun, AfterStop, Apart, Updating,
         ThreadType, CountType
    <2>6. Position'
      BY <1>17 DEF EndRun, LogAfterRun, AfterStop, Position, RunnerType,
         ThreadType
    <2>7. Suites'
      BY <1>17 DEF EndRun, LogAfterRun, AfterStop, Suites, NoStaleSuites,
         Position, RunnerType
    <2>8. Closing'
      BY <1>17 DEF EndRun, LogAfterRun, AfterStop, Closing, EndsInOrder,
         Position, RunnerType, ThreadType, CountType, LogType, Logs
    <2>9. Pending'
      BY <1>17 DEF EndRun, LogAfterRun, AfterStop, Pending, Turns, Left,
         Mine, Position, ThreadType, CountType
    <2>10. Logs'
      BY <1>17 DEF EndRun, LogAfterRun, AfterStop, Logs, LogOffBetweenTests,
         LogType, Position, ThreadType
    <2> QED
      BY <2>1, <2>2, <2>3, <2>4, <2>5, <2>6, <2>7, <2>8, <2>9, <2>10
  <1>18. CASE Exit
    <2>1. RunnerType' /\ LogType'
      BY <1>18 DEF Exit, ExitStatus, RunnerType, LogType, Position, Suites
    <2>2. ThreadType'
      BY <1>18 DEF Exit, ExitStatus, ThreadType, CountType
    <2>3. CountType'
      BY <1>18 DEF Exit, ExitStatus, CountType, ThreadType, Position
    <2>4. ReportAccountedFor'
      BY <1>18 DEF Exit, ExitStatus, ReportAccountedFor, InFlight, Apart,
         Updating, ThreadType, CountType
    <2>5. Apart'
      BY <1>18 DEF Exit, ExitStatus, Apart, Updating, ThreadType, CountType
    <2>6. Position'
      BY <1>18 DEF Exit, ExitStatus, Position, RunnerType, ThreadType
    <2>7. Suites'
      BY <1>18 DEF Exit, ExitStatus, Suites, NoStaleSuites, Position,
         RunnerType
    <2>8. Closing'
      BY <1>18 DEF Exit, ExitStatus, Closing, EndsInOrder, Position,
         RunnerType, ThreadType, CountType, LogType, Logs
    <2>9. Pending'
      BY <1>18 DEF Exit, ExitStatus, Pending, Turns, Left, Mine, Position,
         ThreadType, CountType
    <2>10. Logs'
      BY <1>18 DEF Exit, ExitStatus, Logs, LogOffBetweenTests, LogType,
         Position, ThreadType
    <2> QED
      BY <2>1, <2>2, <2>3, <2>4, <2>5, <2>6, <2>7, <2>8, <2>9, <2>10
  <1> QED
    BY <1>1, <1>2, <1>3, <1>4, <1>5, <1>6, <1>7, <1>8, <1>9, <1>10, <1>11,
       <1>12, <1>13, <1>14, <1>15, <1>16, <1>17, <1>18, PassOverStep,
       RegistrationThrowsStep, AbandonStep DEF Main

\* So do those of a test's body, and of the threads it starts,
LEMMA BodyStep == IInv /\ Body => IInv'
  <1> SUFFICES ASSUME IInv, Body PROVE IInv'
    OBVIOUS
  <1> USE DEF IInv, TypeOK, runnerVars, logVars, counters, threadVars, reportVars
  <1>1. CASE AssertExcused
    <2>1. RunnerType' /\ LogType'
      BY <1>1 DEF AssertExcused, InBody, running, Updates, Updating,
         RunnerType, LogType, Position, Suites
    <2>2. ThreadType'
      BY <1>1 DEF AssertExcused, InBody, running, Updates, Updating,
         ThreadType, CountType
    <2>3. CountType'
      BY <1>1 DEF AssertExcused, InBody, running, Updates, Updating,
         CountType, ThreadType, Position
    <2>4. ReportAccountedFor'
      BY <1>1 DEF AssertExcused, InBody, running, Updates, Updating,
         ReportAccountedFor, InFlight, Apart, ThreadType, CountType
    <2>5. Apart'
      BY <1>1 DEF AssertExcused, InBody, running, Updates, Updating, Apart,
         ThreadType, CountType
    <2>6. Position'
      BY <1>1 DEF AssertExcused, InBody, running, Updates, Updating,
         Position, RunnerType, ThreadType
    <2>7. Suites'
      BY <1>1 DEF AssertExcused, InBody, running, Updates, Updating, Suites,
         NoStaleSuites, Position, RunnerType
    <2>8. Closing'
      BY <1>1 DEF AssertExcused, InBody, running, Updates, Updating, Closing,
         EndsInOrder, Position, RunnerType, ThreadType, CountType, LogType,
         Logs
    <2>9. Pending'
      BY <1>1 DEF AssertExcused, InBody, running, Updates, Updating, Pending,
         Turns, Left, Mine, Position, ThreadType, CountType
    <2>10. Logs'
      BY <1>1 DEF AssertExcused, InBody, running, Updates, Updating, Logs,
         LogOffBetweenTests, LogType, Position, ThreadType
    <2> QED
      BY <2>1, <2>2, <2>3, <2>4, <2>5, <2>6, <2>7, <2>8, <2>9, <2>10
  <1>2. ASSUME NEW opens \in BOOLEAN, StartLog(opens) PROVE IInv'
    <2>1. RunnerType' /\ LogType'
      BY <1>2 DEF StartLog, InBody, running, RunnerType, LogType, Position,
         Suites
    <2>2. ThreadType'
      BY <1>2 DEF StartLog, InBody, running, ThreadType, CountType
    <2>3. CountType'
      BY <1>2 DEF StartLog, InBody, running, CountType, ThreadType, Position
    <2>4. ReportAccountedFor'
      BY <1>2 DEF StartLog, InBody, running, ReportAccountedFor, InFlight,
         Apart, Updating, ThreadType, CountType
    <2>5. Apart'
      BY <1>2 DEF StartLog, InBody, running, Apart, Updating, ThreadType,
         CountType
    <2>6. Position'
      BY <1>2 DEF StartLog, InBody, running, Position, RunnerType, ThreadType
    <2>7. Suites'
      BY <1>2 DEF StartLog, InBody, running, Suites, NoStaleSuites, Position,
         RunnerType
    <2>8. Closing'
      BY <1>2 DEF StartLog, InBody, running, Closing, EndsInOrder, Position,
         RunnerType, ThreadType, CountType, LogType, Logs
    <2>9. Pending'
      BY <1>2 DEF StartLog, InBody, running, Pending, Turns, Left, Mine,
         Position, ThreadType, CountType
    <2>10. Logs'
      BY <1>2 DEF StartLog, InBody, running, Logs, LogOffBetweenTests,
         LogType, Position, ThreadType
    <2> QED
      BY <2>1, <2>2, <2>3, <2>4, <2>5, <2>6, <2>7, <2>8, <2>9, <2>10
  <1>3. CASE StopLog
    <2>1. RunnerType' /\ LogType'
      BY <1>3 DEF StopLog, InBody, running, AfterStop, RunnerType, LogType,
         Position, Suites
    <2>2. ThreadType'
      BY <1>3 DEF StopLog, InBody, running, AfterStop, ThreadType, CountType
    <2>3. CountType'
      BY <1>3 DEF StopLog, InBody, running, AfterStop, CountType, ThreadType,
         Position
    <2>4. ReportAccountedFor'
      BY <1>3 DEF StopLog, InBody, running, AfterStop, ReportAccountedFor,
         InFlight, Apart, Updating, ThreadType, CountType
    <2>5. Apart'
      BY <1>3 DEF StopLog, InBody, running, AfterStop, Apart, Updating,
         ThreadType, CountType
    <2>6. Position'
      BY <1>3 DEF StopLog, InBody, running, AfterStop, Position, RunnerType,
         ThreadType
    <2>7. Suites'
      BY <1>3 DEF StopLog, InBody, running, AfterStop, Suites, NoStaleSuites,
         Position, RunnerType
    <2>8. Closing'
      BY <1>3 DEF StopLog, InBody, running, AfterStop, Closing, EndsInOrder,
         Position, RunnerType, ThreadType, CountType, LogType, Logs
    <2>9. Pending'
      BY <1>3 DEF StopLog, InBody, running, AfterStop, Pending, Turns, Left,
         Mine, Position, ThreadType, CountType
    <2>10. Logs'
      BY <1>3 DEF StopLog, InBody, running, AfterStop, Logs,
         LogOffBetweenTests, LogType, Position, ThreadType
    <2> QED
      BY <2>1, <2>2, <2>3, <2>4, <2>5, <2>6, <2>7, <2>8, <2>9, <2>10
  <1>4. ASSUME NEW h \in Helpers, Spawn(h) PROVE IInv'
    <2>1. RunnerType' /\ LogType'
      BY <1>4 DEF Spawn, InBody, running, RunnerType, LogType, Position,
         Suites
    <2>2. ThreadType'
      BY <1>4 DEF Spawn, InBody, running, ThreadType, CountType
    <2>3. CountType'
      BY <1>4 DEF Spawn, InBody, running, CountType, ThreadType, Position
    <2>4. ReportAccountedFor'
      BY <1>4 DEF Spawn, InBody, running, ReportAccountedFor, InFlight,
         Apart, Updating, ThreadType, CountType
    <2>5. Apart'
      BY <1>4 DEF Spawn, InBody, running, Apart, Updating, ThreadType,
         CountType
    <2>6. Position'
      BY <1>4 DEF Spawn, InBody, running, Position, RunnerType, ThreadType
    <2>7. Suites'
      BY <1>4 DEF Spawn, InBody, running, Suites, NoStaleSuites, Position,
         RunnerType
    <2>8. Closing'
      BY <1>4 DEF Spawn, InBody, running, Closing, EndsInOrder, Position,
         RunnerType, ThreadType, CountType, LogType, Logs
    <2>9. Pending'
      <3> USE <1>4 DEF Spawn, InBody, running, Pending, Turns, Position,
              ThreadType, CountType
      <3>1. Left' = Left
        BY DEF Left
      <3>2. Cardinality(Left') = Cardinality(Left)
        BY <3>1
      <3>3. /\ Cardinality(Left') \in Nat /\ Cardinality(Left) \in Nat
            /\ Cardinality(Helpers) \in Nat
        BY Sizes DEF Left
      <3>4. Mine' <=> Mine
        BY DEF Mine
      <3> QED
        BY <1>4, <3>2, <3>3, <3>4 DEF Apart, Updating
    <2>10. Logs'
      BY <1>4 DEF Spawn, InBody, running, Logs, LogOffBetweenTests, LogType,
         Position, ThreadType
    <2> QED
      BY <2>1, <2>2, <2>3, <2>4, <2>5, <2>6, <2>7, <2>8, <2>9, <2>10
  <1>5. ASSUME NEW h \in Helpers, HelperReturns(h) PROVE IInv'
    <2>1. RunnerType' /\ LogType'
      BY <1>5 DEF HelperReturns, InBody, running, RunnerType, LogType,
         Position, Suites
    <2>2. ThreadType'
      BY <1>5 DEF HelperReturns, InBody, running, ThreadType, CountType
    <2>3. CountType'
      BY <1>5 DEF HelperReturns, InBody, running, CountType, ThreadType,
         Position
    <2>4. ReportAccountedFor'
      BY <1>5 DEF HelperReturns, InBody, running, ReportAccountedFor,
         InFlight, Apart, Updating, ThreadType, CountType
    <2>5. Apart'
      BY <1>5 DEF HelperReturns, InBody, running, Apart, Updating,
         ThreadType, CountType
    <2>6. Position'
      BY <1>5 DEF HelperReturns, InBody, running, Position, RunnerType,
         ThreadType
    <2>7. Suites'
      BY <1>5 DEF HelperReturns, InBody, running, Suites, NoStaleSuites,
         Position, RunnerType
    <2>8. Closing'
      BY <1>5 DEF HelperReturns, InBody, running, Closing, EndsInOrder,
         Position, RunnerType, ThreadType, CountType, LogType, Logs
    <2>9. Pending'
      <3> USE <1>5 DEF HelperReturns, InBody, running, Pending, Turns, Position,
              ThreadType, CountType
      <3>1. Left \in SUBSET Helpers /\ Left' \in SUBSET Left
        BY DEF Left
      <3>2. Cardinality(Left') <= Cardinality(Left)
        BY <3>1, Sizes
      <3>3. /\ Cardinality(Left') \in Nat /\ Cardinality(Left) \in Nat
            /\ Cardinality(Helpers) \in Nat
        BY Sizes DEF Left
      <3>4. Mine' <=> Mine
        BY DEF Mine
      <3> QED
        BY <1>5, <3>2, <3>3, <3>4 DEF Apart, Updating
    <2>10. Logs'
      BY <1>5 DEF HelperReturns, InBody, running, Logs, LogOffBetweenTests,
         LogType, Position, ThreadType
    <2> QED
      BY <2>1, <2>2, <2>3, <2>4, <2>5, <2>6, <2>7, <2>8, <2>9, <2>10
  <1>6. ASSUME NEW h \in Helpers, HelperPrints(h), HelperFails(h) PROVE IInv'
    <2>1. RunnerType' /\ LogType'
      BY <1>6 DEF HelperPrints, HelperFails, InBody, running, Updates,
         Updating, RunnerType, LogType, Position, Suites
    <2>2. ThreadType'
      BY <1>6 DEF HelperPrints, HelperFails, InBody, running, Updates,
         Updating, ThreadType, CountType
    <2>3. CountType'
      BY <1>6 DEF HelperPrints, HelperFails, InBody, running, Updates,
         Updating, CountType, ThreadType, Position
    <2>4. ReportAccountedFor'
      <3> USE <1>6 DEF HelperPrints, HelperFails, InBody, running, Updates,
              Updating, ReportAccountedFor, CountType
      <3>1. CASE ~overlap'
        <4>1. ~overlap /\ \A k \in Helpers \ {h} : ~Updating(k)
          BY <3>1
        <4>2. /\ InFlight("failing") = 0 /\ InFlight("failing")' = 1
              /\ InFlight("skipping") = 0 /\ InFlight("skipping")' = 0
          BY <4>1 DEF InFlight, ThreadType
        <4> QED
          BY <4>1, <4>2
      <3> QED
        BY <3>1
    <2>5. Apart'
      BY <1>6 DEF HelperPrints, HelperFails, InBody, running, Updates,
         Updating, Apart, ThreadType, CountType
    <2>6. Position'
      BY <1>6 DEF HelperPrints, HelperFails, InBody, running, Updates,
         Updating, Position, RunnerType, ThreadType
    <2>7. Suites'
      BY <1>6 DEF HelperPrints, HelperFails, InBody, running, Updates,
         Updating, Suites, NoStaleSuites, Position, RunnerType
    <2>8. Closing'
      BY <1>6 DEF HelperPrints, HelperFails, InBody, running, Updates,
         Updating, Closing, EndsInOrder, Position, RunnerType, ThreadType,
         CountType, LogType, Logs
    <2>9. Pending'
      <3> USE <1>6 DEF HelperPrints, HelperFails, InBody, running, Updates,
              Updating, Pending, Turns, Position, ThreadType, CountType
      <3>1. Left' = Left
        BY DEF Left
      <3>2. Cardinality(Left') = Cardinality(Left)
        BY <3>1
      <3>3. /\ Cardinality(Left') \in Nat /\ Cardinality(Left) \in Nat
            /\ Cardinality(Helpers) \in Nat
        BY Sizes DEF Left
      <3>4. Mine' <=> Mine
        BY DEF Mine
      <3> QED
        BY <1>6, <3>2, <3>3, <3>4 DEF Apart, Updating
    <2>10. Logs'
      BY <1>6 DEF HelperPrints, HelperFails, InBody, running, Updates,
         Updating, Logs, LogOffBetweenTests, LogType, Position, ThreadType
    <2> QED
      BY <2>1, <2>2, <2>3, <2>4, <2>5, <2>6, <2>7, <2>8, <2>9, <2>10
  <1>7. ASSUME NEW h \in Helpers, HelperPrints(h), HelperSkips(h) PROVE IInv'
    <2>1. RunnerType' /\ LogType'
      BY <1>7 DEF HelperPrints, HelperSkips, InBody, running, Updates,
         Updating, RunnerType, LogType, Position, Suites
    <2>2. ThreadType'
      BY <1>7 DEF HelperPrints, HelperSkips, InBody, running, Updates,
         Updating, ThreadType, CountType
    <2>3. CountType'
      BY <1>7 DEF HelperPrints, HelperSkips, InBody, running, Updates,
         Updating, CountType, ThreadType, Position
    <2>4. ReportAccountedFor'
      <3> USE <1>7 DEF HelperPrints, HelperSkips, InBody, running, Updates,
              Updating, ReportAccountedFor, CountType
      <3>1. CASE ~overlap'
        <4>1. ~overlap /\ \A k \in Helpers \ {h} : ~Updating(k)
          BY <3>1
        <4>2. /\ InFlight("skipping") = 0 /\ InFlight("skipping")' = 1
              /\ InFlight("failing") = 0 /\ InFlight("failing")' = 0
          BY <4>1 DEF InFlight, ThreadType
        <4> QED
          BY <4>1, <4>2
      <3> QED
        BY <3>1
    <2>5. Apart'
      BY <1>7 DEF HelperPrints, HelperSkips, InBody, running, Updates,
         Updating, Apart, ThreadType, CountType
    <2>6. Position'
      BY <1>7 DEF HelperPrints, HelperSkips, InBody, running, Updates,
         Updating, Position, RunnerType, ThreadType
    <2>7. Suites'
      BY <1>7 DEF HelperPrints, HelperSkips, InBody, running, Updates,
         Updating, Suites, NoStaleSuites, Position, RunnerType
    <2>8. Closing'
      BY <1>7 DEF HelperPrints, HelperSkips, InBody, running, Updates,
         Updating, Closing, EndsInOrder, Position, RunnerType, ThreadType,
         CountType, LogType, Logs
    <2>9. Pending'
      <3> USE <1>7 DEF HelperPrints, HelperSkips, InBody, running, Updates,
              Updating, Pending, Turns, Position, ThreadType, CountType
      <3>1. Left' = Left
        BY DEF Left
      <3>2. Cardinality(Left') = Cardinality(Left)
        BY <3>1
      <3>3. /\ Cardinality(Left') \in Nat /\ Cardinality(Left) \in Nat
            /\ Cardinality(Helpers) \in Nat
        BY Sizes DEF Left
      <3>4. Mine' <=> Mine
        BY DEF Mine
      <3> QED
        BY <1>7, <3>2, <3>3, <3>4 DEF Apart, Updating
    <2>10. Logs'
      BY <1>7 DEF HelperPrints, HelperSkips, InBody, running, Updates,
         Updating, Logs, LogOffBetweenTests, LogType, Position, ThreadType
    <2> QED
      BY <2>1, <2>2, <2>3, <2>4, <2>5, <2>6, <2>7, <2>8, <2>9, <2>10
  <1>8. ASSUME NEW h \in Helpers, HelperCounts(h) PROVE IInv'
    <2>1. RunnerType' /\ LogType'
      BY <1>8 DEF HelperCounts, running, Updating, Settle, RunnerType,
         LogType, Position, Suites
    <2>2. ThreadType'
      BY <1>8 DEF HelperCounts, running, Updating, Settle, ThreadType,
         CountType
    <2>3. CountType'
      BY <1>8 DEF HelperCounts, running, Updating, Settle, CountType,
         ThreadType, Position
    <2>4. ReportAccountedFor'
      BY <1>8 DEF HelperCounts, running, Updating, Settle,
         ReportAccountedFor, InFlight, Apart, ThreadType, CountType
    <2>5. Apart'
      BY <1>8 DEF HelperCounts, running, Updating, Settle, Apart, ThreadType,
         CountType
    <2>6. Position'
      BY <1>8 DEF HelperCounts, running, Updating, Settle, Position,
         RunnerType, ThreadType
    <2>7. Suites'
      BY <1>8 DEF HelperCounts, running, Updating, Settle, Suites,
         NoStaleSuites, Position, RunnerType
    <2>8. Closing'
      BY <1>8 DEF HelperCounts, running, Updating, Settle, Closing,
         EndsInOrder, Position, RunnerType, ThreadType, CountType, LogType,
         Logs
    <2>9. Pending'
      <3> USE <1>8 DEF HelperCounts, running, Updating, Settle, Pending, Turns,
              Position, ThreadType, CountType
      <3>1. Left \in SUBSET Helpers /\ h \in Left /\ Left' = Left \ {h}
        BY DEF Left, Updating
      <3>2. Cardinality(Left') = Cardinality(Left) - 1
        BY <3>1, Sizes
      <3>3. /\ Cardinality(Left') \in Nat /\ Cardinality(Left) \in Nat
            /\ Cardinality(Helpers) \in Nat
        BY Sizes DEF Left
      <3>4. Mine' <=> Mine
        BY DEF Mine
      <3> QED
        BY <1>8, <3>2, <3>3, <3>4 DEF Apart, Updating
    <2>10. Logs'
      BY <1>8 DEF HelperCounts, running, Updating, Settle, Logs,
         LogOffBetweenTests, LogType, Position, ThreadType
    <2> QED
      BY <2>1, <2>2, <2>3, <2>4, <2>5, <2>6, <2>7, <2>8, <2>9, <2>10
  <1>9. ASSUME NEW h \in Helpers, HelperAborts(h) PROVE IInv'
    <2>1. RunnerType' /\ LogType'
      BY <1>9 DEF HelperAborts, InBody, running, RunnerType, LogType,
         Position, Suites
    <2>2. ThreadType'
      BY <1>9 DEF HelperAborts, InBody, running, ThreadType, CountType
    <2>3. CountType'
      BY <1>9 DEF HelperAborts, InBody, running, CountType, ThreadType,
         Position
    <2>4. ReportAccountedFor'
      BY <1>9 DEF HelperAborts, InBody, running, ReportAccountedFor,
         InFlight, Apart, Updating, ThreadType, CountType
    <2>5. Apart'
      BY <1>9 DEF HelperAborts, InBody, running, Apart, Updating, ThreadType,
         CountType
    <2>6. Position'
      BY <1>9 DEF HelperAborts, InBody, running, Position, RunnerType,
         ThreadType
    <2>7. Suites'
      BY <1>9 DEF HelperAborts, InBody, running, Suites, NoStaleSuites,
         Position, RunnerType
    <2>8. Closing'
      BY <1>9 DEF HelperAborts, InBody, running, Closing, EndsInOrder,
         Position, RunnerType, ThreadType, CountType, LogType, Logs
    <2>9. Pending'
      <3> USE <1>9 DEF HelperAborts, InBody, running, Pending, Turns, Position,
              ThreadType, CountType
      <3>1. Left \in SUBSET Helpers /\ Left' \in SUBSET Left
        BY DEF Left
      <3>2. Cardinality(Left') <= Cardinality(Left)
        BY <3>1, Sizes
      <3>3. /\ Cardinality(Left') \in Nat /\ Cardinality(Left) \in Nat
            /\ Cardinality(Helpers) \in Nat
        BY Sizes DEF Left
      <3>4. Mine' <=> Mine
        BY DEF Mine
      <3> QED
        BY <1>9, <3>2, <3>3, <3>4 DEF Apart, Updating
    <2>10. Logs'
      BY <1>9 DEF HelperAborts, InBody, running, Logs, LogOffBetweenTests,
         LogType, Position, ThreadType
    <2> QED
      BY <2>1, <2>2, <2>3, <2>4, <2>5, <2>6, <2>7, <2>8, <2>9, <2>10
  <1>10. ASSUME NEW h \in Helpers, Terminate(h) PROVE IInv'
    <2>1. RunnerType' /\ LogType'
      BY <1>10 DEF Terminate, running, Dies, RunnerType, LogType, Position,
         Suites
    <2>2. ThreadType'
      BY <1>10 DEF Terminate, running, Dies, ThreadType, CountType
    <2>3. CountType'
      BY <1>10 DEF Terminate, running, Dies, CountType, ThreadType, Position
    <2>4. ReportAccountedFor'
      BY <1>10 DEF Terminate, running, Dies, ReportAccountedFor, InFlight,
         Apart, Updating, ThreadType, CountType
    <2>5. Apart'
      BY <1>10 DEF Terminate, running, Dies, Apart, Updating, ThreadType,
         CountType
    <2>6. Position'
      BY <1>10 DEF Terminate, running, Dies, Position, RunnerType, ThreadType
    <2>7. Suites'
      BY <1>10 DEF Terminate, running, Dies, Suites, NoStaleSuites, Position,
         RunnerType
    <2>8. Closing'
      BY <1>10 DEF Terminate, running, Dies, Closing, EndsInOrder, Position,
         RunnerType, ThreadType, CountType, LogType, Logs
    <2>9. Pending'
      BY <1>10 DEF Terminate, running, Dies, Pending, Turns, Left, Mine,
         Position, ThreadType, CountType
    <2>10. Logs'
      BY <1>10 DEF Terminate, running, Dies, Logs, LogOffBetweenTests,
         LogType, Position, ThreadType
    <2> QED
      BY <2>1, <2>2, <2>3, <2>4, <2>5, <2>6, <2>7, <2>8, <2>9, <2>10
  <1> QED
    BY <1>1, <1>2, <1>3, <1>4, <1>5, <1>6, <1>7, <1>8, <1>9, <1>10 DEF Body,
       HelperPrints

\* and those that end the test, along every way an exception can take.
LEMMA EndingStep == IInv /\ Ending => IInv'
  <1> SUFFICES ASSUME IInv, Ending PROVE IInv'
    OBVIOUS
  <1> USE DEF IInv, TypeOK, runnerVars, logVars, counters, threadVars, reportVars
  <1>1. CASE AssertFails
    <2>1. RunnerType' /\ LogType'
      BY <1>1 DEF AssertFails, Throws, InBody, running, Updates, Updating,
         RunnerType, LogType, Position, Suites
    <2>2. ThreadType'
      BY <1>1 DEF AssertFails, Throws, InBody, running, Updates, Updating,
         ThreadType, CountType
    <2>3. CountType'
      BY <1>1 DEF AssertFails, Throws, InBody, running, Updates, Updating,
         CountType, ThreadType, Position
    <2>4. ReportAccountedFor'
      BY <1>1 DEF AssertFails, Throws, InBody, running, Updates, Updating,
         ReportAccountedFor, InFlight, Apart, ThreadType, CountType
    <2>5. Apart'
      BY <1>1 DEF AssertFails, Throws, InBody, running, Updates, Updating,
         Apart, ThreadType, CountType
    <2>6. Position'
      BY <1>1 DEF AssertFails, Throws, InBody, running, Updates, Updating,
         Position, RunnerType, ThreadType
    <2>7. Suites'
      BY <1>1 DEF AssertFails, Throws, InBody, running, Updates, Updating,
         Suites, NoStaleSuites, Position, RunnerType
    <2>8. Closing'
      BY <1>1 DEF AssertFails, Throws, InBody, running, Updates, Updating,
         Closing, EndsInOrder, Position, RunnerType, ThreadType, CountType,
         LogType, Logs
    <2>9. Pending'
      <3> USE <1>1 DEF AssertFails, Throws, InBody, running, Updates, Updating,
              Pending, Turns, Position, ThreadType, CountType
      <3>1. Left' = Left
        BY DEF Left
      <3>2. Cardinality(Left) \in Nat /\ Cardinality(Helpers) \in Nat
        BY Sizes DEF Left
      <3> QED
        BY <3>1, <3>2 DEF Mine
    <2>10. Logs'
      BY <1>1 DEF AssertFails, Throws, InBody, running, Updates, Updating,
         Logs, LogOffBetweenTests, LogType, Position, ThreadType
    <2> QED
      BY <2>1, <2>2, <2>3, <2>4, <2>5, <2>6, <2>7, <2>8, <2>9, <2>10
  <1>2. CASE Skip
    <2>1. RunnerType' /\ LogType'
      BY <1>2 DEF Skip, Throws, InBody, running, Updates, Updating,
         RunnerType, LogType, Position, Suites
    <2>2. ThreadType'
      BY <1>2 DEF Skip, Throws, InBody, running, Updates, Updating,
         ThreadType, CountType
    <2>3. CountType'
      BY <1>2 DEF Skip, Throws, InBody, running, Updates, Updating,
         CountType, ThreadType, Position
    <2>4. ReportAccountedFor'
      BY <1>2 DEF Skip, Throws, InBody, running, Updates, Updating,
         ReportAccountedFor, InFlight, Apart, ThreadType, CountType
    <2>5. Apart'
      BY <1>2 DEF Skip, Throws, InBody, running, Updates, Updating, Apart,
         ThreadType, CountType
    <2>6. Position'
      BY <1>2 DEF Skip, Throws, InBody, running, Updates, Updating, Position,
         RunnerType, ThreadType
    <2>7. Suites'
      BY <1>2 DEF Skip, Throws, InBody, running, Updates, Updating, Suites,
         NoStaleSuites, Position, RunnerType
    <2>8. Closing'
      BY <1>2 DEF Skip, Throws, InBody, running, Updates, Updating, Closing,
         EndsInOrder, Position, RunnerType, ThreadType, CountType, LogType,
         Logs
    <2>9. Pending'
      <3> USE <1>2 DEF Skip, Throws, InBody, running, Updates, Updating,
              Pending, Turns, Position, ThreadType, CountType
      <3>1. Left' = Left
        BY DEF Left
      <3>2. Cardinality(Left) \in Nat /\ Cardinality(Helpers) \in Nat
        BY Sizes DEF Left
      <3> QED
        BY <3>1, <3>2 DEF Mine
    <2>10. Logs'
      BY <1>2 DEF Skip, Throws, InBody, running, Updates, Updating, Logs,
         LogOffBetweenTests, LogType, Position, ThreadType
    <2> QED
      BY <2>1, <2>2, <2>3, <2>4, <2>5, <2>6, <2>7, <2>8, <2>9, <2>10
  <1>3. CASE Abort
    <2>1. RunnerType' /\ LogType'
      BY <1>3 DEF Abort, Throws, InBody, running, RunnerType, LogType,
         Position, Suites
    <2>2. ThreadType'
      BY <1>3 DEF Abort, Throws, InBody, running, ThreadType, CountType
    <2>3. CountType'
      BY <1>3 DEF Abort, Throws, InBody, running, CountType, ThreadType,
         Position
    <2>4. ReportAccountedFor'
      BY <1>3 DEF Abort, Throws, InBody, running, ReportAccountedFor,
         InFlight, Apart, Updating, ThreadType, CountType
    <2>5. Apart'
      BY <1>3 DEF Abort, Throws, InBody, running, Apart, Updating,
         ThreadType, CountType
    <2>6. Position'
      BY <1>3 DEF Abort, Throws, InBody, running, Position, RunnerType,
         ThreadType
    <2>7. Suites'
      BY <1>3 DEF Abort, Throws, InBody, running, Suites, NoStaleSuites,
         Position, RunnerType
    <2>8. Closing'
      BY <1>3 DEF Abort, Throws, InBody, running, Closing, EndsInOrder,
         Position, RunnerType, ThreadType, CountType, LogType, Logs
    <2>9. Pending'
      <3> USE <1>3 DEF Abort, Throws, InBody, running, Pending, Turns, Position,
              ThreadType, CountType
      <3>1. Left' = Left
        BY DEF Left
      <3>2. Cardinality(Left) \in Nat /\ Cardinality(Helpers) \in Nat
        BY Sizes DEF Left
      <3> QED
        BY <3>1, <3>2 DEF Mine
    <2>10. Logs'
      BY <1>3 DEF Abort, Throws, InBody, running, Logs, LogOffBetweenTests,
         LogType, Position, ThreadType
    <2> QED
      BY <2>1, <2>2, <2>3, <2>4, <2>5, <2>6, <2>7, <2>8, <2>9, <2>10
  <1>4. ASSUME NEW v \in {0, 1, 2, Foreign}, ThrowOwn(v) PROVE IInv'
    <2>1. RunnerType' /\ LogType'
      BY <1>4 DEF ThrowOwn, Throws, InBody, running, RunnerType, LogType,
         Position, Suites
    <2>2. ThreadType'
      BY <1>4 DEF ThrowOwn, Throws, InBody, running, ThreadType, CountType
    <2>3. CountType'
      BY <1>4 DEF ThrowOwn, Throws, InBody, running, CountType, ThreadType,
         Position
    <2>4. ReportAccountedFor'
      BY <1>4 DEF ThrowOwn, Throws, InBody, running, ReportAccountedFor,
         InFlight, Apart, Updating, ThreadType, CountType
    <2>5. Apart'
      BY <1>4 DEF ThrowOwn, Throws, InBody, running, Apart, Updating,
         ThreadType, CountType
    <2>6. Position'
      BY <1>4 DEF ThrowOwn, Throws, InBody, running, Position, RunnerType,
         ThreadType
    <2>7. Suites'
      BY <1>4 DEF ThrowOwn, Throws, InBody, running, Suites, NoStaleSuites,
         Position, RunnerType
    <2>8. Closing'
      BY <1>4 DEF ThrowOwn, Throws, InBody, running, Closing, EndsInOrder,
         Position, RunnerType, ThreadType, CountType, LogType, Logs
    <2>9. Pending'
      <3> USE <1>4 DEF ThrowOwn, Throws, InBody, running, Pending, Turns,
              Position, ThreadType, CountType
      <3>1. Left' = Left
        BY DEF Left
      <3>2. Cardinality(Left) \in Nat /\ Cardinality(Helpers) \in Nat
        BY Sizes DEF Left
      <3> QED
        BY <3>1, <3>2 DEF Mine
    <2>10. Logs'
      BY <1>4 DEF ThrowOwn, Throws, InBody, running, Logs,
         LogOffBetweenTests, LogType, Position, ThreadType
    <2> QED
      BY <2>1, <2>2, <2>3, <2>4, <2>5, <2>6, <2>7, <2>8, <2>9, <2>10
  <1>5. CASE CatchExit
    <2>1. RunnerType' /\ LogType'
      BY <1>5 DEF CatchExit, Leaves, LogAfterTest, running, RunnerType,
         LogType, Position, Suites
    <2>2. ThreadType'
      BY <1>5 DEF CatchExit, Leaves, LogAfterTest, running, ThreadType,
         CountType
    <2>3. CountType'
      BY <1>5 DEF CatchExit, Leaves, LogAfterTest, running, CountType,
         ThreadType, Position
    <2>4. ReportAccountedFor'
      BY <1>5 DEF CatchExit, Leaves, LogAfterTest, running,
         ReportAccountedFor, InFlight, Apart, Updating, ThreadType, CountType
    <2>5. Apart'
      BY <1>5 DEF CatchExit, Leaves, LogAfterTest, running, Apart, Updating,
         ThreadType, CountType
    <2>6. Position'
      BY <1>5 DEF CatchExit, Leaves, LogAfterTest, running, Position,
         RunnerType, ThreadType
    <2>7. Suites'
      BY <1>5 DEF CatchExit, Leaves, LogAfterTest, running, Suites,
         NoStaleSuites, Position, RunnerType
    <2>8. Closing'
      BY <1>5 DEF CatchExit, Leaves, LogAfterTest, running, Closing,
         EndsInOrder, Position, RunnerType, ThreadType, CountType, LogType,
         Logs
    <2>9. Pending'
      <3> USE <1>5 DEF CatchExit, Leaves, LogAfterTest, running, Pending, Turns,
              Position, ThreadType, CountType
      <3>1. Left' = Left
        BY DEF Left
      <3>2. Cardinality(Left) \in Nat /\ Cardinality(Helpers) \in Nat
        BY Sizes DEF Left
      <3> QED
        BY <3>1, <3>2 DEF Mine
    <2>10. Logs'
      BY <1>5 DEF CatchExit, Leaves, LogAfterTest, running, Logs,
         LogOffBetweenTests, LogType, Position, ThreadType
    <2> QED
      BY <2>1, <2>2, <2>3, <2>4, <2>5, <2>6, <2>7, <2>8, <2>9, <2>10
  <1>6. CASE CatchForeign
    <2>1. RunnerType' /\ LogType'
      BY <1>6 DEF CatchForeign, Leaves, LogAfterTest, running, Updates,
         Updating, RunnerType, LogType, Position, Suites
    <2>2. ThreadType'
      BY <1>6 DEF CatchForeign, Leaves, LogAfterTest, running, Updates,
         Updating, ThreadType, CountType
    <2>3. CountType'
      BY <1>6 DEF CatchForeign, Leaves, LogAfterTest, running, Updates,
         Updating, CountType, ThreadType, Position
    <2>4. ReportAccountedFor'
      BY <1>6 DEF CatchForeign, Leaves, LogAfterTest, running, Updates,
         Updating, ReportAccountedFor, InFlight, Apart, ThreadType, CountType
    <2>5. Apart'
      BY <1>6 DEF CatchForeign, Leaves, LogAfterTest, running, Updates,
         Updating, Apart, ThreadType, CountType
    <2>6. Position'
      BY <1>6 DEF CatchForeign, Leaves, LogAfterTest, running, Updates,
         Updating, Position, RunnerType, ThreadType
    <2>7. Suites'
      BY <1>6 DEF CatchForeign, Leaves, LogAfterTest, running, Updates,
         Updating, Suites, NoStaleSuites, Position, RunnerType
    <2>8. Closing'
      BY <1>6 DEF CatchForeign, Leaves, LogAfterTest, running, Updates,
         Updating, Closing, EndsInOrder, Position, RunnerType, ThreadType,
         CountType, LogType, Logs
    <2>9. Pending'
      <3> USE <1>6 DEF CatchForeign, Leaves, LogAfterTest, running, Updates,
              Updating, Pending, Turns, Position, ThreadType, CountType
      <3>1. Left' = Left
        BY DEF Left
      <3>2. Cardinality(Left) \in Nat /\ Cardinality(Helpers) \in Nat
        BY Sizes DEF Left
      <3> QED
        BY <3>1, <3>2 DEF Mine
    <2>10. Logs'
      BY <1>6 DEF CatchForeign, Leaves, LogAfterTest, running, Updates,
         Updating, Logs, LogOffBetweenTests, LogType, Position, ThreadType
    <2> QED
      BY <2>1, <2>2, <2>3, <2>4, <2>5, <2>6, <2>7, <2>8, <2>9, <2>10
  <1>7. CASE CatchFails
    <2>1. RunnerType' /\ LogType'
      BY <1>7 DEF CatchFails, Leaves, running, RunnerType, LogType, Position,
         Suites
    <2>2. ThreadType'
      BY <1>7 DEF CatchFails, Leaves, running, ThreadType, CountType
    <2>3. CountType'
      BY <1>7 DEF CatchFails, Leaves, running, CountType, ThreadType,
         Position
    <2>4. ReportAccountedFor'
      BY <1>7 DEF CatchFails, Leaves, running, ReportAccountedFor, InFlight,
         Apart, Updating, ThreadType, CountType
    <2>5. Apart'
      BY <1>7 DEF CatchFails, Leaves, running, Apart, Updating, ThreadType,
         CountType
    <2>6. Position'
      BY <1>7 DEF CatchFails, Leaves, running, Position, RunnerType,
         ThreadType
    <2>7. Suites'
      BY <1>7 DEF CatchFails, Leaves, running, Suites, NoStaleSuites,
         Position, RunnerType
    <2>8. Closing'
      BY <1>7 DEF CatchFails, Leaves, running, Closing, EndsInOrder,
         Position, RunnerType, ThreadType, CountType, LogType, Logs
    <2>9. Pending'
      <3> USE <1>7 DEF CatchFails, Leaves, running, Pending, Turns, Position,
              ThreadType, CountType
      <3>1. Left' = Left
        BY DEF Left
      <3>2. Cardinality(Left) \in Nat /\ Cardinality(Helpers) \in Nat
        BY Sizes DEF Left
      <3> QED
        BY <3>1, <3>2 DEF Mine
    <2>10. Logs'
      BY <1>7 DEF CatchFails, Leaves, running, Logs, LogOffBetweenTests,
         LogType, Position, ThreadType
    <2> QED
      BY <2>1, <2>2, <2>3, <2>4, <2>5, <2>6, <2>7, <2>8, <2>9, <2>10
  <1>8. CASE Return
    <2>1. RunnerType' /\ LogType'
      BY <1>8 DEF Return, Leaves, LogAfterTest, InBody, running, Updates,
         Updating, RunnerType, LogType, Position, Suites
    <2>2. ThreadType'
      BY <1>8 DEF Return, Leaves, LogAfterTest, InBody, running, Updates,
         Updating, ThreadType, CountType
    <2>3. CountType'
      BY <1>8 DEF Return, Leaves, LogAfterTest, InBody, running, Updates,
         Updating, CountType, ThreadType, Position
    <2>4. ReportAccountedFor'
      BY <1>8 DEF Return, Leaves, LogAfterTest, InBody, running, Updates,
         Updating, ReportAccountedFor, InFlight, Apart, ThreadType, CountType
    <2>5. Apart'
      BY <1>8 DEF Return, Leaves, LogAfterTest, InBody, running, Updates,
         Updating, Apart, ThreadType, CountType
    <2>6. Position'
      BY <1>8 DEF Return, Leaves, LogAfterTest, InBody, running, Updates,
         Updating, Position, RunnerType, ThreadType
    <2>7. Suites'
      BY <1>8 DEF Return, Leaves, LogAfterTest, InBody, running, Updates,
         Updating, Suites, NoStaleSuites, Position, RunnerType
    <2>8. Closing'
      BY <1>8 DEF Return, Leaves, LogAfterTest, InBody, running, Updates,
         Updating, Closing, EndsInOrder, Position, RunnerType, ThreadType,
         CountType, LogType, Logs
    <2>9. Pending'
      <3> USE <1>8 DEF Return, Leaves, LogAfterTest, InBody, running, Updates,
              Updating, Pending, Turns, Position, ThreadType, CountType
      <3>1. Left' = Left
        BY DEF Left
      <3>2. Cardinality(Left) \in Nat /\ Cardinality(Helpers) \in Nat
        BY Sizes DEF Left
      <3> QED
        BY <3>1, <3>2 DEF Mine
    <2>10. Logs'
      BY <1>8 DEF Return, Leaves, LogAfterTest, InBody, running, Updates,
         Updating, Logs, LogOffBetweenTests, LogType, Position, ThreadType
    <2> QED
      BY <2>1, <2>2, <2>3, <2>4, <2>5, <2>6, <2>7, <2>8, <2>9, <2>10
  <1> QED
    BY <1>1, <1>2, <1>3, <1>4, <1>5, <1>6, <1>7, <1>8 DEF Ending

\* Every step of the engine, and stuttering, preserves the invariant.
LEMMA StepIInv == IInv /\ [Next]_vars => IInv'
  <1> SUFFICES ASSUME IInv, [Next]_vars PROVE IInv'
    OBVIOUS
  <1>1. CASE Main
    BY <1>1, MainStep
  <1>2. CASE Body
    BY <1>2, BodyStep
  <1>3. CASE Ending
    BY <1>3, EndingStep
  <1>4. CASE Done \/ UNCHANGED vars
    <2> USE <1>4 DEF Done, vars, runnerVars, logVars, counters, threadVars, reportVars
    <2>1. RunnerType' /\ LogType'
      BY DEF IInv, TypeOK, RunnerType, LogType
    <2>2. ThreadType'
      BY DEF IInv, TypeOK, ThreadType
    <2>3. CountType'
      BY DEF IInv, TypeOK, CountType
    <2>4. ReportAccountedFor' /\ Apart'
      BY DEF IInv, ReportAccountedFor, InFlight, Apart, Updating
    <2>5. Position' /\ Suites' /\ Closing'
      BY DEF IInv, Position, Suites, NoStaleSuites, Closing, EndsInOrder
    <2>6. Pending' /\ Logs'
      BY DEF IInv, Pending, Turns, Left, Mine, Logs,
         LogOffBetweenTests
    <2> QED
      BY <2>1, <2>2, <2>3, <2>4, <2>5, <2>6 DEF IInv, TypeOK
  <1> QED
    BY <1>1, <1>2, <1>3, <1>4 DEF Next

\* The invariant holds throughout every run of the C++ engine.
THEOREM Invariance == Spec => []IInv
  BY InitIInv, StepIInv, PTL DEF Spec

\* The variables keep their types: no counter of results goes below zero, and
\* no list is walked past its end.
THEOREM TypeCorrect == Spec => []TypeOK
  <1>1. IInv => TypeOK
    BY DEF IInv
  <1> QED
    BY <1>1, Invariance, PTL

\* The counters agree with the result lines printed, along every way an
\* exception can take, as long as no two updates have overlapped.
THEOREM ReportIsAccountedFor == Spec => []ReportAccountedFor
  <1>1. IInv => ReportAccountedFor
    BY DEF IInv
  <1> QED
    BY <1>1, Invariance, PTL

\* No test leaves its log on for the next one.
THEOREM LogIsOffBetweenTests == Spec => []LogOffBetweenTests
  <1>1. IInv => LogOffBetweenTests
    BY DEF IInv, Logs
  <1> QED
    BY <1>1, Invariance, PTL

\* A run that gets through its libraries, or that a test abandons, printed its
\* summary, closed its log and has the status its failures ask for.
THEOREM RunEndsInOrder == Spec => []EndsInOrder
  <1>1. IInv => EndsInOrder
    BY DEF IInv, Closing
  <1> QED
    BY <1>1, Invariance, PTL

\* No suite outlives the library whose code it is.
THEOREM SuitesAreNeverStale == Spec => []NoStaleSuites
  <1>1. IInv => NoStaleSuites
    BY DEF IInv, Suites
  <1> QED
    BY <1>1, Invariance, PTL

----------------------------------------------------------------------------
(* The engine implements TestRun.                                           *)

USE DEF T!Init, T!Next, T!vars, T!Report, T!Finish, T!GiveUp, T!Undecided,
        T!AllGood, T!SomeBad, T!NoRun

\* A step of TestRun, or of a run whose counters may have gone astray.
Allowed == T!Next \/ (overlap' /\ UNCHANGED exitCode)

\* One result more, before or after the summary, is a report of TestRun's.
LEMMA OneReports ==
  ASSUME IInv, exitCode = Running, exitCode' = exitCode,
         settled' = [passes |-> passes', failures |-> failures'],
         passes = settled.passes, failures = settled.failures,
         passes' \in Nat, failures' \in Nat,
         passes' >= passes, failures' >= failures,
         (passes' - passes) + (failures' - failures) <= 1
  PROVE  T!Report
  <1>1. Cardinality(Helpers) \in Nat
    BY Sizes
  <1> QED
    BY <1>1 DEF IInv, TypeOK, CountType

\* When a test is joined, what it and the threads counted meanwhile is a report.
LEMMA JoinReports == IInv /\ JoinTest => [Allowed]_(T!vars)
  <1> SUFFICES ASSUME IInv, JoinTest PROVE [Allowed]_(T!vars)
    OBVIOUS
  <1> USE DEF IInv, TypeOK, CountType, Position, JoinTest, counters
  <1>1. CASE overlap
    BY <1>1 DEF Allowed
  <1>2. CASE ~overlap
    <2>1. Cardinality(Helpers) \in Nat /\ Turns \in Nat
      BY Sizes DEF Turns, Left
    <2>2. /\ passes >= settled.passes /\ failures >= settled.failures
          /\ (passes - settled.passes) + (failures - settled.failures)
               <= 1 + Cardinality(Helpers)
      BY <1>2, <2>1 DEF Pending
    <2>3. /\ settled' = [passes |-> passes, failures |-> failures]
          /\ exitCode = Running /\ exitCode' = Running
      OBVIOUS
    <2> QED
      BY <2>1, <2>2, <2>3 DEF Allowed
  <1> QED
    BY <1>1, <1>2

\* A step of the main thread is a step of TestRun or changes nothing in it: a
\* test counts when it is joined, a suite that is passed over when it is, and
\* every way the process can end is a verdict on what was counted.
LEMMA MainRefines == IInv /\ Main => [Allowed]_(T!vars)
  <1> SUFFICES ASSUME IInv, Main PROVE [Allowed]_(T!vars)
    OBVIOUS
  <1> USE DEF IInv, TypeOK, CountType, Position, reportVars, Allowed
  <1>1. CASE Refuse(0) \/ Refuse(2)
    <2>1. /\ exitCode = Running /\ settled.failures = 0 /\ settled' = settled
          /\ exitCode' \in {0, 2}
      BY <1>1 DEF Refuse, Pending
    <2> QED
      BY <2>1
  <1>2. CASE LibraryKills \/ SuiteKills \/ CreateFails
    <2>1. /\ exitCode = Running /\ exitCode' \in {2, Killed}
          /\ settled' = settled /\ UNCHANGED <<lib, nLibs>> /\ lib < nLibs
      BY <1>2 DEF LibraryKills, SuiteKills, CreateFails, Dies
    <2>2. lib \in Nat /\ nLibs \in Nat
      BY DEF RunnerType
    <2> QED
      BY <2>1, <2>2
  <1>3. ASSUME NEW n \in 1..MaxLibs, NEW log \in BOOLEAN, Accept(n, log)
        PROVE  UNCHANGED T!vars
    BY <1>3 DEF Accept
  <1>4. ASSUME NEW opens \in BOOLEAN, OpenRunLog(opens)
        PROVE  UNCHANGED T!vars
    BY <1>4 DEF OpenRunLog
  <1>5. CASE SkipLibrary \/ RegistrationFails \/ EndSuite \/ EndLibrary \/ CreateTest
    BY <1>5 DEF SkipLibrary, RegistrationFails, EndSuite, EndLibrary, CreateTest
  <1>6. ASSUME NEW n \in 0..MaxSuites, LoadLibrary(n) PROVE UNCHANGED T!vars
    BY <1>6 DEF LoadLibrary
  <1>7. ASSUME NEW n \in 0..MaxTests, RegisterTests(n) PROVE UNCHANGED T!vars
    BY <1>7 DEF RegisterTests
  <1>8. CASE PassOver
    BY <1>8, SuiteCounts, OneReports DEF PassOver, Settle, Pending, threadVars
  <1>9. ASSUME NEW n \in 0..MaxSuites, NEW v \in 0..2, RegistrationThrows(n, v)
        PROVE  T!Report
    BY <1>9, SuiteCounts, OneReports DEF RegistrationThrows, Settle, Pending
  <1>10. CASE JoinTest
    BY <1>10, JoinReports
  <1>11. CASE Abandon \/ EndRun
    BY <1>11 DEF Abandon, EndRun
  <1>12. CASE CatchInMain
    BY <1>12 DEF CatchInMain, ThreadType
  <1>13. CASE Exit
    BY <1>13 DEF Exit, ExitStatus, Pending, RunnerType
  <1> HIDE DEF IInv, TypeOK, CountType, Position, reportVars, T!Next, T!vars, T!Report
  <1> QED
    BY <1>1, <1>2, <1>3, <1>4, <1>5, <1>6, <1>7, <1>8, <1>9, <1>10, <1>11, <1>12,
       <1>13 DEF Main, T!Next

\* What happens on the test's side changes nothing in TestRun, but for a thread
\* left behind that counts a result, or that takes the process with it.
LEMMA BodyRefines == IInv /\ Body => [Allowed]_(T!vars)
  <1> SUFFICES ASSUME IInv, Body PROVE [Allowed]_(T!vars)
    OBVIOUS
  <1> USE DEF IInv, Position, InBody, running, reportVars, Allowed
  <1>1. CASE AssertExcused \/ StopLog
    BY <1>1 DEF AssertExcused, StopLog
  <1>2. ASSUME NEW opens \in BOOLEAN, StartLog(opens) PROVE UNCHANGED T!vars
    BY <1>2 DEF StartLog
  <1>3. ASSUME NEW h \in Helpers,
               Spawn(h) \/ HelperReturns(h) \/ HelperPrints(h) \/ HelperAborts(h)
        PROVE  UNCHANGED T!vars
    BY <1>3 DEF Spawn, HelperReturns, HelperPrints, HelperAborts
  <1>4. ASSUME NEW h \in Helpers, HelperCounts(h) PROVE [Allowed]_(T!vars)
    <2> USE <1>4 DEF HelperCounts
    <2>1. CASE overlap \/ pc = "join"
      BY <2>1 DEF Settle
    <2>2. CASE ~overlap /\ pc # "join"
      <3>1. /\ settled' = [passes |-> passes', failures |-> failures']
            /\ passes = settled.passes /\ failures = settled.failures
            /\ exitCode = Running /\ exitCode' = exitCode
        BY <2>2 DEF Settle, Pending
      <3>2. /\ passes' \in Nat /\ failures' \in Nat
            /\ passes' >= passes /\ failures' >= failures
            /\ (passes' - passes) + (failures' - failures) <= 1
        BY <2>2 DEF Apart, Updating, TypeOK, CountType
      <3> QED
        BY <3>1, <3>2, OneReports
    <2> QED
      BY <2>1, <2>2
  <1>5. ASSUME NEW h \in Helpers, Terminate(h) PROVE T!GiveUp
    BY <1>5 DEF Terminate, Dies
  <1> QED
    BY <1>1, <1>2, <1>3, <1>4, <1>5 DEF Body

\* However a test ends, its result counts in TestRun only when it is joined.
LEMMA EndingRefines == IInv /\ Ending => UNCHANGED T!vars
  BY DEF Ending, AssertFails, Skip, Abort, ThrowOwn, CatchExit, CatchForeign,
         CatchFails, Return, reportVars, runnerVars

\* The engine implements TestRun: a test adds at most one result for each of its
\* threads, a suite or library that leaves by an exception and a thread left
\* behind one each, and the exit status is 0 or 1 by those results, or that of
\* a run abandoned, whatever is thrown and on whichever thread; only updates
\* that overlap may miscount.
THEOREM Refinement == Spec => ImplementsTestRun
  <1>1. Init => T!Init
    BY DEF Init
  <1>2. IInv /\ [Next]_vars => [Allowed]_(T!vars)
    <2> SUFFICES ASSUME IInv, [Next]_vars PROVE [Allowed]_(T!vars)
      OBVIOUS
    <2>1. CASE Done \/ UNCHANGED vars
      BY <2>1 DEF Done, vars, reportVars, runnerVars
    <2> QED
      BY <2>1, MainRefines, BodyRefines, EndingRefines DEF Next
  <1> QED
    BY <1>1, <1>2, Invariance, PTL DEF Spec, ImplementsTestRun, Allowed
==============================================================================
