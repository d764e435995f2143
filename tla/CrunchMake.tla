------------------------------ MODULE CrunchMake ------------------------------
(***************************************************************************)
(* crunchMake (src/crunchMake/): main() reads its command line with        *)
(* ArgsParser and hands each source, one after the other, to a compiler    *)
(* through system().  A build of crunchMake for clang compiles and links   *)
(* in two commands, one for gcc (and for MSVC) in a single one.            *)
(*                                                                         *)
(* Of a file the model keeps whose code it holds: before the run its own,  *)
(* after a command that worked that of the source the command was given.   *)
(***************************************************************************)
EXTENDS ArgsParser, FileNames

CONSTANTS
    Name,       \* Name[t]: the token t as the name of a file
    Results     \* what system() may return

ASSUME NameAssumption == Name \in [Tokens -> Seq(STRING)]
ASSUME ResultsAssumption == 0 \in Results /\ Results \subseteq Int

\* The row of -o, whose parameter computeSOName reads unchecked.
ASSUME OutputAssumption ==
       "crunchMake" \in Programs =>
          \E r \in DOMAIN Table["crunchMake"] :
             LET row == Table["crunchMake"][r]
             IN  row.value = "-o" /\ row.min = 1 /\ row.max = 1

VARIABLES
    clang,      \* compilerIsClang
    pc,         \* "main", "next", "compile", "link", "stop" or "exited"
    seen,       \* the entries of ret that getTests has been through
    tests,      \* the sources given
    test,       \* the place in tests of the source at hand, 0 before the loop
    skipped,    \* the places that were skipped
    logging,    \* the log of --log is on
    code,       \* the name of the source whose code is in a file
    result,     \* ret: what the last system() returned
    status      \* what the process exited with

make == <<clang, pc, seen, tests, test, skipped, logging, code, result, status>>

\* A source is a word that is not an object file.
IsSource(k) == k \in namedTests /\ ~isObj(Name[ret[k].value])

Given(q) == findArg(q) # {}
output == Name[ret[CHOOSE k \in findArg("-o") : \A h \in findArg("-o") : k <= h].params[1]]

\* Where the object and the library of a source go: -o names the library of
\* every source, and what the object is called.
computeObjName(t) == IF Given("-o") THEN toO(output) ELSE toO(t)
computeSOName(t) == IF Given("-o") THEN output ELSE toSO(t)

\* The files there may be.
Named == {Name[t] : t \in Tokens}
Files == Named \cup {toO(f) : f \in Named} \cup {toSO(f) : f \in Named}

\* The status of a process that returns r from main().
ExitStatus_Whole(r) == r
ExitStatus(r) == r % 256

MakeInit ==
    /\ Init
    /\ clang \in (IF prog = "crunchMake" THEN BOOLEAN ELSE {FALSE})
    /\ pc = "main"
    /\ seen = 0
    /\ tests = <<>>
    /\ test = 0
    /\ skipped = {}
    /\ logging = FALSE
    /\ code = [f \in Files |-> f]
    /\ result = 0
    /\ status = 0

Parse == Next /\ UNCHANGED make

Parsed == prog = "crunchMake" /\ state # "reading" /\ pc = "main"

Exit(r) == pc' = "exited" /\ status' = ExitStatus(r)

HelpAsked == \E q \in {"--version", "-v", "--help", "-h"} : Given(q)

VersionOrHelp ==
    /\ Parsed
    /\ HelpAsked
    /\ Exit(0)
    /\ UNCHANGED <<vars, clang, seen, tests, test, skipped, logging, code, result>>

getTests ==
    /\ Parsed
    /\ ~HelpAsked
    /\ seen < Len(ret)
    /\ seen' = seen + 1
    /\ tests' = IF IsSource(seen') THEN Append(tests, Name[ret[seen'].value]) ELSE tests
    /\ UNCHANGED <<vars, clang, pc, test, skipped, logging, code, result, status>>

GotTests == Parsed /\ ~HelpAsked /\ seen = Len(ret)

NothingToBuild ==
    /\ GotTests
    /\ tests = <<>>
    /\ Exit(2)
    /\ UNCHANGED <<vars, clang, seen, tests, test, skipped, logging, code, result>>

\* compileTests up to its loop; the log may fail to open.
StartBuild ==
    /\ GotTests
    /\ tests # <<>>
    /\ pc' = "next"
    /\ test' = 1
    /\ logging' \in (IF Given("--log") THEN BOOLEAN ELSE {FALSE})
    /\ UNCHANGED <<vars, clang, seen, tests, skipped, code, result, status>>

AtTest == pc = "next" /\ test <= Len(tests)

\* A source that cannot be read, or is none, is reported and skipped.
SkipSource ==
    /\ AtTest
    /\ skipped' = skipped \cup {test}
    /\ test' = test + 1
    /\ UNCHANGED <<vars, clang, seen, tests, pc, logging, code, result, status>>

TakeSource ==
    /\ AtTest
    /\ validExt(tests[test])
    /\ pc' = "compile"
    /\ UNCHANGED <<vars, clang, seen, tests, test, skipped, logging, code, result, status>>

\* A command that makes file f from file g.  One that fails leaves f as it was
\* or without any source's code.
Command(g, f, r) ==
    /\ result' = r
    /\ code' \in IF r = 0 THEN {[code EXCEPT ![f] = code[g]]}
                          ELSE {code, [code EXCEPT ![f] = f]}

\* The end of the loop's body: break, or on to the next source.
Stops_Never(r) == FALSE
Stops(r) == r # 0
Turn(r) == IF Stops(r) THEN pc' = "stop" /\ UNCHANGED test
                       ELSE pc' = "next" /\ test' = test + 1

compileTest(r) ==
    /\ pc = "compile"
    /\ IF ~clang
       THEN Command(tests[test], computeSOName(tests[test]), r) /\ Turn(r)
       ELSE /\ Command(tests[test], computeObjName(tests[test]), r)
            /\ IF r = 0 THEN pc' = "link" /\ UNCHANGED test ELSE Turn(r)
    /\ UNCHANGED <<vars, clang, seen, tests, skipped, logging, status>>

linkTest(r) ==
    /\ pc = "link"
    /\ Command(computeObjName(tests[test]), computeSOName(tests[test]), r)
    /\ Turn(r)
    /\ UNCHANGED <<vars, clang, seen, tests, skipped, logging, status>>

EndBuild ==
    /\ pc = "stop" \/ (pc = "next" /\ test > Len(tests))
    /\ logging' = FALSE
    /\ Exit(result)
    /\ UNCHANGED <<vars, clang, seen, tests, test, skipped, code, result>>

MakeNext ==
    \/ Parse
    \/ VersionOrHelp \/ getTests \/ NothingToBuild \/ StartBuild
    \/ SkipSource \/ TakeSource
    \/ \E r \in Results : compileTest(r) \/ linkTest(r)
    \/ EndBuild

MakeSpec == MakeInit /\ [][MakeNext]_<<vars, make>>

-----------------------------------------------------------------------------
\* The state; the status is what a parent process can see of it.
MakeTypeOK ==
    /\ TypeOK
    /\ clang \in BOOLEAN /\ logging \in BOOLEAN
    /\ pc \in {"main", "next", "compile", "link", "stop", "exited"}
    /\ seen \in 0..Len(ret)
    /\ tests \in Seq(Named)
    /\ test \in 0..Len(tests) + 1
    /\ skipped \subseteq 1..test - 1
    /\ code \in [Files -> Files]
    /\ result \in Results
    /\ status \in 0..255

Attempted == {k \in DOMAIN tests : k <= test /\ k \notin skipped}
Writes(k) == {computeSOName(tests[k])}
             \cup IF clang THEN {computeObjName(tests[k])} ELSE {}

\* When crunchMake is through, every library it attempted holds the code of its
\* own source, not what an earlier run left there, but for the last one when
\* its command failed, and those a later source was built over: sources that
\* differ in their extension only share a library, and under -o all do (that
\* this is not what -o is said to do is OneCompleteLibrary, below).
\* Without a failure no source is left out that was not skipped.  No source is
\* written over, unless -o says so, and then this is not claimed.
BuiltFromItsSource ==
    /\ pc = "exited" => ~logging
    /\ pc = "exited" /\ result = 0 /\ ~HelpAsked => Attempted = DOMAIN tests \ skipped
    /\ \A h \in DOMAIN tests, j \in Attempted : tests[h] \in Writes(j) => Given("-o")
    /\ pc = "exited" /\ (\A h, j \in Attempted : tests[h] \notin Writes(j)) =>
           \A k \in Attempted :
              \/ result # 0 /\ k = test
              \/ \E j \in Attempted : j > k /\ computeSOName(tests[k]) \in Writes(j)
              \/ code[computeSOName(tests[k])] = tests[k]

\* crunchMake exits with a failure if a command it ran failed: the tests of
\* crunchMake look at its status to know (test/crunchMake/crunchMakeGCC.py:29).
FailureIsReported == pc = "exited" /\ result # 0 => status # 0

\* The library that -o names is complete: when nothing failed, was skipped or
\* written over, it has the code of every source given.  "The files given on
\* the crunchMake command line are gathered together and passed as inputs to
\* the compiler.  This allows you to specify multiple TUs [...] to produce a
\* complete library" (version.hxx.in:70-72, man/crunchMake.1.md:112-113).
OneCompleteLibrary ==
    /\ pc = "exited" /\ result = 0 /\ ~HelpAsked /\ Given("-o") /\ skipped = {}
    /\ \A h, j \in DOMAIN tests : tests[h] \notin Writes(j)
    => \A k \in DOMAIN tests : code[output] = tests[k]
=============================================================================
