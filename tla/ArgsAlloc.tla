------------------------------ MODULE ArgsAlloc -------------------------------
(***************************************************************************)
(* The memory of the C command line: every block parseArguments() allocates *)
(* (src/crunch/ArgsParser.c), what main() and getTests() of crunch.c add to *)
(* it, and who frees what.  It is ArgsParser with each allocation a step of *)
(* its own that can fail, and is shown to implement it.                     *)
(*                                                                          *)
(* A block is named by what is in it: the k-th entry is <<"arg", k, 0>>, its *)
(* strings <<"value", k, 0>> and <<"param", k, j>>, its array of parameters  *)
(* <<"params", k, 0>>; the other arrays are <<"ret", 0, 0>> and the like.    *)
(***************************************************************************)
EXTENDS Integers, Sequences

CONSTANTS
    Programs, Table, Lines, Beginnings,  \* as in ArgsParser, all of them in C
    Engine,     \* the program among them whose main() is crunch's
    MaxArm,     \* bound: the last allocation that may be the one to fail
    NULL

ASSUME EngineAssumption == Engine \in Programs
ASSUME MaxArmAssumption == MaxArm \in Nat

VARIABLES
    prog, argv,
    i,           \* the argument to read next, or being read
    ret,         \* the entries: value, row, paramsFound, params
    argRet,      \* the entry at work, or NULL
    state,       \* of parseArguments: "reading", "read" or "refused"
    allocCount,  \* how many more calls of malloc() work; -1: all of them
    arrays,      \* the arrays a variable of the program points at
    live,        \* the blocks that malloc() gave and free() has not got back
    wrong,       \* what was given to free() and was not such a block
    pc

vars == <<prog, argv, i, ret, argRet, state, allocCount, arrays, live, wrong, pc>>

\* What ArgsParser knows of an entry.
Read(a) == [value |-> a.value, row |-> a.row,
            params |-> IF a.params = NULL THEN <<>> ELSE a.params]

Parser == INSTANCE ArgsParser WITH
              InC <- Programs, ret <- [k \in DOMAIN ret |-> Read(ret[k])]

ASSUME ParserAssumption ==
    /\ Parser!ProgramsAssumption /\ Parser!LinesAssumption /\ Parser!TableAssumption
    /\ Parser!TextAssumption /\ Parser!UnambiguousAssumption

\* parsedArg_t: an entry, of which the parts that were not made yet are NULL.
OrNULL(S) == S \cup {NULL}
parsedArg_t == [value : OrNULL(Parser!Tokens), row : Nat, paramsFound : Nat,
                params : OrNULL(Seq(OrNULL(Parser!Tokens)))]

ASSUME NullAssumption ==
    /\ NULL \notin Parser!Tokens /\ NULL \notin Seq(OrNULL(Parser!Tokens))
    /\ NULL \notin parsedArg_t

-----------------------------------------------------------------------------
(* malloc(), strdup() and free().                                          *)

Array(a) == <<a, 0, 0>>

\* The interposed malloc() (crunch.c): counts down, fails at 0.
Works == allocCount # 0
Counted_On == allocCount - 1
Counted == IF allocCount >= 0 THEN allocCount - 1 ELSE allocCount
Malloc(b) ==
    /\ Works
    /\ allocCount' = Counted
    /\ live' = live \cup {b}
    /\ wrong' = wrong
MallocFails == ~Works /\ allocCount' = Counted  \* or memory ran out

Free(blocks) ==
    /\ live' = live \ blocks
    /\ wrong' = wrong \cup (blocks \ live)

\* What freeParsedArg() gives to free() for entry k; an entry's memory was
\* cleared, so the strings not made yet are NULL.
freeParsedArg_NoMemset(k, a) ==
    {<<"arg", k, 0>>}
    \cup (IF a.value = NULL THEN {} ELSE {<<"value", k, 0>>})
    \cup (IF a.params = NULL THEN {}
          ELSE {<<"params", k, 0>>} \cup {<<"param", k, j>> : j \in 1..a.paramsFound})
freeParsedArg_NoStrings(k, a) ==
    {<<"arg", k, 0>>}
    \cup (IF a.value = NULL THEN {} ELSE {<<"value", k, 0>>})
    \cup (IF a.params = NULL THEN {} ELSE {<<"params", k, 0>>})
freeParsedArg(k, a) ==
    {<<"arg", k, 0>>}
    \cup (IF a.value = NULL THEN {} ELSE {<<"value", k, 0>>})
    \cup (IF a.params = NULL THEN {}
          ELSE {<<"params", k, 0>>}
               \cup {<<"param", k, j>> : j \in {h \in 1..a.paramsFound : a.params[h] # NULL}})

Entries == UNION {freeParsedArg(k, ret[k]) : k \in DOMAIN ret}

\* freeParsedArgs() of an array of the entries; given NULL it does nothing.
freeParsedArgs(a) == IF a \in arrays THEN {Array(a)} \cup Entries ELSE {}

n == Len(ret) + 1
Pending == IF argRet = NULL THEN {} ELSE freeParsedArg(n, argRet)

-----------------------------------------------------------------------------
(* parseArguments().                                                       *)

Init ==
    /\ prog \in Programs
    /\ argv \in Lines[prog]
    /\ allocCount \in -1..MaxArm
    /\ i = 1 /\ ret = <<>> /\ argRet = NULL
    /\ state = "reading" /\ pc = "ret"
    /\ arrays = {} /\ live = {} /\ wrong = {}

AllocRet ==
    /\ pc = "ret"
    /\ Malloc(Array("ret"))
    /\ arrays' = {"ret"}
    /\ pc' = "arg"
    /\ UNCHANGED <<prog, argv, i, ret, argRet, state>>

AllocArg ==
    /\ pc = "arg" /\ i <= Len(argv)
    /\ Malloc(<<"arg", n, 0>>)
    /\ argRet' = [value |-> NULL, row |-> 0, paramsFound |-> 0, params |-> NULL]
    /\ pc' = "value"
    /\ UNCHANGED <<prog, argv, i, ret, state, arrays>>

d == Parser!Decides(argv[i])
Found == d # 0 /\ Parser!Takes(Parser!rows[d], argv[i])
Formed == d = 0 \/ Found

AllocValue ==
    /\ pc = "value" /\ Formed
    /\ Malloc(<<"value", n, 0>>)
    /\ argRet' = [argRet EXCEPT !.value = argv[i]]
    /\ pc' = IF Found THEN "check" ELSE "push"
    /\ UNCHANGED <<prog, argv, i, ret, state, arrays>>

\* The second copy of an option is freed again, and i goes on by one.
DropDuplicate ==
    /\ pc = "check" /\ Parser!IsDuplicate(d)
    /\ Free(Pending)
    /\ argRet' = NULL
    /\ i' = i + 1
    /\ pc' = "arg"
    /\ UNCHANGED <<prog, argv, ret, state, allocCount, arrays>>

paramsFound == Parser!checkParams(Parser!rows[d], i)
Enough == paramsFound >= Parser!rows[d].min

CountParams ==
    /\ pc = "check" /\ ~Parser!IsDuplicate(d) /\ Enough
    /\ argRet' = [argRet EXCEPT !.row = d, !.paramsFound = paramsFound]
    /\ pc' = IF paramsFound = 0 THEN "push" ELSE "params"
    /\ UNCHANGED <<prog, argv, i, ret, state, allocCount, arrays, live, wrong>>

AllocParams ==
    /\ pc = "params"
    /\ Malloc(<<"params", n, 0>>)
    /\ argRet' = [argRet EXCEPT !.params = [j \in 1..argRet.paramsFound |-> NULL]]
    /\ pc' = "param"
    /\ UNCHANGED <<prog, argv, i, ret, state, arrays>>

AllocParam ==
    /\ pc = "param"
    /\ \E j \in DOMAIN argRet.params :
          /\ argRet.params[j] = NULL /\ \A h \in 1..j - 1 : argRet.params[h] # NULL
          /\ Malloc(<<"param", n, j>>)
          /\ argRet' = [argRet EXCEPT !.params[j] = argv[i + j]]
          /\ pc' = IF j = argRet.paramsFound THEN "push" ELSE "param"
    /\ UNCHANGED <<prog, argv, i, ret, state, arrays>>

Behind_One == i + 1
Behind == i + argRet.paramsFound + 1

Push ==
    /\ pc = "push"
    /\ ret' = Append(ret, argRet)
    /\ argRet' = NULL
    /\ i' = Behind
    /\ pc' = "arg"
    /\ UNCHANGED <<prog, argv, state, allocCount, arrays, live, wrong>>

\* "Shrink as appropriate": the entries move to an array of their number.
AllocResult ==
    /\ pc = "arg" /\ i > Len(argv)
    /\ Works
    /\ allocCount' = Counted
    /\ live' = (live \cup {Array("result")}) \ {Array("ret")}
    /\ wrong' = wrong \cup ({Array("ret")} \ live)
    /\ arrays' = {"result"}
    /\ state' = "read"
    /\ pc' = "parsed"
    /\ UNCHANGED <<prog, argv, i, ret, argRet>>

\* Every return of NULL: the entry at work, then all others and their array.
GiveUp ==
    /\ Free(Pending \cup freeParsedArgs("ret"))
    /\ ret' = <<>>
    /\ argRet' = NULL
    /\ arrays' = {}
    /\ state' = "refused"
    /\ pc' = "parsed"
    /\ UNCHANGED <<prog, argv, i>>

OutOfMemory ==
    /\ pc \in {"ret", "arg", "params", "param"} \/ (pc = "value" /\ Formed)
    /\ MallocFails
    /\ GiveUp

BadlyFormed ==
    /\ pc = "value" /\ ~Formed
    /\ GiveUp
    /\ UNCHANGED allocCount

NotEnoughParams ==
    /\ pc = "check" /\ ~Parser!IsDuplicate(d) /\ ~Enough
    /\ GiveUp
    /\ UNCHANGED allocCount

-----------------------------------------------------------------------------
(* main() and getTests() of crunch.c; a test of the parser frees what it got *)
(* at once.                                                                  *)

\* callFreeParsedArgs and the other blocks given back at the end.
Exit(others, label) ==
    /\ Free(others \cup freeParsedArgs("result"))
    /\ arrays' = {}
    /\ pc' = label
    /\ UNCHANGED <<prog, argv, i, ret, argRet, state>>

Given(q) == Parser!findArg(q) # {}
VersionOrHelp == \E q \in {"--version", "-v", "--help", "-h"} : Given(q)

\* A test of the parser, or an engine that was asked for a text.
Release ==
    /\ pc = "parsed" /\ state = "read"
    /\ prog = Engine => VersionOrHelp
    /\ Exit({}, "exited")
    /\ UNCHANGED allocCount

Refuse ==
    /\ pc = "parsed" /\ state = "refused"
    /\ Exit({}, "failed")
    /\ UNCHANGED allocCount

\* getTests(): an array for the names of the test libraries, ...
Engaged == pc = "parsed" /\ state = "read" /\ prog = Engine /\ ~VersionOrHelp

AllocTests ==
    /\ Engaged
    /\ Malloc(Array("namedTests"))
    /\ arrays' = arrays \cup {"namedTests"}
    /\ pc' = "names"
    /\ UNCHANGED <<prog, argv, i, ret, argRet, state>>

AllocTestsFails == Engaged /\ MallocFails /\ Exit({}, "failed")

\* ... which is freed if there are none, ...
NoTests ==
    /\ pc = "names" /\ Parser!namedTests = {}
    /\ Exit({Array("namedTests")}, "failed")
    /\ UNCHANGED allocCount

\* ... and otherwise cut down to their number.  If realloc() fails, the old
\* array is still there and nothing points at it any more.
ShrinkTests ==
    /\ pc = "names" /\ Parser!namedTests # {}
    /\ pc' = "cwd"
    /\ UNCHANGED <<prog, argv, i, ret, argRet, state, allocCount, arrays, live, wrong>>

ShrinkTestsFails ==
    /\ pc = "names" /\ Parser!namedTests # {}
    /\ Exit({}, "failed")
    /\ UNCHANGED allocCount

\* getcwd(NULL, 0) returns memory, or NULL, of which extForLibrary() then
\* takes the length.
GetCwd ==
    /\ pc = "cwd"
    /\ Malloc(Array("workingDir"))
    /\ arrays' = arrays \cup {"workingDir"}
    /\ pc' = "run"
    /\ UNCHANGED <<prog, argv, i, ret, argRet, state>>

GetCwdFails ==
    /\ pc = "cwd"
    /\ allocCount' = IF Works THEN allocCount ELSE Counted
    /\ pc' = "killed"
    /\ UNCHANGED <<prog, argv, i, ret, argRet, state, arrays, live, wrong>>

\* After runTests(), which reads the names and the parameter of --log.
Finish ==
    /\ pc = "run"
    /\ Exit({Array("namedTests"), Array("workingDir")}, "exited")
    /\ UNCHANGED allocCount

parseArguments ==
    \/ AllocRet \/ AllocArg \/ AllocValue \/ DropDuplicate \/ CountParams
    \/ AllocParams \/ AllocParam \/ Push \/ AllocResult
    \/ OutOfMemory \/ BadlyFormed \/ NotEnoughParams

main ==
    \/ Release \/ Refuse \/ AllocTests \/ AllocTestsFails \/ NoTests
    \/ ShrinkTests \/ ShrinkTestsFails \/ GetCwd \/ GetCwdFails \/ Finish

Next == parseArguments \/ main

Spec == Init /\ [][Next]_vars

-----------------------------------------------------------------------------
(* Properties.                                                             *)

\* The state.  ret has a slot for every argument and one that stays NULL, which
\* is what ends freeParsedArgs() and checkAlreadyFound() before the end.
TypeOK ==
    /\ Parser!TypeOK
    /\ Len(ret) <= Len(argv)
    /\ argRet # NULL => argRet.paramsFound \in 0..Len(argv) /\ argRet.row \in 0..Len(Parser!rows)
    /\ allocCount \in -1..MaxArm
    /\ arrays \subseteq {"ret", "result", "namedTests", "workingDir"}
    /\ pc \in {"ret", "arg", "value", "check", "params", "param", "push", "parsed",
               "names", "cwd", "run", "exited", "failed", "killed"}

\* No clean-up path, over however few of the strings of an entry were made,
\* frees a block twice or one that never was.
NothingFreedTwice == wrong = {}

\* At every moment each block there is can be reached from a variable, and each
\* that can be reached is there: none is leaked on any path and none used after
\* it was freed, up to the exit of the program.  The one exception is getTests()
\* when realloc() fails.
Owned(k, a) ==
    {<<"arg", k, 0>>} \cup {<<"value", k, 0>> : v \in {a.value} \ {NULL}}
    \cup UNION {{<<"params", k, 0>>} \cup {<<"param", k, j>> : j \in {h \in DOMAIN p : p[h] # NULL}} :
               p \in {a.params} \ {NULL}}
Reachable ==
    {Array(a) : a \in arrays}
    \cup (IF argRet = NULL THEN {} ELSE Owned(n, argRet))
    \cup (IF arrays \cap {"ret", "result"} = {} THEN {}
          ELSE UNION {Owned(k, ret[k]) : k \in DOMAIN ret})
NothingLeaked ==
    \/ live = Reachable
    \/ pc = "failed" /\ Parser!namedTests # {} /\ live = {Array("namedTests")}

\* Taken together the steps are those of ArgsParser: with a failure anywhere
\* the caller gets NULL, without one all of what the command line says.
ImplementsParser == Parser!Spec
=============================================================================
