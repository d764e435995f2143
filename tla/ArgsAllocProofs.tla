--------------------------- MODULE ArgsAllocProofs ----------------------------
(***************************************************************************)
(* Proofs about the memory of the C command line, for any tables, lines and *)
(* tokens, and whichever allocation fails: every block is freed once, none   *)
(* is lost, and the steps of the code are those of ArgsParser.              *)
(*                                                                          *)
(* parseArguments() makes an entry part by part, and its clean-up paths go   *)
(* by what they find in it.  IInv therefore says what is in the entry at    *)
(* each place of the code (AtWork) and which arrays there are (Stages); that *)
(* nothing is lost is then a matter of whose block is whose (NamesLemma).   *)
(***************************************************************************)
EXTENDS ArgsAlloc, TLAPS

\* The lemmas about the searches of the parser.
P == INSTANCE ArgsParserProofs WITH
         InC <- Programs, ret <- [k \in DOMAIN ret |-> Read(ret[k])]

rows == Parser!rows
Tokens == Parser!Tokens

\* What ArgsParser calls ret.
parsed == [k \in DOMAIN ret |-> Read(ret[k])]

\* What an entry at work is when its option or word has been read.
Entry(row, found, params) ==
  [value |-> argv[i], row |-> row, paramsFound |-> found, params |-> params]
Blank == [value |-> NULL, row |-> 0, paramsFound |-> 0, params |-> NULL]

\* The array of the parameters with the first m of them made.
Made(m) == [j \in 1..paramsFound |-> IF j <= m THEN argv[i + j] ELSE NULL]

\* An entry that is complete.
Complete(a) ==
  /\ a \in [value : Tokens, row : 0..Len(rows), paramsFound : Nat,
            params : Seq(Tokens) \cup {NULL}]
  /\ IF a.params = NULL THEN a.paramsFound = 0 ELSE Len(a.params) = a.paramsFound

\* The variables the parser reads and the entries it has made.
Types ==
  /\ prog \in Programs /\ argv \in Lines[prog]
  /\ i \in 1..Len(argv) + 1
  /\ ret \in Seq(parsedArg_t) /\ Len(ret) < i
  /\ \A k \in DOMAIN ret : Complete(ret[k])
  /\ allocCount \in -1..MaxArm

\* The argument is an option that is added to what was read.
Accepted == i <= Len(argv) /\ Found /\ ~Parser!IsDuplicate(d) /\ Enough

\* The entry at work.
AtWork ==
  /\ pc \notin {"value", "check", "params", "param", "push"} => argRet = NULL
  /\ pc = "value" => i <= Len(argv) /\ argRet = Blank
  /\ pc = "check" => i <= Len(argv) /\ Found /\ argRet = Entry(0, 0, NULL)
  /\ pc = "params" => /\ Accepted /\ paramsFound # 0
                      /\ argRet = Entry(d, paramsFound, NULL)
  /\ pc = "param" => /\ Accepted
                     /\ \E m \in 0..paramsFound - 1 :
                           argRet = Entry(d, paramsFound, Made(m))
  /\ pc = "push" =>
       \/ i <= Len(argv) /\ d = 0 /\ argRet = Entry(0, 0, NULL)
       \/ Accepted /\ paramsFound = 0 /\ argRet = Entry(d, 0, NULL)
       \/ /\ Accepted /\ paramsFound # 0
          /\ argRet = Entry(d, paramsFound, Made(paramsFound))

Reading == {"arg", "value", "check", "params", "param", "push"}

\* The arrays there are.
Stages ==
  /\ pc \in Reading \cup {"ret", "parsed", "names", "cwd", "run", "exited", "failed", "killed"}
  /\ pc \in Reading \cup {"ret"} <=> state = "reading"
  /\ state \in {"reading", "read", "refused"}
  /\ pc = "ret" => arrays = {} /\ ret = <<>>
  /\ pc \in Reading => arrays = {"ret"}
  /\ pc = "parsed" => arrays = IF state = "read" THEN {"result"} ELSE {}
  /\ pc \in {"names", "cwd", "killed"} => arrays = {"result", "namedTests"}
  /\ pc = "run" => arrays = {"result", "namedTests", "workingDir"}
  /\ pc \in {"exited", "failed"} => arrays = {}

IInv == Types /\ AtWork /\ Stages /\ NothingFreedTwice /\ NothingLeaked

----------------------------------------------------------------------------
(* The parser at hand.                                                      *)

\* What the lemmas of ArgsParserProofs take for granted is assumed here too.
LEMMA Assumptions ==
  /\ P!LinesAssumption /\ P!TableAssumption /\ P!TextAssumption
  /\ P!ProgramsAssumption /\ P!UnambiguousAssumption
  <1>1. P!LinesAssumption /\ P!TableAssumption /\ P!TextAssumption
    BY ParserAssumption DEF P!Tokens, Parser!Tokens, P!arg_t, Parser!arg_t
  <1>2. P!ProgramsAssumption
    BY ParserAssumption
  <1>3. P!UnambiguousAssumption
    BY ParserAssumption
  <1> QED
    BY <1>1, <1>2, <1>3

\* What the lemmas are about is the parser of this module.
LEMMA SameParser ==
  /\ P!rows = rows /\ P!Tokens = Tokens /\ P!arg_t = Parser!arg_t
  /\ \A t : P!Decides(t) = Parser!Decides(t)
  /\ \A row, t : P!Takes(row, t) <=> Parser!Takes(row, t)
  /\ \A row, p : P!checkParams(row, p) = Parser!checkParams(row, p)
  <1>1. P!rows = rows /\ P!Tokens = Tokens
    BY DEF P!rows, Parser!rows, P!Tokens, Parser!Tokens, rows, Tokens
  <1>2. P!arg_t = Parser!arg_t
    BY Zenon DEF P!arg_t, Parser!arg_t, P!Tokens, Parser!Tokens
  <1>3. \A t : P!Decides(t) = Parser!Decides(t)
    BY Zenon DEF P!Decides, Parser!Decides, P!rows, Parser!rows, P!Takes, P!Rejects,
       Parser!Takes, Parser!Rejects, P!Begins, Parser!Begins
  <1>4. \A row, t : P!Takes(row, t) <=> Parser!Takes(row, t)
    BY Zenon DEF P!Takes, Parser!Takes, P!Begins, Parser!Begins
  <1>5. \A row, p : P!checkParams(row, p) = Parser!checkParams(row, p)
    BY Zenon DEF P!checkParams, Parser!checkParams, P!EndsParams, Parser!EndsParams,
       P!Takes, Parser!Takes, P!Begins, Parser!Begins, P!rows, Parser!rows
  <1> QED
    BY <1>1, <1>2, <1>3, <1>4, <1>5

\* The types of what the parser at hand works with.
LEMMA ProgramLemma ==
  ASSUME Types
  PROVE  /\ argv \in Seq(Tokens) /\ Len(argv) \in Nat
         /\ rows \in Seq(Parser!arg_t) /\ Len(rows) \in Nat
         /\ i \in Nat \ {0} /\ Len(ret) \in Nat /\ n = Len(ret) + 1
         /\ P!rows \in Seq(P!arg_t) /\ argv \in Seq(P!Tokens)
  <1>1. /\ P!Tokens = Tokens /\ P!rows = rows
    BY SameParser
  <1>2. P!LinesAssumption /\ P!TableAssumption
    BY Assumptions
  <1>3. argv \in Seq(P!Tokens)
    BY <1>2 DEF Types, P!LinesAssumption
  <1>4. P!rows \in Seq(P!arg_t)
    BY <1>2 DEF Types, P!TableAssumption, P!rows
  <1> QED
    BY <1>1, <1>3, <1>4, SameParser DEF Types, n

\* The row that decides and the number of the parameters are found, and are the
\* only ones.
Searched ==
  /\ P!First(d, argv[i]) /\ \A x : P!First(x, argv[i]) => x = d
  /\ d # 0 => /\ P!Extent(rows[d], i, paramsFound)
              /\ \A x : P!Extent(rows[d], i, x) => x = paramsFound

\* Of an argument, one row decides and one number of parameters fits.
LEMMA ArgumentLemma ==
  ASSUME Types, i <= Len(argv)
  PROVE  /\ argv[i] \in Tokens /\ d \in 0..Len(rows)
         /\ P!First(d, argv[i]) /\ \A x : P!First(x, argv[i]) => x = d
         /\ d # 0 =>
              /\ rows[d] \in Parser!arg_t
              /\ paramsFound \in Nat /\ i + paramsFound <= Len(argv)
              /\ P!Extent(rows[d], i, paramsFound)
              /\ \A x : P!Extent(rows[d], i, x) => x = paramsFound
  <1>1. /\ argv \in Seq(P!Tokens) /\ P!rows \in Seq(P!arg_t) /\ i \in 1..Len(argv)
        /\ P!rows = rows /\ P!Tokens = Tokens /\ P!arg_t = Parser!arg_t
    BY ProgramLemma, SameParser DEF Types
  <1>2. d = P!Decides(argv[i])
    BY SameParser DEF d
  <1>3. /\ P!First(d, argv[i]) /\ d \in 0..Len(rows)
        /\ \A x : P!First(x, argv[i]) => x = d
    <2> HIDE DEF d
    <2> QED
      BY <1>1, <1>2, Assumptions, P!DecidesLemma
  <1>4. ASSUME d # 0
        PROVE  /\ rows[d] \in Parser!arg_t
               /\ paramsFound \in Nat /\ i + paramsFound <= Len(argv)
               /\ P!Extent(rows[d], i, paramsFound)
               /\ \A x : P!Extent(rows[d], i, x) => x = paramsFound
    <2>1. rows[d] \in P!arg_t
      BY <1>1, <1>3, <1>4
    <2>2. paramsFound = P!checkParams(rows[d], i)
      BY SameParser, Zenon DEF paramsFound, rows
    <2>3. /\ P!Extent(rows[d], i, P!checkParams(rows[d], i))
          /\ \A x : P!Extent(rows[d], i, x) => x = P!checkParams(rows[d], i)
      BY <1>1, <2>1, Assumptions, P!ParamsLemma
    <2>4. rows[d].max \in Nat
      BY <2>1 DEF P!arg_t
    <2> QED
      BY <1>1, <2>1, <2>2, <2>3, <2>4 DEF P!Extent
  <1> QED
    BY <1>1, <1>3, <1>4

\* The same as a fact of every state, to be used before a step and after it.
LEMMA SearchLemma == Types /\ i <= Len(argv) => Searched
  BY ArgumentLemma DEF Searched

\* While an argument is at work, what was found out about it does not change.
LEMMA SameArgument ==
  ASSUME Types, i <= Len(argv), UNCHANGED <<prog, argv, i>>, Types'
  PROVE  /\ d' = d /\ rows' = rows
         /\ Found' <=> Found
         /\ d # 0 => paramsFound' = paramsFound /\ (Enough' <=> Enough)
  <1>1. rows' = rows /\ P!rows' = P!rows /\ Len(argv') = Len(argv) /\ argv'[i'] = argv[i]
    BY DEF rows, Parser!rows, P!rows
  <1>2. Searched /\ Searched'
    <2>1. (Types /\ i <= Len(argv) => Searched)'
      BY SearchLemma, PTL
    <2> QED
      BY <1>1, <2>1, SearchLemma
  <1>3. d' = d
    <2>1. P!First(d', argv[i])
      BY <1>1, <1>2 DEF Searched, P!First, P!Hits, P!Takes, P!Rejects, P!Begins
    <2> QED
      BY <1>2, <2>1 DEF Searched
  <1>4. ASSUME d # 0 PROVE paramsFound' = paramsFound
    <2>1. P!Extent(rows[d], i, paramsFound')
      BY <1>1, <1>2, <1>3, <1>4 DEF Searched, P!Extent, P!EndsParams, P!Takes, P!Begins
    <2> QED
      BY <1>2, <1>4, <2>1 DEF Searched
  <1>5. Found' <=> Found
    BY <1>1, <1>3 DEF Found, rows, Parser!Takes, Parser!Begins
  <1>6. ASSUME d # 0 PROVE Enough' <=> Enough
    BY <1>1, <1>3, <1>4, <1>6 DEF Enough, rows
  <1> QED
    BY <1>1, <1>3, <1>4, <1>5, <1>6

----------------------------------------------------------------------------
(* The entry at work.                                                       *)

\* The parameters made so far are those of the line.
LEMMA MadeLemma ==
  ASSUME Types, i <= Len(argv), d # 0, NEW m \in 0..paramsFound
  PROVE  /\ Made(m) \in Seq(OrNULL(Tokens)) /\ DOMAIN Made(m) = 1..paramsFound
         /\ \A j \in 1..paramsFound : /\ argv[i + j] \in Tokens /\ argv[i + j] # NULL
                                      /\ Made(m)[j] = IF j <= m THEN argv[i + j] ELSE NULL
  <1>1. /\ argv \in Seq(Tokens) /\ i \in Nat \ {0} /\ Len(argv) \in Nat
        /\ paramsFound \in Nat /\ i + paramsFound <= Len(argv)
    BY ProgramLemma, ArgumentLemma
  <1> HIDE DEF paramsFound
  <1>2. \A j \in 1..paramsFound : argv[i + j] \in Tokens
    BY <1>1
  <1>3. \A j \in 1..paramsFound : argv[i + j] # NULL
    BY <1>2, NullAssumption DEF Tokens
  <1>4. \A j \in 1..paramsFound : (IF j <= m THEN argv[i + j] ELSE NULL) \in OrNULL(Tokens)
    BY <1>2 DEF OrNULL
  <1>5. Made(m) \in Seq(OrNULL(Tokens))
    BY <1>1, <1>4 DEF Made
  <1> QED
    BY <1>2, <1>3, <1>5 DEF Made

\* The entries there are on the way to a complete one are no NULL.
LEMMA EntryLemma ==
  ASSUME Types, i <= Len(argv)
  PROVE  /\ Blank \in parsedArg_t /\ Blank # NULL
         /\ Entry(0, 0, NULL) \in parsedArg_t /\ Entry(0, 0, NULL) # NULL
         /\ Entry(d, 0, NULL) \in parsedArg_t
         /\ d # 0 => /\ Entry(d, paramsFound, NULL) \in parsedArg_t
                     /\ \A m \in 0..paramsFound : Entry(d, paramsFound, Made(m)) \in parsedArg_t
  <1>1. argv[i] \in Tokens /\ d \in Nat /\ (d # 0 => paramsFound \in Nat)
    BY ProgramLemma, ArgumentLemma
  <1>2. d # 0 => \A m \in 0..paramsFound : Made(m) \in Seq(OrNULL(Tokens))
    BY MadeLemma
  <1> HIDE DEF d, paramsFound, Made
  <1>3. \A x, f \in Nat : \A p \in OrNULL(Seq(OrNULL(Tokens))) : Entry(x, f, p) \in parsedArg_t
    BY <1>1 DEF Entry, parsedArg_t, OrNULL, Tokens
  <1>4. NULL \in OrNULL(Seq(OrNULL(Tokens)))
        /\ (d # 0 => \A m \in 0..paramsFound : Made(m) \in OrNULL(Seq(OrNULL(Tokens))))
    BY <1>2 DEF OrNULL
  <1>5. Blank \in parsedArg_t
    BY DEF Blank, parsedArg_t, OrNULL
  <1> QED
    BY <1>1, <1>3, <1>4, <1>5, NullAssumption

\* An entry that is pushed is complete, and is what the line says.
LEMMA PushLemma ==
  ASSUME Types, AtWork, pc = "push"
  PROVE  /\ i <= Len(argv) /\ argRet \in parsedArg_t /\ Complete(argRet)
         /\ argRet.value = argv[i] /\ argRet.row = d
         /\ argRet.paramsFound \in Nat /\ i + argRet.paramsFound <= Len(argv)
         /\ d # 0 => Accepted /\ argRet.paramsFound = paramsFound
         /\ d = 0 => argRet.paramsFound = 0
         /\ Read(argRet).params = SubSeq(argv, i + 1, i + argRet.paramsFound)
  <1>1. /\ argv \in Seq(Tokens) /\ i \in Nat \ {0} /\ Len(argv) \in Nat
    BY ProgramLemma
  <1>2. i <= Len(argv) /\ (argRet.row # 0 => d # 0)
    BY DEF AtWork, Accepted, Entry, Found
  <1>3. /\ argv[i] \in Tokens /\ d \in 0..Len(rows)
        /\ d # 0 => paramsFound \in Nat /\ i + paramsFound <= Len(argv)
    BY <1>2, ArgumentLemma
  <1>4. SubSeq(argv, i + 1, i + 0) = <<>>
    BY <1>1
  <1> HIDE DEF d, paramsFound, Accepted
  <1>5. CASE d = 0 /\ argRet = Entry(0, 0, NULL)
    <2>1. argRet \in parsedArg_t
      BY <1>2, <1>5, EntryLemma
    <2> QED
      BY <1>1, <1>2, <1>3, <1>4, <1>5, <2>1 DEF Entry, Complete, Read
  <1>6. CASE Accepted /\ paramsFound = 0 /\ argRet = Entry(d, 0, NULL)
    <2>1. argRet \in parsedArg_t /\ d # 0
      BY <1>2, <1>6, EntryLemma DEF Accepted, Found
    <2> QED
      BY <1>1, <1>2, <1>3, <1>4, <1>6, <2>1 DEF Entry, Complete, Read
  <1>7. CASE Accepted /\ paramsFound # 0 /\ argRet = Entry(d, paramsFound, Made(paramsFound))
    <2>1. d # 0
      BY <1>7 DEF Accepted, Found
    <2>2. argRet \in parsedArg_t
      BY <1>2, <1>3, <1>7, <2>1, EntryLemma
    <2>3. \A j \in 1..paramsFound : /\ argv[i + j] \in Tokens
                                    /\ Made(paramsFound)[j] = argv[i + j]
      BY <1>2, <1>3, <2>1, MadeLemma
    <2>4. Made(paramsFound) = [j \in 1..paramsFound |-> argv[i + j]]
      BY <1>2, <1>3, <2>1, <2>3 DEF Made
    <2>5. Made(paramsFound) \in Seq(Tokens) /\ Len(Made(paramsFound)) = paramsFound
      <3>1. paramsFound \in Nat /\ \A j \in 1..paramsFound : argv[i + j] \in Tokens
        BY <1>3, <2>1, <2>3
      <3>2. /\ [j \in 1..paramsFound |-> argv[i + j]] \in Seq(Tokens)
            /\ Len([j \in 1..paramsFound |-> argv[i + j]]) = paramsFound
        BY ONLY <3>1
      <3> QED
        BY <2>4, <3>2
    <2>6. SubSeq(argv, i + 1, i + paramsFound) = [j \in 1..paramsFound |-> argv[i + j]]
      BY <1>1, <1>3, <2>1
    <2>7. Made(paramsFound) # NULL
      BY <1>3, <2>1, <1>2, MadeLemma, NullAssumption DEF Tokens
    <2> HIDE DEF Made
    <2> QED
      BY <1>1, <1>2, <1>3, <1>7, <2>1, <2>2, <2>4, <2>5, <2>6, <2>7 DEF Entry, Complete, Read
  <1> QED
    BY <1>5, <1>6, <1>7 DEF AtWork

----------------------------------------------------------------------------
(* The steps.                                                               *)

\* The countdown stops at -1.
LEMMA CountedLemma == allocCount \in -1..MaxArm => Counted \in -1..MaxArm
  BY MaxArmAssumption DEF Counted

\* Every entry stays complete, and there are never more than arguments read.
LEMMA TypesStep == Types /\ AtWork /\ [Next]_vars => Types'
  <1> SUFFICES ASSUME Types, AtWork, [Next]_vars PROVE Types'
    OBVIOUS
  <1>1. /\ prog' = prog /\ argv' = argv
    BY DEF Next, parseArguments, main, AllocRet, AllocArg, AllocValue, DropDuplicate,
       CountParams, AllocParams, AllocParam, Push, AllocResult, OutOfMemory, BadlyFormed,
       NotEnoughParams, GiveUp, Release, Refuse, AllocTests, AllocTestsFails, NoTests,
       ShrinkTests, ShrinkTestsFails, GetCwd, GetCwdFails, Finish, Exit, vars
  <1>2. allocCount' \in -1..MaxArm
    <2>1. allocCount' = allocCount \/ allocCount' = Counted
      BY DEF Next, parseArguments, main, AllocRet, AllocArg, AllocValue, DropDuplicate,
         CountParams, AllocParams, AllocParam, Push, AllocResult, OutOfMemory, BadlyFormed,
         NotEnoughParams, Release, Refuse, AllocTests, AllocTestsFails, NoTests,
         ShrinkTests, ShrinkTestsFails, GetCwd, GetCwdFails, Finish, vars, Malloc, MallocFails
    <2> QED
      BY <2>1, CountedLemma DEF Types
  <1>3. rows' = rows /\ rows \in Seq(Parser!arg_t) /\ i \in Nat /\ Len(ret) \in Nat
        /\ Len(argv) \in Nat
    BY <1>1, ProgramLemma DEF rows, Parser!rows
  <1>4. CASE DropDuplicate
    <2>1. i <= Len(argv) /\ i' = i + 1 /\ ret' = ret
      BY <1>4 DEF DropDuplicate, AtWork
    <2> QED
      BY <1>1, <1>2, <1>3, <2>1 DEF Types, Complete
  <1>5. CASE Push
    <2> DEFINE f == argRet.paramsFound
    <2>1. /\ argRet \in parsedArg_t /\ Complete(argRet)
          /\ f \in Nat /\ i + f <= Len(argv)
      BY <1>5, PushLemma DEF Push
    <2>2. i' = i + f + 1 /\ ret' = Append(ret, argRet)
      BY <1>5 DEF Push, Behind
    <2>3. ret \in Seq(parsedArg_t) /\ Len(ret) < i /\ \A k \in DOMAIN ret : Complete(ret[k])
      BY DEF Types
    <2>4. /\ ret' \in Seq(parsedArg_t) /\ Len(ret') = Len(ret) + 1 /\ DOMAIN ret' = 1..Len(ret) + 1
          /\ \A k \in DOMAIN ret' : ret'[k] = argRet \/ (k \in DOMAIN ret /\ ret'[k] = ret[k])
      BY <2>1, <2>2, <2>3
    <2>5. \A a : Complete(a) <=> Complete(a)'
      BY <1>3 DEF Complete
    <2>6. \A k \in DOMAIN ret' : Complete(ret'[k])
      BY <2>1, <2>3, <2>4
    <2>7. \A k \in DOMAIN ret' : Complete(ret[k])'
      BY <1>3, <2>6 DEF Complete
    <2>8. i' \in 1..Len(argv) + 1 /\ Len(ret') < i'
      <3> HIDE DEF f
      <3> QED
        BY <1>3, <2>1, <2>2, <2>3, <2>4
    <2> QED
      BY <1>1, <1>2, <2>4, <2>7, <2>8 DEF Types
  <1>6. CASE GiveUp
    BY <1>1, <1>2, <1>3, <1>6 DEF GiveUp, Types
  <1>7. CASE UNCHANGED <<i, ret>>
    BY <1>1, <1>2, <1>3, <1>7 DEF Types, Complete
  <1>8. Push \/ DropDuplicate \/ GiveUp \/ UNCHANGED <<i, ret>>
    BY DEF Next, parseArguments, main, AllocRet, AllocArg, AllocValue,
       CountParams, AllocParams, AllocParam, AllocResult, OutOfMemory, BadlyFormed,
       NotEnoughParams, Release, Refuse, AllocTests, AllocTestsFails, NoTests,
       ShrinkTests, ShrinkTestsFails, GetCwd, GetCwdFails, Finish, Exit, vars
  <1> QED
    BY <1>4, <1>5, <1>6, <1>7, <1>8

\* The arrays there are go with where the program is.
LEMMA StagesStep == Stages /\ [Next]_vars => Stages'
  <1> SUFFICES ASSUME Stages, [Next]_vars PROVE Stages'
    OBVIOUS
  <1>1. CASE parseArguments
    <2>1. CASE AllocRet \/ AllocArg \/ AllocValue \/ DropDuplicate \/ CountParams
               \/ AllocParams \/ AllocParam \/ Push
      BY <2>1 DEF Stages, Reading, AllocRet, AllocArg, AllocValue, DropDuplicate,
         CountParams, AllocParams, AllocParam, Push
    <2>2. CASE AllocResult
      BY <2>2 DEF Stages, Reading, AllocResult
    <2>3. CASE GiveUp
      BY <2>3 DEF Stages, Reading, GiveUp
    <2> QED
      BY <1>1, <2>1, <2>2, <2>3 DEF parseArguments, OutOfMemory, BadlyFormed, NotEnoughParams
  <1>2. CASE main
    <2>1. CASE AllocTests \/ ShrinkTests \/ GetCwd \/ GetCwdFails
      BY <2>1 DEF Stages, Reading, AllocTests, Engaged, ShrinkTests, GetCwd, GetCwdFails
    <2>2. CASE Release \/ Refuse \/ AllocTestsFails \/ NoTests \/ ShrinkTestsFails \/ Finish
      BY <2>2 DEF Stages, Reading, Release, Refuse, AllocTestsFails, Engaged, NoTests,
         ShrinkTestsFails, Finish, Exit
    <2> QED
      BY <1>2, <2>1, <2>2 DEF main
  <1>3. CASE UNCHANGED vars
    BY <1>3 DEF Stages, vars
  <1> QED
    BY <1>1, <1>2, <1>3 DEF Next

\* What is accepted stays accepted until it is pushed.
LEMMA SameAccepted ==
  ASSUME Types, i <= Len(argv), d # 0, UNCHANGED <<prog, argv, i, ret>>, Types'
  PROVE  /\ d' = d /\ paramsFound' = paramsFound /\ rows' = rows
         /\ Accepted' <=> Accepted
         /\ \A m : Made(m)' = Made(m)
         /\ \A x, f, p : Entry(x, f, p)' = Entry(x, f, p)
  <1>1. /\ d' = d /\ rows' = rows /\ (Found' <=> Found) /\ paramsFound' = paramsFound
        /\ Enough' <=> Enough
    BY SameArgument
  <1>2. Parser!IsDuplicate(d)' <=> Parser!IsDuplicate(d)
    BY <1>1 DEF Parser!IsDuplicate, Parser!checkAlreadyFound, rows
  <1>3. Accepted' <=> Accepted
    BY <1>1, <1>2 DEF Accepted
  <1>4. \A m : Made(m)' = Made(m)
    BY <1>1 DEF Made
  <1>5. \A x, f, p : Entry(x, f, p)' = Entry(x, f, p)
    BY DEF Entry
  <1> QED
    BY <1>1, <1>3, <1>4, <1>5

\* The entry at work is made in the order of the code, part by part.
LEMMA AtWorkStep == Types /\ AtWork /\ Stages /\ [Next]_vars => AtWork'
  <1> SUFFICES ASSUME Types, AtWork, Stages, [Next]_vars PROVE AtWork'
    OBVIOUS
  <1>1. Types'
    BY TypesStep
  <1>2. CASE AllocArg
    BY <1>2 DEF AllocArg, AtWork, Blank
  <1>3. CASE AllocValue
    <2>1. i <= Len(argv) /\ argRet = Blank /\ UNCHANGED <<prog, argv, i, ret>>
      BY <1>3 DEF AllocValue, AtWork
    <2>2. d' = d /\ (Found' <=> Found)
      BY <1>1, <2>1, SameArgument
    <2>3. argRet' = Entry(0, 0, NULL)'
      BY <1>3, <2>1 DEF AllocValue, Blank, Entry
    <2>4. CASE Found
      BY <1>3, <2>1, <2>2, <2>3, <2>4 DEF AllocValue, AtWork
    <2>5. CASE ~Found
      BY <1>3, <2>1, <2>2, <2>3, <2>5 DEF AllocValue, AtWork, Formed
    <2> QED
      BY <2>4, <2>5
  <1>4. CASE CountParams
    <2>1. /\ i <= Len(argv) /\ argRet = Entry(0, 0, NULL) /\ UNCHANGED <<prog, argv, i, ret>>
          /\ d # 0 /\ Accepted
      BY <1>4 DEF CountParams, AtWork, Accepted, Found
    <2>2. /\ d' = d /\ paramsFound' = paramsFound /\ Accepted'
          /\ \A x, f, p : Entry(x, f, p)' = Entry(x, f, p)
      BY <1>1, <2>1, SameAccepted
    <2>3. argRet' = Entry(d, paramsFound, NULL)
      BY <1>4, <2>1 DEF CountParams, Entry
    <2>4. pc' = IF paramsFound = 0 THEN "push" ELSE "params"
      BY <1>4 DEF CountParams
    <2> HIDE DEF Accepted
    <2>5. CASE paramsFound = 0
      BY <2>2, <2>3, <2>4, <2>5 DEF AtWork
    <2>6. CASE paramsFound # 0
      BY <2>2, <2>3, <2>4, <2>6 DEF AtWork
    <2> QED
      BY <2>5, <2>6
  <1>5. CASE AllocParams
    <2>1. /\ i <= Len(argv) /\ UNCHANGED <<prog, argv, i, ret>> /\ d # 0 /\ Accepted
          /\ argRet = Entry(d, paramsFound, NULL) /\ paramsFound # 0 /\ pc' = "param"
      BY <1>5 DEF AllocParams, AtWork, Accepted, Found
    <2>2. /\ d' = d /\ paramsFound' = paramsFound /\ Accepted'
          /\ \A m : Made(m)' = Made(m)
          /\ \A x, f, p : Entry(x, f, p)' = Entry(x, f, p)
      BY <1>1, <2>1, SameAccepted
    <2>3. paramsFound \in Nat
      BY <2>1, ArgumentLemma
    <2>4. Made(0) = [j \in 1..paramsFound |-> NULL]
      BY <2>3 DEF Made
    <2>5. argRet' = Entry(d, paramsFound, Made(0))
      BY <1>5, <2>1, <2>4 DEF AllocParams, Entry
    <2>6. 0 \in 0..paramsFound - 1
      BY <2>1, <2>3
    <2>7. \E m \in 0..paramsFound' - 1 : argRet' = Entry(d, paramsFound, Made(m))'
      BY <2>2, <2>5, <2>6
    <2> QED
      BY <2>1, <2>2, <2>7 DEF AtWork
  <1>6. CASE AllocParam
    <2>1. /\ i <= Len(argv) /\ UNCHANGED <<prog, argv, i, ret>> /\ d # 0 /\ Accepted
      BY <1>6 DEF AllocParam, AtWork, Accepted, Found
    <2>2. PICK m \in 0..paramsFound - 1 : argRet = Entry(d, paramsFound, Made(m))
      BY <1>6 DEF AllocParam, AtWork
    <2>3. PICK j \in DOMAIN argRet.params :
            /\ argRet.params[j] = NULL /\ \A h \in 1..j - 1 : argRet.params[h] # NULL
            /\ argRet' = [argRet EXCEPT !.params[j] = argv[i + j]]
            /\ pc' = IF j = argRet.paramsFound THEN "push" ELSE "param"
      BY <1>6 DEF AllocParam
    <2>4. /\ d' = d /\ paramsFound' = paramsFound /\ Accepted'
          /\ \A k : Made(k)' = Made(k)
          /\ \A x, f, p : Entry(x, f, p)' = Entry(x, f, p)
      BY <1>1, <2>1, SameAccepted
    <2>5. /\ DOMAIN Made(m) = 1..paramsFound /\ paramsFound \in Nat
          /\ \A k \in 1..paramsFound : /\ argv[i + k] # NULL
                                       /\ Made(m)[k] = IF k <= m THEN argv[i + k] ELSE NULL
      BY <2>1, <2>2, ArgumentLemma, MadeLemma
    <2>6. /\ j \in 1..paramsFound /\ Made(m)[j] = NULL
          /\ \A h \in 1..j - 1 : Made(m)[h] # NULL
      BY <2>2, <2>3, <2>5 DEF Entry
    <2>7. j = m + 1
      <3>1. ~(j <= m)
        BY <2>5, <2>6
      <3>2. ~(j > m + 1)
        <4> SUFFICES ASSUME j > m + 1 PROVE FALSE
          OBVIOUS
        <4>1. m + 1 \in 1..j - 1 /\ m + 1 \in 1..paramsFound
          BY <2>2, <2>5, <2>6
        <4> QED
          BY <2>2, <2>5, <2>6, <4>1
      <3> QED
        BY <2>2, <2>5, <2>6, <3>1, <3>2
    <2>8. [Made(m) EXCEPT ![j] = argv[i + j]] = Made(j)
      <3>1. \A k \in 1..paramsFound : (IF k = j THEN argv[i + j] ELSE Made(m)[k])
                                      = IF k <= j THEN argv[i + k] ELSE NULL
        BY <2>2, <2>5, <2>7
      <3>2. [Made(m) EXCEPT ![j] = argv[i + j]]
            = [k \in 1..paramsFound |-> IF k = j THEN argv[i + j] ELSE Made(m)[k]]
        BY <2>5, <2>6
      <3> QED
        BY <3>1, <3>2 DEF Made
    <2>9. argRet' = Entry(d, paramsFound, Made(j)) /\ argRet.paramsFound = paramsFound
      BY <2>2, <2>3, <2>8 DEF Entry
    <2>10. CASE j = paramsFound
      BY <2>3, <2>4, <2>5, <2>6, <2>9, <2>10 DEF AtWork
    <2>11. CASE j # paramsFound
      <3>1. j \in 0..paramsFound - 1
        BY <2>5, <2>6, <2>11
      <3>2. \E k \in 0..paramsFound' - 1 : argRet' = Entry(d, paramsFound, Made(k))'
        BY <2>4, <2>9, <3>1
      <3> QED
        BY <2>3, <2>4, <2>9, <2>11, <3>2 DEF AtWork
    <2> QED
      BY <2>10, <2>11
  <1>7. CASE Push \/ DropDuplicate \/ GiveUp
    BY <1>7 DEF Push, DropDuplicate, GiveUp, AtWork
  <1>8. CASE AllocRet \/ AllocResult
    BY <1>8 DEF AllocRet, AllocResult, AtWork
  <1>9. CASE main
    BY <1>9 DEF main, AtWork, Release, Refuse, AllocTests, AllocTestsFails, NoTests, Engaged,
       ShrinkTests, ShrinkTestsFails, GetCwd, GetCwdFails, Finish, Exit
  <1>10. CASE UNCHANGED vars
    <2>1. /\ UNCHANGED <<prog, argv, i, ret>> /\ argRet' = argRet /\ pc' = pc
      BY <1>10 DEF vars
    <2>2. CASE pc \notin {"value", "check", "params", "param", "push"}
      BY <2>1, <2>2 DEF AtWork
    <2>3. CASE pc = "value"
      BY <2>1, <2>3 DEF AtWork, Blank
    <2>4. CASE pc \in {"check", "params", "param", "push"}
      <3>1. i <= Len(argv) /\ Entry(0, 0, NULL)' = Entry(0, 0, NULL)
        BY <2>1, <2>4 DEF AtWork, Accepted, Entry
      <3>2. (Found' <=> Found) /\ d' = d
        BY <1>1, <2>1, <3>1, SameArgument
      <3>3. CASE d = 0
        BY <2>1, <2>4, <3>1, <3>2, <3>3 DEF AtWork, Accepted, Found
      <3>4. CASE d # 0
        <4>1. /\ d' = d /\ paramsFound' = paramsFound /\ (Accepted' <=> Accepted)
              /\ \A m : Made(m)' = Made(m)
              /\ \A x, f, p : Entry(x, f, p)' = Entry(x, f, p)
          BY <1>1, <2>1, <3>1, <3>4, SameAccepted
        <4> QED
          BY <2>1, <2>4, <3>1, <3>2, <4>1 DEF AtWork
      <3> QED
        BY <3>3, <3>4
    <2> QED
      BY <2>2, <2>3, <2>4
  <1> QED
    BY <1>2, <1>3, <1>4, <1>5, <1>6, <1>7, <1>8, <1>9, <1>10
    DEF Next, parseArguments, OutOfMemory, BadlyFormed, NotEnoughParams

----------------------------------------------------------------------------
(* The memory.                                                              *)

\* The blocks of an entry, as freeParsedArg() goes through them.
LEMMA OwnedLemma ==
  ASSUME NEW k, NEW a
  PROVE  Owned(k, a) =
           {<<"arg", k, 0>>}
           \cup (IF a.value = NULL THEN {} ELSE {<<"value", k, 0>>})
           \cup (IF a.params = NULL THEN {}
                 ELSE {<<"params", k, 0>>}
                      \cup {<<"param", k, j>> : j \in {h \in DOMAIN a.params : a.params[h] # NULL}})
  BY DEF Owned

\* freeParsedArg() frees what there is of an entry, and no more.
LEMMA FreedLemma ==
  ASSUME NEW k, NEW a, a.params = NULL \/ DOMAIN a.params = 1..a.paramsFound
  PROVE  freeParsedArg(k, a) = Owned(k, a)
  BY OwnedLemma DEF freeParsedArg

\* Each entry has its own blocks.
LEMMA NamesLemma ==
  ASSUME NEW k, NEW a, NEW b \in Owned(k, a)
  PROVE  b[2] = k
  BY OwnedLemma

\* What can be reached but for the entry at work.
Arrays == {Array(a) : a \in arrays}
OwnedByRet == UNION {Owned(k, ret[k]) : k \in DOMAIN ret}
Rest == Arrays \cup (IF arrays \cap {"ret", "result"} = {} THEN {} ELSE OwnedByRet)

\* What can be reached is that and the entry at work.
LEMMA ReachableLemma ==
  Reachable = Rest \cup (IF argRet = NULL THEN {} ELSE Owned(n, argRet))
  BY DEF Reachable, Rest, Arrays, OwnedByRet

\* The blocks of the entry at work are those of no other, and of no array.
LEMMA ApartLemma ==
  ASSUME Types
  PROVE  /\ Entries = OwnedByRet
         /\ \A b \in OwnedByRet : b[2] \in 1..Len(ret)
         /\ \A x : Array(x)[2] = 0
         /\ \A a : \A b \in Owned(n, a) : b \notin Rest
  <1>1. \A k \in DOMAIN ret : ret[k].params = NULL \/ DOMAIN ret[k].params = 1..ret[k].paramsFound
    BY DEF Types, Complete
  <1>2. \A k \in DOMAIN ret : freeParsedArg(k, ret[k]) = Owned(k, ret[k])
    BY <1>1, FreedLemma
  <1>3. Entries = OwnedByRet
    BY <1>2 DEF Entries, OwnedByRet
  <1>4. \A b \in OwnedByRet : b[2] \in 1..Len(ret)
    <2>1. DOMAIN ret = 1..Len(ret)
      BY DEF Types
    <2> QED
      BY <2>1, NamesLemma DEF OwnedByRet
  <1>5. \A x : Array(x)[2] = 0
    BY DEF Array
  <1>6. ASSUME NEW a, NEW b \in Owned(n, a) PROVE b \notin Rest
    <2>1. b[2] = n /\ n = Len(ret) + 1 /\ Len(ret) \in Nat
      BY <1>6, NamesLemma, ProgramLemma
    <2> QED
      BY <1>4, <1>5, <2>1 DEF Rest, Arrays
  <1> QED
    BY <1>3, <1>4, <1>5, <1>6

\* What the clean-up paths free is the entry at work, whatever there is of it.
LEMMA PendingLemma ==
  ASSUME Types, AtWork
  PROVE  Pending = IF argRet = NULL THEN {} ELSE Owned(n, argRet)
  <1>1. CASE argRet = NULL
    BY <1>1 DEF Pending
  <1>2. CASE argRet # NULL
    <2>1. argRet.params = NULL \/ DOMAIN argRet.params = 1..argRet.paramsFound
      <3>1. CASE pc = "param"
        <4>1. i <= Len(argv) /\ d # 0
          BY <3>1 DEF AtWork, Accepted, Found
        <4>2. PICK m \in 0..paramsFound - 1 : argRet = Entry(d, paramsFound, Made(m))
          BY <3>1 DEF AtWork
        <4>3. paramsFound \in Nat
          BY <4>1, ArgumentLemma
        <4>4. DOMAIN Made(m) = 1..paramsFound
          BY <4>1, <4>2, <4>3, MadeLemma
        <4> QED
          BY <4>2, <4>4 DEF Entry
      <3>2. CASE pc = "push"
        BY <3>2, PushLemma DEF Complete
      <3>3. CASE pc \notin {"param", "push"}
        BY <1>2, <3>3 DEF AtWork, Entry, Blank
      <3> QED
        BY <3>1, <3>2, <3>3
    <2> QED
      BY <1>2, <2>1, FreedLemma DEF Pending
  <1> QED
    BY <1>1, <1>2

\* A block more, and a variable that points at it.
LEMMA MallocStep ==
  ASSUME live = Reachable, NEW b, Malloc(b), Reachable' = Reachable \cup {b},
         NothingFreedTwice
  PROVE  NothingFreedTwice' /\ NothingLeaked'
  BY DEF Malloc, NothingFreedTwice, NothingLeaked

\* Freeing everything there is leaves nothing, and nothing to free.
LEMMA FreeAllStep ==
  ASSUME live = Reachable, Free(Reachable), Reachable' = {}, NothingFreedTwice
  PROVE  NothingFreedTwice' /\ NothingLeaked'
  BY DEF Free, NothingFreedTwice, NothingLeaked

\* The parser's clean-up frees all there is while it reads.
LEMMA GiveUpStep ==
  ASSUME Types, AtWork, Stages, NothingFreedTwice, live = Reachable,
         pc \in Reading \cup {"ret"}, GiveUp
  PROVE  NothingFreedTwice' /\ NothingLeaked'
  <1>1. Reachable' = {}
    BY DEF GiveUp, Reachable
  <1>2. Pending \cup freeParsedArgs("ret") = Reachable
    <2>1. /\ Pending = IF argRet = NULL THEN {} ELSE Owned(n, argRet)
          /\ Entries = OwnedByRet
      BY PendingLemma, ApartLemma
    <2>2. freeParsedArgs("ret") = Rest
      <3>1. CASE arrays = {"ret"}
        BY <2>1, <3>1 DEF freeParsedArgs, Rest, Arrays
      <3>2. CASE arrays = {}
        BY <3>2 DEF freeParsedArgs, Rest, Arrays
      <3> QED
        BY <3>1, <3>2 DEF Stages
    <2> QED
      BY <2>1, <2>2, ReachableLemma
  <1> QED
    BY <1>1, <1>2, FreeAllStep DEF GiveUp

\* The steps of parseArguments() that do not end it.
LEMMA ParsingStep ==
  ASSUME Types, AtWork, Stages, NothingFreedTwice, NothingLeaked,
         AllocRet \/ AllocArg \/ AllocValue \/ AllocParams \/ AllocParam
  PROVE  NothingFreedTwice' /\ NothingLeaked'
  <1>1. live = Reachable
    BY DEF NothingLeaked, AllocRet, AllocArg, AllocValue, AllocParams, AllocParam
  <1>2. CASE AllocRet
    <2>1. Reachable' = Reachable \cup {Array("ret")}
      BY <1>2 DEF AllocRet, AtWork, Stages, Reachable
    <2> QED
      BY <1>1, <1>2, <2>1, MallocStep DEF AllocRet
  <1>3. ASSUME UNCHANGED <<arrays, ret>>, NEW b, Malloc(b), argRet' # NULL,
               Owned(n, argRet') = (IF argRet = NULL THEN {} ELSE Owned(n, argRet)) \cup {b}
        PROVE  NothingFreedTwice' /\ NothingLeaked'
    <2>1. Rest' = Rest /\ n' = n
      BY <1>3 DEF Rest, Arrays, OwnedByRet, n
    <2>2. Reachable' = Rest' \cup (IF argRet' = NULL THEN {} ELSE Owned(n', argRet'))
      BY ReachableLemma DEF Reachable, Rest, Arrays, OwnedByRet, Owned
    <2>3. Reachable' = Reachable \cup {b}
      BY <1>3, <2>1, <2>2, ReachableLemma
    <2> QED
      BY <1>1, <1>3, <2>3, MallocStep
  <1>4. CASE AllocArg
    <2>1. argRet = NULL /\ argRet' = Blank /\ UNCHANGED <<arrays, ret>> /\ i <= Len(argv)
      BY <1>4 DEF AllocArg, AtWork, Blank
    <2>2. Blank # NULL
      BY <2>1, EntryLemma
    <2>3. Owned(n, Blank) = {<<"arg", n, 0>>}
      BY OwnedLemma DEF Blank
    <2> QED
      BY <1>3, <1>4, <2>1, <2>2, <2>3 DEF AllocArg
  <1>5. CASE AllocValue
    <2>1. /\ argRet = Blank /\ argRet' = Entry(0, 0, NULL) /\ UNCHANGED <<arrays, ret>>
          /\ i <= Len(argv)
      BY <1>5 DEF AllocValue, AtWork, Blank, Entry
    <2>2. Blank # NULL /\ Entry(0, 0, NULL) # NULL /\ argv[i] # NULL
      BY <2>1, EntryLemma, ArgumentLemma, NullAssumption DEF Tokens
    <2>3. /\ Owned(n, Blank) = {<<"arg", n, 0>>}
          /\ Owned(n, Entry(0, 0, NULL)) = {<<"arg", n, 0>>} \cup {<<"value", n, 0>>}
      BY <2>2, OwnedLemma DEF Blank, Entry
    <2> QED
      BY <1>3, <1>5, <2>1, <2>2, <2>3 DEF AllocValue
  <1>6. CASE AllocParams
    <2>1. /\ argRet = Entry(d, paramsFound, NULL) /\ UNCHANGED <<arrays, ret>>
          /\ i <= Len(argv) /\ d # 0
      BY <1>6 DEF AllocParams, AtWork, Accepted, Found
    <2> DEFINE none == [j \in 1..paramsFound |-> NULL]
    <2>2. paramsFound \in Nat
      BY <2>1, ArgumentLemma
    <2>3. none \in Seq(OrNULL(Tokens))
      <3>1. NULL \in OrNULL(Tokens)
        BY DEF OrNULL
      <3> HIDE DEF paramsFound
      <3> QED
        BY <2>2, <3>1
    <2>4. none # NULL /\ Entry(d, paramsFound, NULL) # NULL
      BY <2>1, <2>3, EntryLemma, NullAssumption DEF Tokens
    <2>5. argRet' = Entry(d, paramsFound, none)
      BY <1>6, <2>1 DEF AllocParams, Entry
    <2>6. DOMAIN none = 1..paramsFound /\ \A j \in DOMAIN none : none[j] = NULL
      OBVIOUS
    <2> HIDE DEF none
    <2>7. Owned(n, Entry(d, paramsFound, none))
          = Owned(n, Entry(d, paramsFound, NULL)) \cup {<<"params", n, 0>>}
      BY <2>4, <2>6, OwnedLemma DEF Entry
    <2>8. Entry(d, paramsFound, none) # NULL
      <3>1. Entry(d, paramsFound, none) \in parsedArg_t
        BY <2>1, <2>2, <2>3, ArgumentLemma DEF Entry, parsedArg_t, OrNULL, Tokens
      <3> QED
        BY <3>1, NullAssumption
    <2> QED
      BY <1>3, <1>6, <2>1, <2>4, <2>5, <2>7, <2>8 DEF AllocParams
  <1>7. CASE AllocParam
    <2>1. /\ UNCHANGED <<arrays, ret>> /\ i <= Len(argv) /\ d # 0
      BY <1>7 DEF AllocParam, AtWork, Accepted, Found
    <2>2. PICK m \in 0..paramsFound - 1 : argRet = Entry(d, paramsFound, Made(m))
      BY <1>7 DEF AllocParam, AtWork
    <2>3. PICK j \in DOMAIN argRet.params :
            /\ argRet.params[j] = NULL /\ Malloc(<<"param", n, j>>)
            /\ argRet' = [argRet EXCEPT !.params[j] = argv[i + j]]
      BY <1>7 DEF AllocParam
    <2> DEFINE old == Made(m)
               new == [old EXCEPT ![j] = argv[i + j]]
    <2>4. /\ old \in Seq(OrNULL(Tokens)) /\ DOMAIN old = 1..paramsFound
          /\ j \in 1..paramsFound /\ old[j] = NULL /\ paramsFound \in Nat
          /\ argv[i + j] \in Tokens /\ argv[i + j] # NULL
      BY <2>1, <2>2, <2>3, ArgumentLemma, MadeLemma DEF Entry
    <2>5. argRet' = Entry(d, paramsFound, new)
      BY <2>2, <2>3 DEF Entry
    <2> HIDE DEF old
    <2>6. new \in Seq(OrNULL(Tokens)) /\ DOMAIN new = DOMAIN old
      BY <2>4 DEF OrNULL
    <2>7. old # NULL /\ new # NULL
      BY <2>4, <2>6, NullAssumption DEF Tokens
    <2>8. {h \in DOMAIN new : new[h] # NULL} = {h \in DOMAIN old : old[h] # NULL} \cup {j}
      BY <2>4
    <2> HIDE DEF new
    <2>9. Owned(n, Entry(d, paramsFound, new))
          = Owned(n, Entry(d, paramsFound, old)) \cup {<<"param", n, j>>}
      BY <2>7, <2>8, OwnedLemma DEF Entry
    <2>10. argRet # NULL /\ argRet' # NULL /\ argRet = Entry(d, paramsFound, old)
      <3>1. \A p \in Seq(OrNULL(Tokens)) : Entry(d, paramsFound, p) \in parsedArg_t
        BY <2>1, <2>4, ArgumentLemma DEF Entry, parsedArg_t, OrNULL, Tokens
      <3> QED
        BY <2>2, <2>4, <2>5, <2>6, <3>1, NullAssumption DEF old
    <2> QED
      BY <1>3, <2>1, <2>3, <2>5, <2>9, <2>10
  <1> QED
    BY <1>2, <1>4, <1>5, <1>6, <1>7


\* The steps of parseArguments() between two entries, and the one that ends it.
LEMMA EntryStep ==
  ASSUME Types, AtWork, Stages, NothingFreedTwice, NothingLeaked,
         DropDuplicate \/ CountParams \/ Push \/ AllocResult
  PROVE  NothingFreedTwice' /\ NothingLeaked'
  <1>1. live = Reachable /\ arrays = {"ret"} /\ wrong = {}
    BY DEF NothingLeaked, NothingFreedTwice, Stages, Reading, DropDuplicate, CountParams, Push,
       AllocResult
  <1>2. Rest = {Array("ret")} \cup OwnedByRet
    BY <1>1 DEF Rest, Arrays
  <1>3. Reachable' = Rest' \cup (IF argRet' = NULL THEN {} ELSE Owned(n', argRet'))
    BY DEF Reachable, Rest, Arrays, OwnedByRet, Owned
  <1>4. CASE DropDuplicate
    <2>1. Rest' = Rest /\ argRet' = NULL
      BY <1>4 DEF DropDuplicate, Rest, Arrays, OwnedByRet
    <2>2. Reachable' = Rest
      BY <1>3, <2>1
    <2>3. Pending \subseteq live /\ live \ Pending = Rest
      BY <1>1, ReachableLemma, PendingLemma, ApartLemma
    <2>4. live' = live \ Pending /\ wrong' = wrong \cup (Pending \ live)
      BY <1>4 DEF DropDuplicate, Free
    <2> QED
      BY <1>1, <2>2, <2>3, <2>4 DEF NothingFreedTwice, NothingLeaked
  <1>5. CASE CountParams
    <2>1. /\ argRet = Entry(0, 0, NULL) /\ i <= Len(argv) /\ d # 0
          /\ argRet' = Entry(d, paramsFound, NULL)
          /\ UNCHANGED <<ret, arrays, live, wrong>>
      <3>1. /\ argRet = Entry(0, 0, NULL) /\ i <= Len(argv) /\ d # 0
            /\ UNCHANGED <<ret, arrays, live, wrong>>
        BY <1>5 DEF CountParams, AtWork, Found
      <3>2. argRet' = [argRet EXCEPT !.row = d, !.paramsFound = paramsFound]
        BY <1>5 DEF CountParams
      <3> QED
        BY <3>1, <3>2 DEF Entry
    <2>2. argRet # NULL /\ argRet' # NULL
      <3>1. Entry(d, paramsFound, NULL) \in parsedArg_t
        BY <2>1, EntryLemma
      <3> QED
        BY <2>1, <3>1, EntryLemma, NullAssumption
    <2>3. Owned(n, argRet') = Owned(n, argRet)
      BY <2>1, OwnedLemma DEF Entry
    <2>4. Rest' = Rest /\ n' = n
      BY <2>1 DEF Rest, Arrays, OwnedByRet, n
    <2> QED
      BY <1>1, <1>3, <2>1, <2>2, <2>3, <2>4, ReachableLemma DEF NothingFreedTwice, NothingLeaked
  <1>6. CASE Push
    <2>1. /\ ret' = Append(ret, argRet) /\ argRet' = NULL /\ UNCHANGED <<arrays, live, wrong>>
      BY <1>6 DEF Push
    <2>2. argRet # NULL /\ argRet \in parsedArg_t /\ ret \in Seq(parsedArg_t)
      BY <1>6, PushLemma, NullAssumption DEF Push, Types
    <2>3. /\ DOMAIN ret = 1..Len(ret) /\ DOMAIN ret' = 1..n /\ n = Len(ret) + 1 /\ Len(ret) \in Nat
          /\ ret'[n] = argRet /\ \A k \in 1..Len(ret) : ret'[k] = ret[k]
      BY <2>1, <2>2 DEF n
    <2>4. OwnedByRet' = UNION {Owned(k, ret'[k]) : k \in DOMAIN ret'}
      BY DEF OwnedByRet, Owned
    <2>5. OwnedByRet' = OwnedByRet \cup Owned(n, argRet)
      <3>1. ASSUME NEW b \in OwnedByRet' PROVE b \in OwnedByRet \cup Owned(n, argRet)
        <4>1. PICK k \in 1..n : b \in Owned(k, ret'[k])
          BY <2>3, <2>4, <3>1
        <4>2. CASE k = n
          BY <2>3, <4>1, <4>2
        <4>3. CASE k # n
          BY <2>3, <4>1, <4>3 DEF OwnedByRet
        <4> QED
          BY <4>2, <4>3
      <3>2. ASSUME NEW b \in Owned(n, argRet) PROVE b \in OwnedByRet'
        <4>1. n \in DOMAIN ret' /\ b \in Owned(n, ret'[n])
          BY <2>3, <3>2
        <4> QED
          BY <2>4, <4>1
      <3>3. ASSUME NEW b \in OwnedByRet PROVE b \in OwnedByRet'
        <4>1. PICK k \in 1..Len(ret) : b \in Owned(k, ret[k])
          BY <2>3, <3>3 DEF OwnedByRet
        <4>2. k \in DOMAIN ret' /\ b \in Owned(k, ret'[k])
          BY <2>3, <4>1
        <4> QED
          BY <2>4, <4>2
      <3> QED
        BY <3>1, <3>2, <3>3
    <2>6. Rest' = {Array("ret")} \cup OwnedByRet'
      BY <1>1, <2>1 DEF Rest, Arrays
    <2> QED
      BY <1>1, <1>2, <1>3, <2>1, <2>2, <2>5, <2>6, ReachableLemma
      DEF NothingFreedTwice, NothingLeaked
  <1>7. CASE AllocResult
    <2>1. /\ argRet = NULL /\ argRet' = NULL /\ ret' = ret /\ arrays' = {"result"}
          /\ live' = (live \cup {Array("result")}) \ {Array("ret")}
          /\ wrong' = wrong \cup ({Array("ret")} \ live)
      BY <1>7 DEF AllocResult, AtWork
    <2>2. OwnedByRet' = OwnedByRet
      BY <2>1 DEF OwnedByRet
    <2>3. Rest' = {Array("result")} \cup OwnedByRet
      BY <2>1, <2>2 DEF Rest, Arrays
    <2>4. Array("ret") \notin OwnedByRet /\ Array("ret") # Array("result")
      <3>1. /\ \A b \in OwnedByRet : b[2] \in 1..Len(ret)
            /\ \A x : Array(x)[2] = 0
        BY ApartLemma
      <3> QED
        BY <3>1, ProgramLemma DEF Array
    <2> QED
      BY <1>1, <1>2, <1>3, <2>1, <2>3, <2>4, ReachableLemma DEF NothingFreedTwice, NothingLeaked
  <1> QED
    BY <1>4, <1>5, <1>6, <1>7

\* main() and getTests(), which own what was read.
LEMMA MainStep ==
  ASSUME Types, AtWork, Stages, NothingFreedTwice, NothingLeaked, main
  PROVE  NothingFreedTwice' /\ NothingLeaked'
  <1>1. live = Reachable /\ wrong = {} /\ argRet = NULL
    BY DEF NothingLeaked, NothingFreedTwice, AtWork, main, Release, Refuse, AllocTests,
       AllocTestsFails, Engaged, NoTests, ShrinkTests, ShrinkTestsFails, GetCwd, GetCwdFails, Finish
  <1>2. live = Rest /\ Entries = OwnedByRet
    BY <1>1, ReachableLemma, ApartLemma
  <1>3. UNCHANGED <<prog, ret, argRet>> /\ OwnedByRet' = OwnedByRet
    BY DEF main, Release, Refuse, AllocTests, AllocTestsFails, NoTests, ShrinkTests,
       ShrinkTestsFails, GetCwd, GetCwdFails, Finish, Exit, OwnedByRet
  <1>4. Reachable' = Rest'
    BY <1>1, <1>3 DEF Reachable, Rest, Arrays, OwnedByRet
  <1>5. \A x : Array(x) \notin OwnedByRet
    <2>1. /\ \A b \in OwnedByRet : b[2] \in 1..Len(ret)
          /\ \A x : Array(x)[2] = 0
      BY ApartLemma
    <2> QED
      BY <2>1, ProgramLemma
  <1>6. /\ Array("result") # Array("namedTests") /\ Array("result") # Array("workingDir")
        /\ Array("namedTests") # Array("workingDir")
    BY DEF Array
  <1>7. CASE Release
    BY <1>1, <1>2, <1>4, <1>7 DEF Release, Stages, Reading, Exit, Free, freeParsedArgs, Rest,
       Arrays, NothingFreedTwice, NothingLeaked
  <1>8. CASE Refuse
    BY <1>1, <1>2, <1>4, <1>8 DEF Refuse, Stages, Reading, Exit, Free, freeParsedArgs, Rest,
       Arrays, NothingFreedTwice, NothingLeaked
  <1>9. CASE AllocTests
    <2>1. arrays = {"result"} /\ arrays' = {"result", "namedTests"} /\ Malloc(Array("namedTests"))
      BY <1>9 DEF AllocTests, Engaged, Stages
    <2>2. Rest' = Rest \cup {Array("namedTests")}
      BY <1>3, <2>1 DEF Rest, Arrays
    <2> QED
      BY <1>1, <1>2, <1>4, <2>1, <2>2, MallocStep
  <1>10. CASE AllocTestsFails
    BY <1>1, <1>2, <1>4, <1>10 DEF AllocTestsFails, Engaged, Stages, Reading, Exit, Free,
       freeParsedArgs, Rest, Arrays, NothingFreedTwice, NothingLeaked
  <1>11. CASE NoTests
    BY <1>1, <1>2, <1>4, <1>11 DEF NoTests, Stages, Reading, Exit, Free, freeParsedArgs, Rest,
       Arrays, NothingFreedTwice, NothingLeaked
  <1>12. CASE ShrinkTests
    <2>1. UNCHANGED <<arrays, live, wrong>>
      BY <1>12 DEF ShrinkTests
    <2> QED
      BY <1>1, <1>2, <1>3, <1>4, <2>1 DEF Rest, Arrays, NothingFreedTwice, NothingLeaked
  <1>13. CASE ShrinkTestsFails
    <2>1. /\ arrays = {"result", "namedTests"} /\ pc' = "failed"
          /\ Free(freeParsedArgs("result")) /\ Parser!namedTests # {}
      BY <1>13 DEF ShrinkTestsFails, Stages, Reading, Exit
    <2>2. /\ Rest = {Array("result"), Array("namedTests")} \cup OwnedByRet
          /\ freeParsedArgs("result") = {Array("result")} \cup OwnedByRet
      BY <1>2, <2>1 DEF Rest, Arrays, freeParsedArgs
    <2>3. live' = {Array("namedTests")} /\ wrong' = {}
      BY <1>1, <1>2, <1>5, <1>6, <2>1, <2>2 DEF Free
    <2>4. (Parser!namedTests # {})'
      BY <1>3, <2>1 DEF Parser!namedTests, Parser!findArgInArgs, Parser!rows, Parser!Takes,
         Parser!Begins
    <2> QED
      BY <2>1, <2>3, <2>4 DEF NothingFreedTwice, NothingLeaked
  <1>14. CASE GetCwd
    <2>1. /\ arrays = {"result", "namedTests"} /\ arrays' = {"result", "namedTests", "workingDir"}
          /\ Malloc(Array("workingDir"))
      BY <1>14 DEF GetCwd, Stages, Reading
    <2>2. Rest' = Rest \cup {Array("workingDir")}
      BY <1>3, <2>1 DEF Rest, Arrays
    <2> QED
      BY <1>1, <1>2, <1>4, <2>1, <2>2, MallocStep
  <1>15. CASE GetCwdFails
    <2>1. UNCHANGED <<arrays, live, wrong>>
      BY <1>15 DEF GetCwdFails
    <2> QED
      BY <1>1, <1>2, <1>3, <1>4, <2>1 DEF Rest, Arrays, NothingFreedTwice, NothingLeaked
  <1>16. CASE Finish
    BY <1>1, <1>2, <1>4, <1>16 DEF Finish, Stages, Reading, Exit, Free, freeParsedArgs, Rest,
       Arrays, NothingFreedTwice, NothingLeaked
  <1> QED
    BY <1>7, <1>8, <1>9, <1>10, <1>11, <1>12, <1>13, <1>14, <1>15, <1>16 DEF main

\* No step loses a block, or frees one that is not there.
LEMMA MemoryStep == IInv /\ [Next]_vars => NothingFreedTwice' /\ NothingLeaked'
  <1> SUFFICES ASSUME IInv, [Next]_vars PROVE NothingFreedTwice' /\ NothingLeaked'
    OBVIOUS
  <1>0. Types /\ AtWork /\ Stages /\ NothingFreedTwice /\ NothingLeaked
    BY DEF IInv
  <1>1. CASE OutOfMemory \/ BadlyFormed \/ NotEnoughParams
    <2>1. pc \in Reading \cup {"ret"} /\ GiveUp
      BY <1>1 DEF OutOfMemory, BadlyFormed, NotEnoughParams, Reading
    <2>2. live = Reachable
      BY <1>0, <2>1 DEF NothingLeaked, Reading
    <2> QED
      BY <1>0, <2>1, <2>2, GiveUpStep
  <1>2. CASE UNCHANGED vars
    BY <1>0, <1>2 DEF vars, NothingFreedTwice, NothingLeaked, Reachable, Parser!namedTests,
       Parser!findArgInArgs, Parser!rows, Parser!Takes, Parser!Begins, n
  <1> QED
    BY <1>0, <1>1, <1>2, ParsingStep, EntryStep, MainStep DEF Next, parseArguments

\* Nothing was read and nothing allocated yet.
LEMMA InitIInv == Init => IInv
  <1> SUFFICES ASSUME Init PROVE IInv
    OBVIOUS
  <1>1. Types
    <2>1. P!LinesAssumption
      BY Assumptions
    <2>2. argv \in Seq(P!Tokens)
      BY <2>1 DEF Init, P!LinesAssumption
    <2> QED
      BY <2>2, MaxArmAssumption DEF Init, Types
  <1>2. AtWork /\ Stages
    BY DEF Init, AtWork, Stages, Reading
  <1>3. NothingFreedTwice /\ NothingLeaked
    BY DEF Init, NothingFreedTwice, NothingLeaked, Reachable
  <1> QED
    BY <1>1, <1>2, <1>3 DEF IInv

\* Every step, and stuttering, preserves the invariant.
LEMMA StepIInv == IInv /\ [Next]_vars => IInv'
  BY TypesStep, AtWorkStep, StagesStep, MemoryStep DEF IInv

\* The invariant holds on every command line, wherever an allocation fails.
THEOREM Invariance == Spec => []IInv
  BY InitIInv, StepIInv, PTL DEF Spec

\* The variables keep their types.
THEOREM TypeCorrect == Spec => []TypeOK
  <1>1. ASSUME IInv PROVE TypeOK
    <2>0. Types /\ AtWork /\ Stages
      BY <1>1 DEF IInv
    <2>1. /\ prog \in Programs /\ argv \in Lines[prog] /\ i \in 1..Len(argv) + 1
          /\ state \in {"reading", "read", "refused"} /\ Len(ret) <= Len(argv)
          /\ allocCount \in -1..MaxArm /\ Len(argv) \in Nat /\ Len(rows) \in Nat
      BY <2>0, ProgramLemma DEF Types, Stages
    <2> DEFINE entry_t == [value : Tokens, row : 0..Len(rows), params : Seq(Tokens)]
    <2>2. \A k \in DOMAIN ret : Read(ret[k]) \in entry_t
      BY <2>0 DEF Types, Complete, Read
    <2>3. parsed \in Seq(entry_t)
      <3>1. DOMAIN ret = 1..Len(ret) /\ Len(ret) \in Nat
        BY <2>0 DEF Types
      <3> HIDE DEF entry_t
      <3> QED
        BY <2>2, <3>1 DEF parsed
    <2>4. argRet # NULL => argRet.paramsFound \in 0..Len(argv) /\ argRet.row \in 0..Len(rows)
      <3> SUFFICES ASSUME argRet # NULL
                   PROVE  argRet.paramsFound \in 0..Len(argv) /\ argRet.row \in 0..Len(rows)
        OBVIOUS
      <3>1. i <= Len(argv)
        BY <2>0 DEF AtWork, Accepted
      <3>2. d \in 0..Len(rows) /\ (d # 0 => paramsFound \in Nat /\ i + paramsFound <= Len(argv))
        BY <2>0, <3>1, ArgumentLemma
      <3>3. \/ argRet.paramsFound = 0 /\ argRet.row \in {0, d}
            \/ argRet.paramsFound = paramsFound /\ argRet.row = d /\ d # 0
        BY <2>0 DEF AtWork, Entry, Blank, Accepted, Found
      <3> QED
        BY <2>1, <3>2, <3>3
    <2>5. Parser!TypeOK
      BY <2>1, <2>3 DEF Parser!TypeOK, rows, Tokens, parsed
    <2>6. /\ arrays \subseteq {"ret", "result", "namedTests", "workingDir"}
          /\ pc \in {"ret", "arg", "value", "check", "params", "param", "push", "parsed",
                     "names", "cwd", "run", "exited", "failed", "killed"}
      BY <2>0 DEF Stages, Reading
    <2> QED
      BY <2>1, <2>4, <2>5, <2>6 DEF TypeOK, rows
  <1> QED
    BY <1>1, Invariance, PTL

\* No clean-up path frees a block twice, or one that was never made.
THEOREM EachBlockIsFreedOnce == Spec => []NothingFreedTwice
  <1>1. IInv => NothingFreedTwice
    BY DEF IInv
  <1> QED
    BY <1>1, Invariance, PTL

\* No block is lost, and none used after it was freed.
THEOREM NoBlockIsLost == Spec => []NothingLeaked
  <1>1. IInv => NothingLeaked
    BY DEF IInv
  <1> QED
    BY <1>1, Invariance, PTL

----------------------------------------------------------------------------
(* The parser that ArgsParser describes.                                    *)

\* A complete entry is added to what was read as ArgsParser adds it.
LEMMA PushRefines ==
  ASSUME Types, AtWork, Stages, Push
  PROVE  Parser!Next
  <1>1. /\ i <= Len(argv) /\ state = "reading" /\ argRet \in parsedArg_t
        /\ argRet.value = argv[i] /\ argRet.row = d /\ argRet.paramsFound \in Nat
        /\ d # 0 => Accepted /\ argRet.paramsFound = paramsFound
        /\ d = 0 => argRet.paramsFound = 0
        /\ Read(argRet).params = SubSeq(argv, i + 1, i + argRet.paramsFound)
    BY PushLemma DEF Push, Stages, Reading
  <1>2. /\ ret' = Append(ret, argRet) /\ i' = i + argRet.paramsFound + 1
        /\ UNCHANGED <<prog, argv, state>>
    BY DEF Push, Behind
  <1> DEFINE found == argRet.paramsFound
             entry == [value |-> argv[i], row |-> d, params |-> SubSeq(argv, i + 1, i + found)]
  <1>3. Read(argRet) = entry
    BY <1>1 DEF Read
  <1>4. parsed' = Append(parsed, entry)
    <2>1. ret \in Seq(parsedArg_t)
      BY DEF Types
    <2>2. /\ DOMAIN ret' = 1..Len(ret) + 1 /\ DOMAIN ret = 1..Len(ret) /\ Len(ret) \in Nat
          /\ \A k \in 1..Len(ret) + 1 : ret'[k] = IF k = Len(ret) + 1 THEN argRet ELSE ret[k]
      BY <1>1, <1>2, <2>1
    <2>3. parsed' = [k \in 1..Len(ret) + 1 |-> Read(ret'[k])]
      BY <2>2 DEF parsed, Read
    <2>4. parsed' = [k \in 1..Len(ret) + 1 |->
                       IF k = Len(ret) + 1 THEN Read(argRet) ELSE Read(ret[k])]
      BY <2>2, <2>3
    <2>5. Len(parsed) = Len(ret) /\ \A k \in 1..Len(ret) : parsed[k] = Read(ret[k])
      BY <2>2 DEF parsed
    <2> QED
      BY <1>3, <2>2, <2>4, <2>5
  <1> HIDE DEF d
  <1>5. CASE d = 0
    <2>1. entry.params = <<>> /\ i' = i + 1 /\ entry.row = 0
      BY <1>1, <1>2, <1>5, ProgramLemma
    <2>2. Parser!TakeWord(d)
      BY <1>2, <1>4, <1>5, <2>1 DEF Parser!TakeWord, parsed
    <2> QED
      BY <1>1, <2>2 DEF Parser!Next, Parser!ReadArgument, d
  <1>6. CASE d # 0
    <2>1. /\ Parser!IsOption(d) /\ ~Parser!IsDuplicate(d)
          /\ found = Parser!checkParams(Parser!rows[d], i)
          /\ found >= Parser!rows[d].min
      BY <1>1, <1>6 DEF Accepted, Found, Enough, paramsFound, Parser!IsOption
    <2>2. Parser!TakeOption(d)
      BY <1>2, <1>4, <2>1 DEF Parser!TakeOption, parsed
    <2> QED
      BY <1>1, <2>2 DEF Parser!Next, Parser!ReadArgument, d
  <1> QED
    BY <1>5, <1>6

\* Every step is one of ArgsParser, or changes nothing that it knows of.
LEMMA StepRefines == IInv /\ [Next]_vars => [Parser!Next]_Parser!vars
  <1> SUFFICES ASSUME IInv, [Next]_vars PROVE [Parser!Next]_Parser!vars
    OBVIOUS
  <1>0. Types /\ AtWork /\ Stages
    BY DEF IInv
  <1>1. CASE Push
    BY <1>0, <1>1, PushRefines
  <1>2. CASE DropDuplicate
    <2>1. /\ state = "reading" /\ i <= Len(argv) /\ Found
          /\ Parser!IsDuplicate(d) /\ i' = i + 1 /\ UNCHANGED <<prog, argv, ret, state>>
      BY <1>0, <1>2 DEF DropDuplicate, AtWork, Stages, Reading
    <2>2. Parser!DropDuplicate(d)
      BY <2>1 DEF Parser!DropDuplicate, Parser!IsOption, Found
    <2> QED
      BY <2>1, <2>2 DEF Parser!Next, Parser!ReadArgument, d
  <1>3. CASE OutOfMemory \/ BadlyFormed \/ NotEnoughParams
    <2>1. state = "reading" /\ GiveUp
      BY <1>0, <1>3 DEF OutOfMemory, BadlyFormed, NotEnoughParams, Stages, Reading
    <2>2. Parser!Refuse
      BY <2>1 DEF GiveUp, Parser!Refuse
    <2> QED
      BY <2>1, <2>2 DEF Parser!Next, Parser!OutOfMemory
  <1>4. CASE AllocResult
    <2>1. state = "reading"
      BY <1>0, <1>4 DEF AllocResult, Stages, Reading
    <2> QED
      BY <1>4, <2>1 DEF AllocResult, Parser!Next, Parser!Return
  <1>5. CASE UNCHANGED <<prog, argv, i, ret, state>>
    BY <1>5 DEF Parser!vars
  <1>6. \/ Push \/ DropDuplicate \/ AllocResult
        \/ OutOfMemory \/ BadlyFormed \/ NotEnoughParams
        \/ UNCHANGED <<prog, argv, i, ret, state>>
    BY DEF Next, parseArguments, main, AllocRet, AllocArg, AllocValue,
       CountParams, AllocParams, AllocParam, Release, Refuse, AllocTests, AllocTestsFails,
       NoTests, ShrinkTests, ShrinkTestsFails, GetCwd, GetCwdFails, Finish, Exit, vars
  <1> QED
    BY <1>1, <1>2, <1>3, <1>4, <1>5, <1>6

\* With a failure anywhere the caller gets nothing, without one all of what
\* the command line says: the C parser implements ArgsParser.
THEOREM Refinement == Spec => ImplementsParser
  <1>1. Init => Parser!Init
    BY DEF Init, Parser!Init
  <1> QED
    BY <1>1, StepRefines, Invariance, PTL DEF Spec, ImplementsParser, Parser!Spec
==============================================================================
