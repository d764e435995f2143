--------------------------- MODULE CrunchMakeProofs ---------------------------
(***************************************************************************)
(* Proofs about crunchMake, for any sources, options, results of commands    *)
(* and both builds of it: every library holds the code of its own source,    *)
(* whatever was written over what, and the loop stays within the sources.    *)
(*                                                                          *)
(* The last source's library being right needs the file it is built from to  *)
(* be its source still, and under clang the object in between (Intact,       *)
(* Compiled); that of an earlier one needs the later commands to be known    *)
(* (Built).  All of it is relative to no source being built over (Clean).    *)
(***************************************************************************)
EXTENDS CrunchMake, ArgsParserProofs, SequenceTheorems

\* The pieces of names (that a literal is a string the provers are not told).
Pieces == STRING \cup {".", "o", "so"}

----------------------------------------------------------------------------
(* The names of files.                                                      *)

\* What crunchMake names after a source ends in a "." and an extension.
LEMMA EndsLemma ==
  ASSUME NEW stem \in Seq(Pieces), NEW ext \in Pieces, ext # ".", NEW e, ext \in e
  PROVE  checkExt(stem \o <<".", ext>>, e)
  <1> DEFINE end == <<".", ext>>
             file == stem \o end
             dot == Len(stem) + 1
  <1>1. /\ end \in Seq(Pieces) /\ Len(end) = 2 /\ end[1] = "." /\ end[2] = ext
        /\ Len(stem) \in Nat
    BY DEF Pieces
  <1> HIDE DEF end
  <1>2. /\ file \in Seq(Pieces) /\ Len(file) = Len(stem) + 2
        /\ file[dot] = "." /\ file[dot + 1] = ext
    <2>1. /\ file \in Seq(Pieces) /\ Len(file) = Len(stem) + Len(end)
          /\ \A k \in 1..Len(stem) + Len(end) :
                file[k] = IF k <= Len(stem) THEN stem[k] ELSE end[k - Len(stem)]
      BY <1>1, ConcatProperties
    <2>2. /\ dot \in 1..Len(stem) + Len(end) /\ ~(dot <= Len(stem)) /\ dot - Len(stem) = 1
          /\ dot + 1 \in 1..Len(stem) + Len(end) /\ ~(dot + 1 <= Len(stem))
          /\ dot + 1 - Len(stem) = 2
      BY <1>1
    <2> HIDE DEF file, dot
    <2> QED
      BY <1>1, <2>1, <2>2
  <1> HIDE DEF file
  <1>3. dot \in Places(file, ".") /\ \A k \in Places(file, ".") : k <= dot
    BY <1>1, <1>2 DEF Places
  <1>4. rfind(file, ".") = dot
    <2>1. Places(file, ".") \subseteq Nat
      BY <1>2 DEF Places
    <2>2. rfind(file, ".") = CHOOSE k \in Places(file, ".") : \A j \in Places(file, ".") : j <= k
      BY <1>3 DEF rfind
    <2> QED
      BY <1>3, <2>1, <2>2
  <1>5. Compares(file, dot, Len(file), <<".", ext>>)
    <2> DEFINE sub == SubSeq(file, dot, dot + 1)
    <2>1. sub \in Seq(Pieces) /\ Len(sub) = 2 /\ sub[1] = file[dot] /\ sub[2] = file[dot + 1]
      BY <1>1, <1>2
    <2> HIDE DEF sub
    <2>2. sub = <<".", ext>>
      BY <1>2, <2>1
    <2>3. dot + Len(file) - 1 >= Len(file) /\ dot + 1 = Len(file)
      BY <1>1, <1>2
    <2> QED
      BY <1>1, <1>2, <2>2, <2>3 DEF Compares, sub
  <1> QED
    BY <1>1, <1>4, <1>5 DEF checkExt, file, end

\* What is left of the name of a source is a name.
LEMMA StemLemma ==
  ASSUME NEW file \in Seq(Pieces)
  PROVE  Stem(file) \in Seq(Pieces)
  <1>1. Len(file) \in Nat /\ Places(file, ".") \subseteq 1..Len(file)
    BY DEF Places
  <1>2. rfind(file, ".") = 0 \/ rfind(file, ".") \in 1..Len(file)
    <2>1. CASE Places(file, ".") = {}
      BY <1>1, <2>1 DEF rfind
    <2>2. CASE Places(file, ".") # {}
      <3> DEFINE Behind == {h \in 0..Len(file) : Len(file) - h \in Places(file, ".")}
      <3>1. Behind # {} /\ Behind \in SUBSET Nat
        <4>1. PICK k \in Places(file, ".") : TRUE
          BY <2>2
        <4>2. Len(file) - k \in 0..Len(file) /\ Len(file) - (Len(file) - k) = k
          BY <1>1, <4>1
        <4> QED
          BY <4>1, <4>2
      <3>2. PICK h \in Behind : \A j \in Behind : h <= j
        BY <3>1, LeastNumber
      <3>3. \A k \in Places(file, ".") : k <= Len(file) - h
        <4> TAKE k \in Places(file, ".")
        <4>1. k \in 1..Len(file) /\ Len(file) - (Len(file) - k) = k
          BY <1>1
        <4>2. Len(file) - k \in Behind
          BY <1>1, <4>1
        <4> QED
          BY <1>1, <3>2, <4>1, <4>2
      <3>4. rfind(file, ".") = CHOOSE k \in Places(file, ".") : \A j \in Places(file, ".") : j <= k
        BY <2>2 DEF rfind
      <3>5. Len(file) - h \in Places(file, ".")
        BY <3>2
      <3> QED
        BY <1>1, <3>3, <3>4, <3>5
    <2> QED
      BY <2>1, <2>2
  <1>3. CASE rfind(file, ".") = 0
    BY <1>3 DEF Stem
  <1>4. CASE rfind(file, ".") \in 1..Len(file)
    <2> DEFINE r == rfind(file, ".")
    <2> HIDE DEF r
    <2>1. r \in 1..Len(file)
      BY <1>4 DEF r
    <2>2. SubSeq(file, 1, r - 1) \in Seq(Pieces) /\ r # 0
      BY <2>1
    <2> QED
      BY <2>2 DEF Stem, r
  <1> QED
    BY <1>2, <1>3, <1>4

\* What crunchMake makes of a source is an object file, so no source.
LEMMA MadeIsObject ==
  ASSUME NEW file \in Seq(STRING)
  PROVE  isObj(toO(file)) /\ isObj(toSO(file))
  <1>1. file \in Seq(Pieces)
    BY DEF Pieces
  <1>2. checkExt(toO(file), objExts)
    BY <1>1, StemLemma, EndsLemma DEF toO, Pieces, objExts
  <1>3. checkExt(toSO(file), objExts)
    BY <1>1, StemLemma, EndsLemma DEF toSO, Pieces, objExts
  <1> QED
    BY <1>2, <1>3 DEF isObj

\* What -o names is a file there may be, and what is made of a source.
LEMMA NamesLemma ==
  ASSUME IInv, prog = "crunchMake", state # "reading", state = "refused" => ret = <<>>,
         NEW t \in Named
  PROVE  computeSOName(t) \in Files /\ computeObjName(t) \in Files
  <1>1. CASE ~Given("-o")
    BY <1>1 DEF computeSOName, computeObjName, Files
  <1>2. CASE Given("-o")
    <2>1. state = "read"
      BY <1>2 DEF IInv, TypeOK, Given, findArg
    <2>2. PICK r \in DOMAIN rows : rows[r].value = "-o" /\ rows[r].min = 1 /\ rows[r].max = 1
      BY OutputAssumption DEF IInv, TypeOK, rows
    <2>3. findArg("-o") = {k \in DOMAIN ret : ret[k].row = r}
      BY <2>1, <2>2, FindsLemma DEF FindsTheOption
    <2>4. findArg("-o") \in SUBSET Nat
      BY DEF findArg, IInv, TypeOK
    <2>5. PICK m \in findArg("-o") : \A h \in findArg("-o") : m <= h
      BY <1>2, <2>4, LeastNumber DEF Given
    <2>6. output = Name[ret[m].params[1]]
      <3>1. \A k \in findArg("-o") : (\A h \in findArg("-o") : k <= h) => k = m
        BY <2>4, <2>5
      <3>2. m = CHOOSE k \in findArg("-o") : \A h \in findArg("-o") : k <= h
        BY <2>5, <3>1
      <3> QED
        BY <3>2 DEF output
    <2>7. m \in DOMAIN ret /\ ret[m].row = r /\ r # 0
      BY <2>3, <2>5, ProgramLemma DEF IInv
    <2>8. Len(ret[m].params) \in 1..1
      BY <2>2, <2>7 DEF IInv, ParamsFit
    <2>9. ret[m].params \in Seq(Tokens)
      <3> DEFINE parsedArg_t == [value : Tokens, row : 0..Len(rows), params : Seq(Tokens)]
      <3>1. ret \in Seq(parsedArg_t)
        BY DEF IInv, TypeOK
      <3>2. ret[m] \in parsedArg_t
        <4> HIDE DEF parsedArg_t
        <4> QED
          BY <2>7, <3>1
      <3> QED
        BY <3>2
    <2>10. ret[m].params[1] \in Tokens
      BY <2>8, <2>9
    <2>11. output \in Named
      BY <2>6, <2>10 DEF Named
    <2> QED
      BY <1>2, <2>11 DEF computeSOName, computeObjName, Files
  <1> QED
    BY <1>1, <1>2

\* The least of a set, the same expression before and after a step.
Least(S) == CHOOSE k \in S : \A h \in S : k <= h

\* Once the parser is through the names stay what they are.
LEMMA SameNames ==
  ASSUME UNCHANGED vars
  PROVE  /\ (HelpAsked)' = HelpAsked
         /\ (Given("-o"))' = Given("-o")
         /\ \A t : /\ (computeSOName(t))' = computeSOName(t)
                   /\ (computeObjName(t))' = computeObjName(t)
  <1>1. /\ prog' = prog /\ ret' = ret /\ rows' = rows
    BY DEF vars, rows
  <1>2. \A q : (findArg(q))' = findArg(q)
    BY <1>1 DEF findArg, Is, Incomplete, Begins
  <1>3. \A q : (Given(q))' = Given(q)
    BY <1>2 DEF Given
  <1>4. output = Name[ret[Least(findArg("-o"))].params[1]]
    BY DEF output, Least
  <1>5. output' = Name[ret'[Least((findArg("-o"))')].params[1]]
    BY DEF output, Least
  <1>6. output' = output
    BY <1>1, <1>2, <1>4, <1>5
  <1>7. (HelpAsked)' = HelpAsked
    BY <1>3 DEF HelpAsked
  <1> QED
    BY <1>3, <1>6, <1>7 DEF computeSOName, computeObjName

----------------------------------------------------------------------------
(* The invariant.                                                          *)

\* The types of the variables that are not the parser's.
Types ==
    /\ clang \in BOOLEAN /\ logging \in BOOLEAN
    /\ pc \in {"main", "next", "compile", "link", "stop", "exited"}
    /\ seen \in 0..Len(ret)
    /\ tests \in Seq(Named)
    /\ test \in 0..Len(tests) + 1
    /\ skipped \subseteq 1..test - 1
    /\ code \in [Files -> Files]
    /\ result \in Results
    /\ status \in 0..255

\* Where main() is, and what it knows there.  The loop is entered only behind
\* the parser; it is left behind the last source or at the first failure.
Stages ==
    /\ state = "reading" => seen = 0
    /\ state = "refused" => ret = <<>>
    /\ pc # "main" \/ seen > 0 => prog = "crunchMake" /\ state # "reading"
    /\ pc = "main" => /\ test = 0 /\ ~logging /\ result = 0
                     /\ \A f \in Files : code[f] = f
    /\ pc \in {"next", "compile", "link"} => test >= 1 /\ result = 0
    /\ pc \in {"compile", "link", "stop"} => test \in DOMAIN tests
    /\ pc = "link" => clang
    /\ pc = "stop" => result # 0
    /\ pc = "exited" => ~logging
    /\ pc = "exited" /\ test = 0 => HelpAsked \/ tests = <<>>
    /\ pc = "exited" /\ test # 0 => test > Len(tests) \/ result # 0

\* No source is an object file.
Sources == \A h \in DOMAIN tests : ~isObj(tests[h])

\* The sources that a command was given, or is about to be.
Begun == {k \in DOMAIN tests : k \notin skipped /\ (k < test \/ (k = test /\ pc # "next"))}

\* None of the commands so far wrote over one of those.
Clean == \A h, j \in Begun : tests[h] \notin Writes(j)

\* A source no command wrote over holds its own code.
Intact ==
    \A h \in DOMAIN tests :
        (\A j \in Begun : tests[h] \notin Writes(j)) => code[tests[h]] = tests[h]

\* The library of every source behind the one at hand holds its code, unless a
\* later source was built over it.
Built ==
    Clean => \A k \in Begun : k < test =>
        \/ \E j \in Begun : j > k /\ computeSOName(tests[k]) \in Writes(j)
        \/ code[computeSOName(tests[k])] = tests[k]

\* The linker is given the code of the source at hand.
Compiled == pc = "link" /\ Clean => code[computeObjName(tests[test])] = tests[test]

MakeIInv == IInv /\ Types /\ Stages /\ Sources /\ Intact /\ Built /\ Compiled

\* Before the first turn of the loop nothing was begun.
LEMMA NothingBegun == Types /\ pc = "main" /\ Stages => Intact /\ Built /\ Compiled
  <1> SUFFICES ASSUME Types, pc = "main", Stages
               PROVE  Intact /\ Built /\ Compiled
    OBVIOUS
  <1>1. test = 0 /\ DOMAIN tests \subseteq Nat \ {0}
    BY DEF Types, Stages
  <1>2. Begun = {}
    BY <1>1 DEF Begun
  <1>3. \A h \in DOMAIN tests : tests[h] \in Files
    BY DEF Types, Files
  <1> QED
    BY <1>2, <1>3 DEF Intact, Built, Compiled, Stages

LEMMA NothingBegunYet ==
  (Types /\ pc = "main" /\ Stages => Intact /\ Built /\ Compiled)'
  BY NothingBegun, PTL

\* The initial state satisfies the invariant.
LEMMA InitMakeIInv == MakeInit => MakeIInv
  <1> SUFFICES ASSUME MakeInit PROVE MakeIInv
    OBVIOUS
  <1>1. IInv
    BY InitIInv DEF MakeInit
  <1>2. Types /\ Sources
    <2>1. ret = <<>> /\ Len(ret) = 0
      BY DEF MakeInit, Init
    <2>2. code \in [Files -> Files]
      BY DEF MakeInit
    <2>3. tests = <<>> /\ tests \in Seq(Named) /\ Len(tests) = 0 /\ DOMAIN tests = {}
      BY DEF MakeInit
    <2>4. clang \in BOOLEAN /\ logging \in BOOLEAN
      BY DEF MakeInit
    <2>5. pc = "main" /\ seen = 0 /\ test = 0 /\ skipped = {} /\ result = 0 /\ status = 0
      BY DEF MakeInit
    <2> QED
      BY <2>1, <2>2, <2>3, <2>4, <2>5, ResultsAssumption DEF Types, Sources
  <1>3. Stages
    BY DEF MakeInit, Init, Stages
  <1>4. pc = "main"
    BY DEF MakeInit
  <1> QED
    BY <1>1, <1>2, <1>3, <1>4, NothingBegun DEF MakeIInv

\* The parser goes on as it does alone.
LEMMA ParserSteps == [MakeNext]_<<vars, make>> => [Next]_vars
  BY DEF MakeNext, Parse, VersionOrHelp, getTests, NothingToBuild, StartBuild, SkipSource,
         TakeSource, compileTest, linkTest, EndBuild

\* What a command does to the files.
LEMMA CommandLemma ==
  ASSUME Types, NEW g \in Files, NEW f \in Files, NEW r \in Results, Command(g, f, r)
  PROVE  /\ code' \in [Files -> Files] /\ result' = r
         /\ \A x \in Files : x # f => code'[x] = code[x]
         /\ r = 0 => code'[f] = code[g]
  BY DEF Types, Command

----------------------------------------------------------------------------
(* The steps.                                                              *)

\* A source's library and object may be there, while crunchMake builds.
LEMMA PlacesLemma ==
  ASSUME MakeIInv, pc # "main", NEW k \in DOMAIN tests
  PROVE  /\ tests[k] \in Files
         /\ computeSOName(tests[k]) \in Files /\ computeObjName(tests[k]) \in Files
  <1>1. tests[k] \in Named
    BY DEF MakeIInv, Types
  <1>2. prog = "crunchMake" /\ state # "reading" /\ (state = "refused" => ret = <<>>)
    BY DEF MakeIInv, Stages
  <1>3. computeSOName(tests[k]) \in Files /\ computeObjName(tests[k]) \in Files
    BY <1>1, <1>2, NamesLemma DEF MakeIInv
  <1> QED
    BY <1>1, <1>3 DEF Files

\* What the parser does while main() waits for it.
LEMMA ParseStep ==
  ASSUME MakeIInv, Parse
  PROVE  MakeIInv'
  <1>1. IInv'
    BY StepIInv DEF MakeIInv, Parse
  <1>2. state = "reading" /\ (state' = "refused" => ret' = <<>>)
    <2>1. state = "reading"
      BY DEF Parse, Next, ReadArgument, OutOfMemory, Return
    <2>2. ASSUME ReadArgument, state' = "refused" PROVE ret' = <<>>
      BY <2>2 DEF ReadArgument, DropDuplicate, NotEnoughParams, TakeOption, BadlyFormed,
                  TakeWord, Refuse
    <2> QED
      BY <2>1, <2>2 DEF Parse, Next, OutOfMemory, Return, Refuse
  <1>3. pc = "main" /\ seen = 0 /\ UNCHANGED make
    BY <1>2 DEF MakeIInv, Stages, Parse
  <1>4. Types'
    <2>1. ret' \in Seq([value : Tokens, row : 0..Len(rows'), params : Seq(Tokens)])
      BY <1>1 DEF IInv, TypeOK
    <2>2. Len(ret') \in Nat
      BY <2>1
    <2> QED
      BY <1>3, <2>2 DEF MakeIInv, Types, make
  <1>5. Stages'
    BY <1>2, <1>3 DEF MakeIInv, Stages, make
  <1>6. Sources'
    BY <1>3 DEF MakeIInv, Sources, make
  <1>7. pc' = "main"
    BY <1>3 DEF make
  <1> QED
    BY <1>1, <1>4, <1>5, <1>6, <1>7, NothingBegunYet DEF MakeIInv

\* A step that touches no file and begins no source keeps what is claimed of
\* both.
LEMMA QuietStep ==
  ASSUME MakeIInv, UNCHANGED <<vars, clang, tests, code>>, Begun' = Begun, Types', Stages',
         test' = test \/ Begun \subseteq 1..test - 1,
         pc' = "link" => pc = "link" /\ test' = test
  PROVE  MakeIInv'
  <1>1. /\ \A t : /\ (computeSOName(t))' = computeSOName(t)
                 /\ (computeObjName(t))' = computeObjName(t)
        /\ \A k : (Writes(k))' = Writes(k)
    BY SameNames DEF Writes
  <1>2. IInv'
    BY StepIInv DEF MakeIInv
  <1>3. Sources' /\ Intact'
    BY <1>1 DEF MakeIInv, Sources, Intact
  <1>4. Built'
    <2>1. Clean' <=> Clean
      BY <1>1 DEF Clean
    <2>2. ASSUME Clean, NEW k \in Begun, k < test'
          PROVE  k < test
      BY <2>2 DEF MakeIInv, Types, Begun
    <2> QED
      BY <1>1, <2>1, <2>2 DEF MakeIInv, Built
  <1>5. Compiled'
    <2>1. pc' = "link" => /\ pc = "link"
                          /\ (computeObjName(tests[test]))' = computeObjName(tests[test])
      BY SameNames DEF computeObjName
    <2>2. Clean' <=> Clean
      BY <1>1 DEF Clean
    <2> QED
      BY <2>1, <2>2 DEF MakeIInv, Compiled
  <1> QED
    BY <1>2, <1>3, <1>4, <1>5, Zenon DEF MakeIInv

\* getTests adds a source that is none of the object files.
LEMMA GetTestsStep ==
  ASSUME MakeIInv, getTests
  PROVE  MakeIInv'
  <1>1. seen \in 0..Len(ret) /\ seen < Len(ret) /\ seen' = seen + 1 /\ ret' = ret
    BY DEF MakeIInv, Types, getTests, vars
  <1>2. ret \in Seq([value : Tokens, row : 0..Len(rows), params : Seq(Tokens)])
    BY DEF MakeIInv, IInv, TypeOK
  <1>3. Len(ret) \in Nat /\ seen' \in DOMAIN ret
    BY <1>1, <1>2
  <1>4. ret[seen'].value \in Tokens
    BY <1>3, EntryLemma DEF MakeIInv, IInv
  <1>5. /\ tests' \in Seq(Named) /\ Len(tests') \in Nat
        /\ \A h \in DOMAIN tests' : ~isObj(tests'[h])
    <2>1. CASE IsSource(seen')
      <3>1. tests' = Append(tests, Name[ret[seen'].value])
        BY <2>1 DEF getTests
      <3>2. Name[ret[seen'].value] \in Named /\ ~isObj(Name[ret[seen'].value])
        BY <1>4, <2>1 DEF Named, IsSource
      <3> QED
        BY <3>1, <3>2 DEF MakeIInv, Types, Sources
    <2>2. CASE ~IsSource(seen')
      <3>1. tests' = tests
        BY <2>2 DEF getTests
      <3> QED
        BY <3>1 DEF MakeIInv, Types, Sources
    <2> QED
      BY <2>1, <2>2
  <1>6. /\ UNCHANGED <<vars, clang, pc, test, skipped, logging, code, result, status>>
        /\ prog = "crunchMake" /\ state # "reading" /\ pc = "main" /\ ~HelpAsked
    BY DEF getTests, Parsed
  <1>7. test = 0
    BY <1>6 DEF MakeIInv, Stages
  <1>8. Types'
    BY <1>1, <1>3, <1>5, <1>6, <1>7 DEF MakeIInv, Types
  <1>9. Stages'
    BY <1>6 DEF MakeIInv, Stages, vars
  <1>10. Sources'
    BY <1>5 DEF Sources
  <1>11. IInv'
    BY <1>6, StepIInv DEF MakeIInv
  <1> QED
    BY <1>6, <1>8, <1>9, <1>10, <1>11, NothingBegunYet DEF MakeIInv

\* The ways from main() into the loop, and out before it.
LEMMA BeforeStep ==
  ASSUME MakeIInv, VersionOrHelp \/ NothingToBuild \/ StartBuild
  PROVE  MakeIInv'
  <1>1. /\ UNCHANGED <<vars, clang, seen, tests, skipped, code, result>>
        /\ prog = "crunchMake" /\ state # "reading" /\ pc = "main"
    BY DEF VersionOrHelp, NothingToBuild, StartBuild, Parsed, GotTests
  <1>2. test = 0 /\ ~logging /\ result = 0 /\ Types /\ Stages
    BY <1>1 DEF MakeIInv, Stages
  <1>3. /\ skipped \subseteq 1..test' - 1 /\ skipped = {}
        /\ DOMAIN tests \subseteq Nat \ {0} /\ Len(tests) \in Nat
    <2>1. skipped \subseteq 1..test - 1 /\ DOMAIN tests \subseteq Nat \ {0} /\ Len(tests) \in Nat
      BY <1>2 DEF Types
    <2> QED
      BY <1>2, <2>1
  <1>4. Types' /\ Begun' = Begun /\ Begun = {} /\ Stages' /\ pc' # "link"
    <2>1. CASE VersionOrHelp
      <3>1. pc' = "exited" /\ status' = 0 /\ test' = test /\ logging' = logging /\ HelpAsked
        BY <2>1 DEF VersionOrHelp, Exit, ExitStatus
      <3>2. HelpAsked'
        BY <1>1, <3>1, SameNames
      <3> QED
        BY <1>1, <1>2, <1>3, <3>1, <3>2 DEF Types, Begun, Stages, vars
    <2>2. CASE NothingToBuild
      <3>1. pc' = "exited" /\ status' = 2 /\ test' = test /\ logging' = logging /\ tests = <<>>
        BY <2>2 DEF NothingToBuild, Exit, ExitStatus
      <3> QED
        BY <1>1, <1>2, <1>3, <3>1 DEF Types, Begun, Stages, vars
    <2>3. CASE StartBuild
      <3>1. pc' = "next" /\ test' = 1 /\ status' = status /\ logging' \in BOOLEAN
        BY <2>3 DEF StartBuild
      <3> QED
        BY <1>1, <1>2, <1>3, <3>1 DEF Types, Begun, Stages, vars
    <2> QED
      BY <2>1, <2>2, <2>3
  <1> QED
    BY <1>1, <1>4, QuietStep

\* A source that is skipped is none that was begun.
LEMMA SkipStep ==
  ASSUME MakeIInv, SkipSource
  PROVE  MakeIInv'
  <1>1. /\ UNCHANGED <<vars, clang, seen, tests, pc, logging, code, result, status>>
        /\ pc = "next" /\ test <= Len(tests)
        /\ skipped' = skipped \cup {test} /\ test' = test + 1
    BY DEF SkipSource, AtTest
  <1>2. /\ Types /\ Stages /\ test \in Nat /\ test >= 1 /\ Len(tests) \in Nat
        /\ DOMAIN tests = 1..Len(tests) /\ skipped \subseteq 1..test - 1
    BY <1>1 DEF MakeIInv, Types, Stages
  <1>3. Types'
    BY <1>1, <1>2 DEF Types, vars
  <1>4. Stages'
    BY <1>1, <1>2 DEF Stages, vars
  <1>5. Begun' = Begun /\ Begun \subseteq 1..test - 1
    BY <1>1, <1>2 DEF Begun
  <1> QED
    BY <1>1, <1>3, <1>4, <1>5, QuietStep

\* The loop is over, and what it left is what it promised.
LEMMA EndStep ==
  ASSUME MakeIInv, EndBuild
  PROVE  MakeIInv'
  <1>1. /\ UNCHANGED <<vars, clang, seen, tests, test, skipped, code, result>>
        /\ logging' = FALSE /\ pc' = "exited" /\ status' = ExitStatus(result)
        /\ pc = "stop" \/ (pc = "next" /\ test > Len(tests))
    BY DEF EndBuild, Exit
  <1>2. Types /\ Stages /\ test \in Nat /\ test >= 1 /\ Len(tests) \in Nat
    BY <1>1 DEF MakeIInv, Types, Stages
  <1>3. status' \in 0..255
    <2>1. result \in Int
      BY <1>2, ResultsAssumption DEF Types
    <2> QED
      BY <1>1, <2>1 DEF ExitStatus
  <1>4. Types'
    BY <1>1, <1>2, <1>3 DEF Types, vars
  <1>5. Stages'
    BY <1>1, <1>2 DEF Stages, vars
  <1>6. Begun' = Begun
    BY <1>1, <1>2 DEF Begun
  <1> QED
    BY <1>1, <1>4, <1>5, <1>6, QuietStep

\* A source is begun: what is claimed from here on is claimed of it, too.
LEMMA TakeStep ==
  ASSUME MakeIInv, TakeSource
  PROVE  MakeIInv'
  <1>1. /\ UNCHANGED <<vars, clang, seen, tests, test, skipped, logging, code, result, status>>
        /\ pc = "next" /\ test <= Len(tests) /\ pc' = "compile"
    BY DEF TakeSource, AtTest
  <1>2. /\ Types /\ Stages /\ test \in Nat /\ test >= 1 /\ Len(tests) \in Nat
        /\ DOMAIN tests = 1..Len(tests) /\ skipped \subseteq 1..test - 1
    BY <1>1 DEF MakeIInv, Types, Stages
  <1>3. Types'
    BY <1>1, <1>2 DEF Types, vars
  <1>4. Stages'
    BY <1>1, <1>2 DEF Stages, vars
  <1>5. Begun' = Begun \cup {test} /\ \A k \in Begun : k < test
    BY <1>1, <1>2 DEF Begun
  <1>6. /\ \A t : (computeSOName(t))' = computeSOName(t)
        /\ \A k : (Writes(k))' = Writes(k)
    BY <1>1, SameNames DEF Writes
  <1>7. IInv' /\ Sources'
    BY <1>1, StepIInv DEF MakeIInv, Sources
  <1>8. Intact'
    BY <1>1, <1>5, <1>6 DEF MakeIInv, Intact
  <1>9. Built'
    <2> SUFFICES ASSUME Clean', NEW k \in Begun', k < test'
                 PROVE  \/ \E j \in Begun' : /\ j > k
                                             /\ (computeSOName(tests[k]))' \in (Writes(j))'
                        \/ code'[(computeSOName(tests[k]))'] = tests'[k]
      BY DEF Built
    <2>1. k \in Begun /\ k < test
      BY <1>1, <1>2, <1>5
    <2>2. Clean
      BY <1>1, <1>5, <1>6 DEF Clean
    <2>3. \/ \E j \in Begun : j > k /\ computeSOName(tests[k]) \in Writes(j)
          \/ code[computeSOName(tests[k])] = tests[k]
      BY <2>1, <2>2 DEF MakeIInv, Built
    <2>4. (computeSOName(tests[k]))' = computeSOName(tests[k])
      BY <1>1, SameNames DEF computeSOName
    <2> QED
      BY <1>1, <1>5, <1>6, <2>3, <2>4
  <1>10. Compiled'
    BY <1>1 DEF Compiled
  <1> QED
    BY <1>3, <1>4, <1>7, <1>8, <1>9, <1>10 DEF MakeIInv

\* The source at hand was begun last; unless one was written over, its code is
\* what the command is given.
LEMMA AtHand ==
  ASSUME MakeIInv, pc \in {"compile", "link"}
  PROVE  /\ test \in Begun /\ test \in DOMAIN tests
         /\ \A k \in Begun : k <= test
         /\ Clean => code[tests[test]] = tests[test]
  <1>1. test \in DOMAIN tests
    BY DEF MakeIInv, Stages
  <1>2. test \in Begun
    BY <1>1 DEF Begun, MakeIInv, Types
  <1>3. \A k \in Begun : k <= test
    BY DEF Begun, MakeIInv, Types
  <1>4. Clean => code[tests[test]] = tests[test]
    BY <1>1, <1>2 DEF Clean, MakeIInv, Intact
  <1> QED
    BY <1>1, <1>2, <1>3, <1>4

\* The commands: f is what one makes of g, and it goes on to the linker, to the
\* next source or not at all.
LEMMA CommandStep ==
  ASSUME MakeIInv, pc \in {"compile", "link"}, NEW r \in Results,
         UNCHANGED <<vars, clang, seen, tests, skipped, logging, status>>,
         NEW f, NEW g, Command(g, f, r),
         \/ /\ f = computeSOName(tests[test])
            /\ \/ g = tests[test]
               \/ pc = "link" /\ g = computeObjName(tests[test])
            /\ Turn(r)
         \/ /\ clang /\ pc = "compile"
            /\ f = computeObjName(tests[test]) /\ g = tests[test]
            /\ IF r = 0 THEN pc' = "link" /\ test' = test ELSE Turn(r)
  PROVE  MakeIInv'
  <1>1. /\ \/ pc' = "stop" /\ test' = test /\ r # 0
           \/ pc' = "next" /\ test' = test + 1 /\ r = 0 /\ f = computeSOName(tests[test])
           \/ /\ pc' = "link" /\ test' = test /\ r = 0 /\ clang
              /\ f = computeObjName(tests[test]) /\ g = tests[test]
        /\ pc # "main"
    BY DEF Turn, Stops
  <1>2. /\ Types /\ Stages /\ IInv
        /\ test \in Begun /\ test \in DOMAIN tests /\ \A k \in Begun : k <= test
        /\ test \in Nat /\ test >= 1 /\ Len(tests) \in Nat /\ DOMAIN tests = 1..Len(tests)
    BY AtHand DEF MakeIInv, Types, Stages
  <1>3. f \in Files /\ g \in Files /\ f \in Writes(test)
    BY <1>1, <1>2, PlacesLemma DEF Writes
  <1>4. /\ code' \in [Files -> Files] /\ result' = r
        /\ \A x \in Files : x # f => code'[x] = code[x]
        /\ r = 0 => code'[f] = code[g]
    BY <1>2, <1>3, CommandLemma
  <1>5. /\ \A t : /\ (computeSOName(t))' = computeSOName(t)
                 /\ (computeObjName(t))' = computeObjName(t)
        /\ \A k : (Writes(k))' = Writes(k)
    BY SameNames DEF Writes
  <1>6. Begun' = Begun
    BY <1>1, <1>2 DEF Begun, Types
  <1>7. Clean' <=> Clean
    BY <1>5, <1>6 DEF Clean
  <1>8. Clean => code[g] = tests[test]
    BY AtHand DEF MakeIInv, Compiled
  <1>9. IInv' /\ Sources'
    BY StepIInv DEF MakeIInv, Sources
  <1>10. Types'
    BY <1>1, <1>2, <1>4 DEF Types, vars
  <1>11. Stages'
    BY <1>1, <1>2, <1>4 DEF Stages, vars
  <1>12. Intact'
    <2> SUFFICES ASSUME NEW h \in DOMAIN tests, \A j \in Begun : tests[h] \notin Writes(j)
                 PROVE  code'[tests[h]] = tests[h]
      BY <1>5, <1>6 DEF Intact
    <2>1. code[tests[h]] = tests[h]
      BY DEF MakeIInv, Intact
    <2>2. tests[h] # f /\ tests[h] \in Files
      BY <1>1, <1>2, <1>3, PlacesLemma
    <2> QED
      BY <1>4, <2>1, <2>2
  <1>13. Built'
    <2> SUFFICES ASSUME Clean, NEW k \in Begun, k < test'
                 PROVE  \/ \E j \in Begun : j > k /\ computeSOName(tests[k]) \in Writes(j)
                        \/ code'[computeSOName(tests[k])] = tests[k]
      BY <1>5, <1>6, <1>7 DEF Built
    <2>0. k \in DOMAIN tests /\ k \in Nat
      BY <1>2 DEF Begun
    <2>1. CASE k < test
      <3>1. \/ \E j \in Begun : j > k /\ computeSOName(tests[k]) \in Writes(j)
            \/ code[computeSOName(tests[k])] = tests[k]
        BY <2>1 DEF MakeIInv, Built
      <3>2. computeSOName(tests[k]) \in Files
        BY <1>1, <2>0, PlacesLemma
      <3> QED
        BY <1>2, <1>3, <1>4, <2>1, <2>0, <3>1, <3>2
    <2>2. CASE k = test
      <3>1. test < test'
        BY <2>2
      <3>2. r = 0 /\ f = computeSOName(tests[test])
        BY <1>1, <1>2, <3>1
      <3> QED
        BY <1>4, <1>8, <2>2, <3>2
    <2> QED
      BY <1>2, <2>0, <2>1, <2>2
  <1>14. Compiled'
    <2> SUFFICES ASSUME pc' = "link", Clean
                 PROVE  code'[computeObjName(tests[test])] = tests[test]
      <3>1. (pc' = "link" /\ Clean => code'[computeObjName(tests[test])] = tests[test])
            => Compiled'
        <4>1. pc' = "link" => (computeObjName(tests[test]))' = computeObjName(tests[test])
          BY <1>1, SameNames DEF computeObjName
        <4> QED
          BY <1>1, <1>7, <4>1 DEF Compiled
      <3> QED
        BY <3>1
    <2> QED
      BY <1>1, <1>4, <1>8
  <1> QED
    BY <1>9, <1>10, <1>11, <1>12, <1>13, <1>14 DEF MakeIInv

\* Every step preserves the invariant.
LEMMA StepMakeIInv == MakeIInv /\ [MakeNext]_<<vars, make>> => MakeIInv'
  <1> SUFFICES ASSUME MakeIInv, [MakeNext]_<<vars, make>> PROVE MakeIInv'
    OBVIOUS
  <1>1. CASE Parse
    BY <1>1, ParseStep
  <1>2. CASE VersionOrHelp \/ NothingToBuild \/ StartBuild
    BY <1>2, BeforeStep
  <1>3. CASE getTests
    BY <1>3, GetTestsStep
  <1>4. CASE SkipSource
    BY <1>4, SkipStep
  <1>5. CASE TakeSource
    BY <1>5, TakeStep
  <1>6. ASSUME NEW r \in Results, compileTest(r) PROVE MakeIInv'
    <2>1. pc = "compile" /\ UNCHANGED <<vars, clang, seen, tests, skipped, logging, status>>
      BY <1>6 DEF compileTest
    <2>2. CASE ~clang
      BY <1>6, <2>1, <2>2, CommandStep DEF compileTest
    <2>3. CASE clang
      <3>1. /\ Command(tests[test], computeObjName(tests[test]), r)
            /\ IF r = 0 THEN pc' = "link" /\ test' = test ELSE Turn(r)
        BY <1>6, <2>3 DEF compileTest
      <3> QED
        BY <2>1, <2>3, <3>1, CommandStep
    <2> QED
      BY <2>2, <2>3
  <1>7. ASSUME NEW r \in Results, linkTest(r) PROVE MakeIInv'
    BY <1>7, CommandStep DEF linkTest
  <1>8. CASE EndBuild
    BY <1>8, EndStep
  <1>9. CASE UNCHANGED <<vars, make>>
    <2>1. /\ UNCHANGED <<clang, pc, seen, tests, test, skipped, logging, code, result, status>>
          /\ UNCHANGED vars
      BY <1>9 DEF make
    <2>2. Types' /\ Begun' = Begun
      BY <2>1 DEF MakeIInv, Types, Begun, vars
    <2>3. Stages'
      BY <2>1, SameNames DEF MakeIInv, Stages, vars
    <2> QED
      BY <2>1, <2>2, <2>3, QuietStep
  <1> QED
    BY <1>1, <1>2, <1>3, <1>4, <1>5, <1>6, <1>7, <1>8, <1>9 DEF MakeNext

----------------------------------------------------------------------------
(* The theorems.                                                           *)

\* What crunchMake does with its command line is what the parser of the three
\* programs does alone, so what is proved of that one holds here.
THEOREM RunsTheParser == MakeSpec => Spec
  <1>1. MakeInit => Init
    BY DEF MakeInit
  <1> QED
    BY <1>1, ParserSteps, PTL DEF MakeSpec, Spec

\* So what crunchMake asks of its line is answered as it was given: -o and --log
\* have the name behind them, and the sources are the words.
THEOREM ReadsItsLine ==
  MakeSpec => [](ReadsInOrder /\ ParamsFit /\ TestsAreWords /\ FindsTheOption)
  BY RunsTheParser, LineIsReadInOrder, ParametersFit, WordsAreTests, OptionsAreFound, PTL

\* The invariant holds from the reading of the line to the exit, whatever the
\* commands return and the log does.
THEOREM MakeInvariance == MakeSpec => []MakeIInv
  BY InitMakeIInv, StepMakeIInv, PTL DEF MakeSpec

\* The loop of compileTests() stays within the sources, and the status a parent
\* process sees is one.
THEOREM MakeTypeCorrect == MakeSpec => []MakeTypeOK
  <1>1. MakeIInv => MakeTypeOK
    BY DEF MakeIInv, IInv, Types, MakeTypeOK
  <1> QED
    BY <1>1, MakeInvariance, PTL

\* Every library that crunchMake leaves behind was made of its own source, but
\* for that of a command that failed and those that were built over, and no
\* source is written over unless -o says so.
THEOREM LibrariesOfTheirSources == MakeSpec => []BuiltFromItsSource
  <1>1. ASSUME MakeIInv PROVE BuiltFromItsSource
    <2>1. /\ Types /\ Stages /\ Len(tests) \in Nat /\ DOMAIN tests = 1..Len(tests)
          /\ test \in Nat /\ skipped \subseteq 1..test - 1
      BY <1>1 DEF MakeIInv, Types
    <2>2. pc = "exited" => ~logging
      BY <2>1 DEF Stages
    <2>3. ASSUME pc = "exited", result = 0, ~HelpAsked
          PROVE  Attempted = DOMAIN tests \ skipped
      BY <2>1, <2>3 DEF Stages, Attempted
    <2>4. ASSUME NEW h \in DOMAIN tests, NEW j \in Attempted, tests[h] \in Writes(j), ~Given("-o")
          PROVE  FALSE
      <3>1. ~isObj(tests[h])
        BY <1>1 DEF MakeIInv, Sources
      <3>2. tests[j] \in Named
        BY <1>1 DEF MakeIInv, Types, Attempted
      <3>3. tests[j] \in Seq(STRING)
        BY <3>2, NameAssumption DEF Named
      <3>4. tests[h] = toSO(tests[j]) \/ tests[h] = toO(tests[j])
        BY <2>4 DEF Writes, computeSOName, computeObjName
      <3> QED
        BY <3>1, <3>3, <3>4, MadeIsObject
    <2>5. ASSUME pc = "exited", \A h, j \in Attempted : tests[h] \notin Writes(j),
                 NEW k \in Attempted
          PROVE  \/ result # 0 /\ k = test
                 \/ \E j \in Attempted : j > k /\ computeSOName(tests[k]) \in Writes(j)
                 \/ code[computeSOName(tests[k])] = tests[k]
      <3>1. Begun = Attempted
        BY <2>1, <2>5 DEF Begun, Attempted
      <3>2. Clean
        BY <2>5, <3>1 DEF Clean
      <3>3. CASE k < test
        BY <1>1, <3>1, <3>2, <3>3 DEF MakeIInv, Built
      <3>4. CASE k = test
        <4>1. test \in DOMAIN tests
          BY <2>5, <3>4 DEF Attempted
        <4> QED
          BY <2>1, <2>5, <3>4, <4>1 DEF Stages
      <3> QED
        BY <2>1, <2>5, <3>3, <3>4 DEF Attempted
    <2> QED
      BY <2>2, <2>3, <2>4, <2>5 DEF BuiltFromItsSource
  <1> QED
    BY <1>1, MakeInvariance, PTL
==============================================================================
