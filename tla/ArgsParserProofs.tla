--------------------------- MODULE ArgsParserProofs ---------------------------
(***************************************************************************)
(* Proofs about the parsers of the command line, for any programs, in C and *)
(* in C++, any tables of options, and any tokens and lines: nothing is read *)
(* past the end of argv, and what the programs read from an option's entry  *)
(* unchecked is there.                                                      *)
(*                                                                          *)
(* That an option is not read twice depends on a token being decided on by  *)
(* the same row each time, which the invariant says of every entry.         *)
(* That the entries are the line in order is shown from positions for them.  *)
(***************************************************************************)
EXTENDS ArgsParser, TLAPS, WellFoundedInduction

\* Row d is the first that takes or rejects t, or d is 0 and none does.
Hits(t) == {k \in DOMAIN rows : Takes(rows[k], t) \/ Rejects(rows[k], t)}
First(d, t) == \/ d = 0 /\ Hits(t) = {}
               \/ d \in Hits(t) /\ \A h \in Hits(t) : d <= h

\* The option at position p of argv, of this row, has m parameters.
Extent(row, p, m) ==
  /\ m \in 0..row.max /\ p + m <= Len(argv)
  /\ \A j \in 1..m : ~EndsParams(argv[p + j])
  /\ m = row.max \/ p + m = Len(argv) \/ EndsParams(argv[p + m + 1])

\* Every entry is of the row that decides on its token, and takes it.
Decided ==
  \A k \in DOMAIN ret :
    /\ First(ret[k].row, ret[k].value)
    /\ ret[k].row # 0 => Takes(rows[ret[k].row], ret[k].value)

IInv == TypeOK /\ ParamsFit /\ Decided

----------------------------------------------------------------------------
(* The searches of the parsers: for the first row that takes a token, and    *)
(* for the last parameter.                                                   *)

\* A set of numbers that is not empty has a least one.
LEMMA LeastNumber ==
  ASSUME NEW S \in SUBSET Nat, S # {}
  PROVE  \E m \in S : \A k \in S : m <= k
  <1>1. PICK m \in S : \A k \in S : ~ (<<k, m>> \in OpToRel(<, Nat))
    BY NatLessThanWellFounded, WFMin
  <1>2. \A k \in S : ~(k < m)
    BY <1>1, Zenon DEF OpToRel
  <1> QED
    BY <1>2

\* A token is decided on by the first row that takes or rejects it, and there is
\* one first row.
LEMMA DecidesLemma ==
  ASSUME rows \in Seq(arg_t), NEW t
  PROVE  /\ First(Decides(t), t) /\ Decides(t) \in 0..Len(rows)
         /\ \A d : First(d, t) => d = Decides(t)
  <1>1. Hits(t) \in SUBSET Nat /\ Hits(t) \subseteq 1..Len(rows)
    BY DEF Hits
  <1>2. First(Decides(t), t)
    <2>1. CASE Hits(t) = {}
      BY <2>1 DEF Decides, Hits, First
    <2>2. CASE Hits(t) # {}
      <3>1. \E k \in Hits(t) : \A h \in Hits(t) : k <= h
        BY <1>1, <2>2, LeastNumber
      <3>2. Decides(t) = CHOOSE k \in Hits(t) : \A h \in Hits(t) : k <= h
        BY <2>2 DEF Decides, Hits
      <3> QED
        BY <3>1, <3>2, Zenon DEF First
    <2> QED
      BY <2>1, <2>2
  <1>3. \A d : First(d, t) => d = Decides(t)
    BY <1>1, <1>2 DEF First
  <1> QED
    BY <1>1, <1>2, <1>3 DEF First

\* An option's parameters are there, as many as its row allows, and end before
\* the next option.
LEMMA ParamsLemma ==
  ASSUME argv \in Seq(Tokens), NEW row \in arg_t, NEW p \in 1..Len(argv)
  PROVE  /\ Extent(row, p, checkParams(row, p))
         /\ \A m : Extent(row, p, m) => m = checkParams(row, p)
  <1> DEFINE Stops == {m \in Nat : \/ m = row.max \/ p + m = Len(argv)
                                  \/ EndsParams(argv[p + m + 1])}
  <1>1. row.max \in Nat /\ row.max \in Stops /\ Len(argv) \in Nat
    BY DEF arg_t
  <1>2. PICK m \in Stops : \A k \in Stops : m <= k
    BY <1>1, LeastNumber
  <1>3. m \in 0..row.max /\ p + m <= Len(argv)
    <2>1. Len(argv) - p \in Stops
      BY <1>1
    <2>2. m \in Nat /\ m <= row.max /\ m <= Len(argv) - p
      BY <1>1, <1>2, <2>1, Zenon
    <2> QED
      BY <1>1, <2>2
  <1>4. ASSUME NEW j \in 1..m PROVE ~EndsParams(argv[p + j])
    <2>1. j - 1 \in Nat /\ ~(m <= j - 1) /\ p + (j - 1) + 1 = p + j
      BY <1>3
    <2> QED
      BY <1>2, <2>1
  <1>5. Extent(row, p, m)
    BY <1>2, <1>3, <1>4 DEF Extent
  <1>7. Extent(row, p, checkParams(row, p))
    <2> DEFINE Fits(k) ==
          /\ p + k <= Len(argv)
          /\ \A j \in 1..k : ~EndsParams(argv[p + j])
          /\ k = row.max \/ p + k = Len(argv) \/ EndsParams(argv[p + k + 1])
    <2>1. checkParams(row, p) = CHOOSE k \in 0..row.max : Fits(k)
      BY DEF checkParams
    <2>2. m \in 0..row.max /\ Fits(m)
      BY <1>5 DEF Extent
    <2> HIDE DEF Fits
    <2>3. checkParams(row, p) \in 0..row.max /\ Fits(checkParams(row, p))
      BY <2>1, <2>2
    <2> QED
      BY <2>3 DEF Fits, Extent
  <1>8. ASSUME NEW k, NEW h, Extent(row, p, k), Extent(row, p, h) PROVE ~(k < h)
    <2> SUFFICES ASSUME k < h PROVE FALSE
      OBVIOUS
    <2>1. k \in Nat /\ h \in Nat /\ h <= row.max /\ p + h <= Len(argv)
      BY <1>1, <1>8 DEF Extent
    <2>2. EndsParams(argv[p + k + 1])
      BY <1>1, <1>8, <2>1 DEF Extent
    <2>3. k + 1 \in 1..h /\ p + (k + 1) = p + k + 1
      BY <2>1
    <2> QED
      BY <1>8, <2>2, <2>3 DEF Extent
  <1>9. \A k : Extent(row, p, k) => k \in Nat
    BY <1>1 DEF Extent
  <1>10. ASSUME NEW k, Extent(row, p, k) PROVE k = checkParams(row, p)
    <2>1. k \in Nat /\ checkParams(row, p) \in Nat
      BY <1>7, <1>9, <1>10
    <2>2. ~(k < checkParams(row, p)) /\ ~(checkParams(row, p) < k)
      BY <1>7, <1>8, <1>10
    <2> QED
      BY <2>1, <2>2
  <1> QED
    BY <1>7, <1>10

----------------------------------------------------------------------------
(* The steps.                                                               *)

\* What TypeOK says of the constants of the program at hand.
LEMMA ProgramLemma ==
  ASSUME TypeOK
  PROVE  argv \in Seq(Tokens) /\ rows \in Seq(arg_t) /\ Len(argv) \in Nat
  BY LinesAssumption, TableAssumption DEF TypeOK, rows

\* What TypeOK says of an entry.
LEMMA EntryLemma ==
  ASSUME TypeOK, NEW k \in DOMAIN ret
  PROVE  /\ rows \in Seq(arg_t) /\ prog \in Programs
         /\ ret[k].row \in 0..Len(rows) /\ ret[k].value \in Tokens
  <1>1. rows \in Seq(arg_t) /\ prog \in Programs
    BY ProgramLemma DEF TypeOK
  <1> DEFINE parsedArg_t == [value : Tokens, row : 0..Len(rows), params : Seq(Tokens)]
  <1>2. ret \in Seq(parsedArg_t)
    BY DEF TypeOK
  <1>3. ret[k] \in parsedArg_t
    <2> HIDE DEF parsedArg_t
    <2> QED
      BY <1>2
  <1> QED
    BY <1>1, <1>3

\* Nothing was read yet.
LEMMA InitIInv == Init => IInv
  <1> SUFFICES ASSUME Init PROVE IInv
    OBVIOUS
  <1>1. argv \in Seq(Tokens)
    BY LinesAssumption DEF Init
  <1> QED
    BY <1>1 DEF Init, IInv, TypeOK, ParamsFit, Decided

\* The variables of the invariant after an entry was added to what was read.
LEMMA AddEntry ==
  ASSUME IInv, NEW entry, ret' = Append(ret, entry), prog' = prog, argv' = argv,
         entry \in [value : Tokens, row : 0..Len(rows), params : Seq(Tokens)],
         entry.row = Decides(entry.value),
         entry.row # 0 =>
           LET row == rows[entry.row]
           IN  /\ Len(entry.params) \in row.min..row.max
               /\ \A j \in DOMAIN entry.params :
                    \A r \in DOMAIN rows : entry.params[j] # rows[r].value
               /\ row.repeatable \/ ~checkAlreadyFound(entry.value)
               /\ Takes(row, entry.value)
  PROVE  /\ ret' \in Seq([value : Tokens, row : 0..Len(rows'), params : Seq(Tokens)])
         /\ ParamsFit' /\ Decided'
  <1> DEFINE n == Len(ret) + 1
  <1>1. /\ ret \in Seq([value : Tokens, row : 0..Len(rows), params : Seq(Tokens)])
        /\ rows \in Seq(arg_t) /\ rows' = rows
    BY ProgramLemma DEF IInv, TypeOK, rows
  <1>2. /\ DOMAIN ret' = 1..n /\ DOMAIN ret = 1..n - 1 /\ n \in Nat \ {0}
        /\ ret'[n] = entry /\ \A k \in 1..n - 1 : ret'[k] = ret[k]
    BY <1>1
  <1>3. \A d, t : First(d, t) => First(d, t)'
    BY <1>1 DEF First, Hits, Takes, Rejects
  <1>4. Decided'
    <2>1. First(entry.row, entry.value)
      BY <1>1, DecidesLemma
    <2>2. ASSUME NEW k \in 1..n
          PROVE  /\ First(ret'[k].row, ret'[k].value)
                 /\ ret'[k].row # 0 => Takes(rows[ret'[k].row], ret'[k].value)
      <3>1. CASE k = n
        BY <1>2, <2>1, <3>1
      <3>2. CASE k # n
        BY <1>2, <3>2 DEF IInv, Decided
      <3> QED
        BY <3>1, <3>2
    <2> QED
      BY <1>1, <1>2, <1>3, <2>2 DEF Decided
  <1>5. ParamsFit'
    <2> DEFINE Fits(k) ==
          LET row == rows'[ret'[k].row]
          IN  /\ Len(ret'[k].params) \in row.min..row.max
              /\ \A j \in DOMAIN ret'[k].params :
                   \A r \in DOMAIN rows' : ret'[k].params[j] # rows'[r].value
              /\ row.repeatable \/ \A h \in DOMAIN ret' :
                   ret'[h].value = ret'[k].value => h = k
    <2> SUFFICES ASSUME NEW k \in DOMAIN ret', ret'[k].row # 0 PROVE Fits(k)
      BY Zenon DEF ParamsFit
    <2>1. ASSUME NEW h \in 1..n - 1, ret[h].value = entry.value, entry.row # 0 \/ ret[h].row # 0
          PROVE  ret[h].row = entry.row /\ rows[entry.row].repeatable
      <3>1. ret[h].row = entry.row
        BY <1>1, <1>2, <2>1, DecidesLemma DEF IInv, Decided
      <3> QED
        BY <1>2, <2>1, <3>1 DEF checkAlreadyFound
    <2>2. CASE k = n
      BY <1>1, <1>2, <2>1, <2>2
    <2>3. CASE k # n
      <3>0. k \in 1..n
        BY ONLY <1>2
      <3>1. k \in DOMAIN ret /\ ret'[k] = ret[k] /\ rows' = rows
        BY ONLY <1>1, <1>2, <2>3, <3>0
      <3>2. ASSUME ~rows[ret[k].row].repeatable, NEW h \in 1..n,
                   ret'[h].value = ret[k].value
            PROVE  h = k
        BY <1>2, <2>1, <3>1, <3>2 DEF IInv, ParamsFit
      <3>3. /\ Len(ret[k].params) \in rows[ret[k].row].min..rows[ret[k].row].max
            /\ \A j \in DOMAIN ret[k].params :
                 \A r \in DOMAIN rows : ret[k].params[j] # rows[r].value
        BY <3>1 DEF IInv, ParamsFit
      <3> QED
        BY <1>2, <3>1, <3>2, <3>3
    <2> QED
      BY <2>2, <2>3
  <1> QED
    BY <1>1, <1>4, <1>5

\* Reading an argument keeps the invariant.
LEMMA ReadStep == IInv /\ ReadArgument => IInv'
  <1> SUFFICES ASSUME IInv, ReadArgument PROVE IInv'
    OBVIOUS
  <1> DEFINE d == Decides(argv[i])
  <1>1. /\ argv \in Seq(Tokens) /\ rows \in Seq(arg_t) /\ i \in 1..Len(argv)
        /\ argv[i] \in Tokens /\ state = "reading" /\ Len(argv) \in Nat
    BY ProgramLemma DEF IInv, TypeOK, ReadArgument
  <1>2. First(d, argv[i]) /\ d \in 0..Len(rows)
    BY <1>1, DecidesLemma
  <1> HIDE DEF d
  <1>3. CASE DropDuplicate(d)
    <2>1. TypeOK'
      BY <1>1, <1>3 DEF DropDuplicate, IInv, TypeOK, rows
    <2>2. ParamsFit' /\ Decided'
      BY <1>3 DEF DropDuplicate, IInv, ParamsFit, Decided, First, Hits, Takes, Rejects, rows
    <2> QED
      BY <2>1, <2>2 DEF IInv
  <1>4. ASSUME Refuse PROVE IInv'
    BY <1>4 DEF Refuse, IInv, TypeOK, ParamsFit, Decided, rows
  <1>5. CASE TakeOption(d)
    <2> DEFINE n == checkParams(rows[d], i)
               entry == [value |-> argv[i], row |-> d, params |-> SubSeq(argv, i + 1, i + n)]
    <2>1. d \in 1..Len(rows) /\ rows[d] \in arg_t
      BY <1>1, <1>2, <1>5 DEF TakeOption, IsOption
    <2>2. /\ n \in 0..rows[d].max /\ i + n <= Len(argv) /\ n \in Nat
          /\ \A j \in 1..n : ~EndsParams(argv[i + j])
      <3>1. rows[d].max \in Nat
        BY <2>1 DEF arg_t
      <3>2. /\ n \in 0..rows[d].max /\ i + n <= Len(argv)
            /\ \A j \in 1..n : ~EndsParams(argv[i + j])
        BY <1>1, <2>1, ParamsLemma, Zenon DEF Extent
      <3> QED
        BY <3>1, <3>2
    <2>3. n >= rows[d].min /\ ret' = Append(ret, entry) /\ i' = i + n + 1
          /\ UNCHANGED <<prog, argv, state>> /\ ~IsDuplicate(d)
      BY <1>5 DEF TakeOption
    <2> HIDE DEF n
    <2>4. /\ entry.params \in Seq(Tokens) /\ Len(entry.params) = n
          /\ \A j \in 1..n : entry.params[j] = argv[i + j]
      BY <1>1, <2>2
    <2>5. \A j \in 1..n : \A r \in DOMAIN rows : argv[i + j] # rows[r].value
      BY <2>2 DEF EndsParams, Takes
    <2>6. /\ ret' \in Seq([value : Tokens, row : 0..Len(rows'), params : Seq(Tokens)])
          /\ ParamsFit' /\ Decided'
      <3>1. entry \in [value : Tokens, row : 0..Len(rows), params : Seq(Tokens)]
        BY <1>1, <1>2, <2>4
      <3>2. entry.row = Decides(entry.value)
        BY DEF d
      <3>3. LET row == rows[entry.row]
            IN  /\ Len(entry.params) \in row.min..row.max
                /\ \A j \in DOMAIN entry.params :
                     \A r \in DOMAIN rows : entry.params[j] # rows[r].value
                /\ row.repeatable \/ ~checkAlreadyFound(entry.value)
                /\ Takes(row, entry.value)
        <4>1. rows[d].min \in Nat /\ rows[d].max \in Nat /\ DOMAIN entry.params = 1..n
          BY <2>1, <2>2, <2>4 DEF arg_t
        <4>2. n >= rows[d].min /\ n <= rows[d].max /\ n \in Nat
          BY <2>2, <2>3, <4>1
        <4>3. Len(entry.params) \in rows[d].min..rows[d].max
          BY ONLY <2>4, <4>1, <4>2
        <4>4. rows[d].repeatable \/ ~checkAlreadyFound(argv[i])
          BY <2>3, Zenon DEF IsDuplicate
        <4>5. \A j \in DOMAIN entry.params : \A r \in DOMAIN rows :
                 entry.params[j] # rows[r].value
          BY <2>4, <2>5, <4>1
        <4>6. Takes(rows[d], argv[i])
          BY <1>5, Zenon DEF TakeOption, IsOption
        <4> QED
          BY <4>3, <4>4, <4>5, <4>6
      <3> QED
        BY <2>3, <3>1, <3>2, <3>3, AddEntry
    <2>7. i' \in 1..Len(argv) + 1
      BY <1>1, <2>2, <2>3
    <2> QED
      BY <2>3, <2>6, <2>7 DEF IInv, TypeOK
  <1>6. CASE TakeWord(d)
    <2> DEFINE entry == [value |-> argv[i], row |-> 0, params |-> <<>>]
    <2>1. ret' = Append(ret, entry) /\ d = 0 /\ i' = i + 1 /\ UNCHANGED <<prog, argv, state>>
      BY <1>6 DEF TakeWord
    <2>2. entry \in [value : Tokens, row : 0..Len(rows), params : Seq(Tokens)]
      BY <1>1
    <2>3. /\ ret' \in Seq([value : Tokens, row : 0..Len(rows'), params : Seq(Tokens)])
          /\ ParamsFit' /\ Decided'
      BY <2>1, <2>2, AddEntry DEF d
    <2> QED
      BY <1>1, <2>1, <2>3 DEF IInv, TypeOK
  <1> QED
    BY <1>3, <1>4, <1>5, <1>6 DEF ReadArgument, NotEnoughParams, BadlyFormed, d

\* Every step, and stuttering, preserves the invariant.
LEMMA StepIInv == IInv /\ [Next]_vars => IInv'
  <1> SUFFICES ASSUME IInv, [Next]_vars PROVE IInv'
    OBVIOUS
  <1>1. CASE OutOfMemory
    BY <1>1 DEF OutOfMemory, Refuse, IInv, TypeOK, ParamsFit, Decided, rows
  <1>2. CASE Return \/ UNCHANGED vars
    <2>1. TypeOK'
      BY <1>2 DEF Return, vars, IInv, TypeOK, rows
    <2>2. ParamsFit' /\ Decided'
      BY <1>2 DEF Return, vars, IInv, ParamsFit, Decided, First, Hits, Takes, Rejects, rows
    <2> QED
      BY <2>1, <2>2 DEF IInv
  <1> QED
    BY <1>1, <1>2, ReadStep DEF Next

\* The invariant holds while a line is read, and of what was read.
THEOREM Invariance == Spec => []IInv
  BY InitIInv, StepIInv, PTL DEF Spec

\* Nothing is read past the end of argv, whatever it is.
THEOREM TypeCorrect == Spec => []TypeOK
  <1>1. IInv => TypeOK
    BY DEF IInv
  <1> QED
    BY <1>1, Invariance, PTL

\* An option has the parameters its row wants, and is there once unless it may
\* be repeated.
THEOREM ParametersFit == Spec => []ParamsFit
  <1>1. IInv => ParamsFit
    BY DEF IInv
  <1> QED
    BY <1>1, Invariance, PTL

\* The tests that run are the words of the line, although getTests() does not
\* compare as parseArguments() did.
THEOREM WordsAreTests == Spec => []TestsAreWords
  <1>1. ASSUME IInv PROVE TestsAreWords
    <2> SUFFICES ASSUME NEW k \in DOMAIN ret
                 PROVE  ~findArgInArgs(ret[k].value) <=> ret[k].row = 0
      BY DEF TestsAreWords, namedTests
    <2>1. /\ ret[k].row \in 0..Len(rows) /\ ret[k].value \in Tokens
          /\ rows \in Seq(arg_t)
      BY <1>1, EntryLemma DEF IInv
    <2>2. ret[k].value \in Beginnings[ret[k].value]
      BY <2>1, TextAssumption
    <2>3. /\ First(ret[k].row, ret[k].value)
          /\ ret[k].row # 0 => Takes(rows[ret[k].row], ret[k].value)
      BY <1>1 DEF IInv, Decided
    <2>4. CASE ret[k].row = 0
      BY <2>1, <2>3, <2>4 DEF First, Hits, findArgInArgs, Takes, Rejects
    <2>5. CASE ret[k].row # 0
      BY <2>1, <2>2, <2>3, <2>5 DEF findArgInArgs, Takes, Begins
    <2> QED
      BY <2>4, <2>5
  <1> QED
    BY <1>1, Invariance, PTL

\* The order of the rows is what makes the looks-up agree with the parser.
LEMMA FindsLemma ==
  ASSUME IInv
  PROVE  FindsTheOption
  <1> SUFFICES ASSUME NEW r \in DOMAIN rows, NEW k \in DOMAIN ret
               PROVE  /\ Is(ret[k], rows[r].value) <=> ret[k].row = r
                      /\ rows[r].incomplete =>
                           (Begins(ret[k].value, rows[r].value) <=> ret[k].row = r)
    BY DEF FindsTheOption, findArg, getLinkFunc
  <1> DEFINE v == ret[k].value
             d == ret[k].row
  <1>1. /\ d \in 0..Len(rows) /\ v \in Tokens /\ rows \in Seq(arg_t)
        /\ prog \in Programs /\ r \in 1..Len(rows)
    BY EntryLemma DEF IInv
  <1>2. First(d, v) /\ (d # 0 => Takes(rows[d], v))
    BY DEF IInv, Decided
  <1>3. d \in DOMAIN rows /\ d # r =>
          /\ rows[d].value # rows[r].value
          /\ rows[d].incomplete => ~Begins(rows[r].value, rows[d].value)
          /\ rows[r].incomplete => ~Begins(rows[d].value, rows[r].value)
          /\ d < r /\ rows[d].incomplete => ~Begins(rows[d].value, rows[r].value)
          /\ d < r /\ prog \in InC => ~Begins(rows[r].value, rows[d].value)
    BY <1>1, UnambiguousAssumption DEF rows, Begins
  <1>4. /\ Begins(v, v) /\ Begins(rows[r].value, rows[r].value)
        /\ d # 0 /\ Begins(v, rows[d].value) /\ Begins(v, rows[r].value) =>
             \/ Begins(rows[d].value, rows[r].value)
             \/ Begins(rows[r].value, rows[d].value)
    <2>0. rows[r] \in arg_t
      BY <1>1
    <2>1. /\ rows[r].value \in Tokens
          /\ v \in Beginnings[v] /\ rows[r].value \in Beginnings[rows[r].value]
      BY <1>1, <2>0, TextAssumption DEF arg_t
    <2>2. \A b, c \in Beginnings[v] : b \in Beginnings[c] \/ c \in Beginnings[b]
      BY <1>1, TextAssumption
    <2> QED
      BY <2>1, <2>2, Zenon DEF Begins
  <1> HIDE DEF v, d
  <1>5. Is(ret[k], rows[r].value) <=>
          \/ v = rows[r].value
          \/ /\ d # 0 /\ rows[d].incomplete /\ Begins(v, rows[r].value)
             /\ prog \in InC \/ Begins(rows[r].value, rows[d].value)
    BY DEF Is, Incomplete, v, d
  <1>6. Takes(rows[r], v) => d # 0 /\ d <= r
    <2>1. Takes(rows[r], v) => r \in Hits(v)
      BY <1>1 DEF Hits
    <2>2. Hits(v) \subseteq 1..Len(rows)
      BY <1>1 DEF Hits
    <2> QED
      BY <1>1, <1>2, <2>1, <2>2 DEF First
  <1>7. Rejects(rows[r], v) => d # 0 /\ d <= r
    <2>1. Rejects(rows[r], v) => r \in Hits(v)
      BY <1>1 DEF Hits
    <2>2. Hits(v) \subseteq 1..Len(rows)
      BY <1>1 DEF Hits
    <2> QED
      BY <1>1, <1>2, <2>1, <2>2 DEF First
  <1>8. (Is(ret[k], rows[r].value) <=> d = r)
        /\ (rows[r].incomplete => (Begins(v, rows[r].value) <=> d = r))
    <2>1. CASE d = 0
      BY <1>1, <1>4, <1>5, <1>6, <2>1 DEF Takes
    <2>2. CASE d = r
      BY <1>1, <1>2, <1>4, <1>5, <2>2 DEF Takes
    <2>3. CASE d # 0 /\ d # r
      <3>1. d \in DOMAIN rows /\ Begins(v, rows[d].value)
        BY <1>1, <1>2, <1>4, <2>3 DEF Takes
      <3>2. v # rows[r].value
        BY <1>1, <1>2, <1>3, <1>6, <2>3, <3>1 DEF Takes
      <3>3. ASSUME rows[d].incomplete, Begins(v, rows[r].value),
                   prog \in InC \/ Begins(rows[r].value, rows[d].value)
            PROVE  FALSE
        <4>1. Begins(rows[d].value, rows[r].value) /\ prog \in InC
          BY <1>3, <1>4, <2>3, <3>1, <3>3
        <4>2. ~rows[r].incomplete
          BY <1>3, <2>3, <3>1, <4>1
        <4>3. d <= r
          BY <1>7, <3>3, <4>1, <4>2 DEF Rejects
        <4> QED
          BY <1>1, <1>3, <2>3, <3>1, <3>3, <4>1, <4>3
      <3>4. ASSUME rows[r].incomplete, Begins(v, rows[r].value)
            PROVE  FALSE
        <4>1. v = rows[d].value \/ rows[d].incomplete
          BY <1>2, <2>3 DEF Takes
        <4> QED
          BY <1>3, <1>4, <2>3, <3>1, <3>4, <4>1
      <3> QED
        BY <1>5, <2>3, <3>2, <3>3, <3>4
    <2> QED
      BY <2>1, <2>2, <2>3
  <1> QED
    BY <1>8 DEF v, d

\* An option is found by its name where it was given, and nowhere else.
THEOREM OptionsAreFound == Spec => []FindsTheOption
  <1>1. IInv => FindsTheOption
    BY FindsLemma
  <1> QED
    BY <1>1, Invariance, PTL

----------------------------------------------------------------------------
(* The order of what was read.                                              *)

\* How long what was read is.
LEMMA LengthsLemma ==
  ASSUME TypeOK
  PROVE  /\ Len(ret) \in Nat /\ DOMAIN ret = 1..Len(ret) /\ i \in Nat \ {0}
         /\ \A k \in DOMAIN ret :
               Len(ret[k].params) \in Nat /\ DOMAIN ret[k].params = 1..Len(ret[k].params)
  <1> DEFINE parsedArg_t == [value : Tokens, row : 0..Len(rows), params : Seq(Tokens)]
  <1>1. ret \in Seq(parsedArg_t) /\ i \in Nat \ {0}
    BY ProgramLemma DEF TypeOK
  <1>2. \A e \in parsedArg_t : Len(e.params) \in Nat /\ DOMAIN e.params = 1..Len(e.params)
    OBVIOUS
  <1> HIDE DEF parsedArg_t
  <1> QED
    BY <1>1, <1>2

\* An entry of the m + 1 arguments from i on is in order behind the others.
LEMMA AddInOrder ==
  ASSUME IInv, ReadsInOrder, state = "reading", NEW entry, NEW m \in Nat,
         ret' = Append(ret, entry), i' = i + m + 1, UNCHANGED <<prog, argv, state>>,
         entry.value = argv[i], Len(entry.params) = m, DOMAIN entry.params = 1..m,
         \A j \in 1..m : entry.params[j] = argv[i + j]
  PROVE  ReadsInOrder'
  <1>0. PICK n : n = Len(ret) + 1
    OBVIOUS
  <1>1. PICK at \in [DOMAIN ret -> 1..i - 1] : ReadAt(at)
    BY DEF ReadsInOrder
  <1>2. /\ Len(ret) \in Nat /\ DOMAIN ret = 1..n - 1 /\ i \in Nat \ {0} /\ n \in Nat \ {0}
        /\ \A k \in DOMAIN ret :
              Len(ret[k].params) \in Nat /\ DOMAIN ret[k].params = 1..Len(ret[k].params)
    BY <1>0, LengthsLemma DEF IInv
  <1>3. /\ DOMAIN ret' = 1..n /\ ret'[n] = entry /\ \A k \in 1..n - 1 : ret'[k] = ret[k]
        /\ rows' = rows
    <2>1. ret \in Seq([value : Tokens, row : 0..Len(rows), params : Seq(Tokens)])
      BY DEF IInv, TypeOK
    <2> QED
      BY <1>0, <2>1 DEF rows
  <1>new. PICK new : new = [k \in 1..n |-> IF k = n THEN i ELSE at[k]]
    OBVIOUS
  <1>4. new[n] = i /\ \A k \in 1..n - 1 : new[k] = at[k] /\ k # n
    BY <1>2, <1>new
  <1>5. new \in [DOMAIN ret' -> 1..i' - 1]
    BY <1>1, <1>2, <1>3, <1>new
  <1>6. /\ Span(new, n)' = i..i + m
        /\ \A k \in 1..n - 1 : Span(new, k)' = Span(at, k) /\ Span(at, k) \subseteq 1..i - 1
    BY <1>1, <1>2, <1>3, <1>4 DEF Span, ReadAt
  <1>7. \A k \in DOMAIN ret' :
          /\ Span(new, k)' \subseteq 1..i' - 1
          /\ ret'[k].value = argv[new[k]]
          /\ \A j \in DOMAIN ret'[k].params : ret'[k].params[j] = argv[new[k] + j]
    <2> TAKE k \in DOMAIN ret'
    <2>1. CASE k = n
      BY <1>2, <1>3, <1>4, <1>6, <2>1
    <2>2. CASE k # n
      BY <1>1, <1>2, <1>3, <1>4, <1>6, <2>2 DEF ReadAt
    <2> QED
      BY <2>1, <2>2
  <1>8. \A k, h \in DOMAIN ret' : h < k => \A p \in Span(new, h)' : p < new[k]
    <2> SUFFICES ASSUME NEW k \in 1..n, NEW h \in 1..n, h < k, NEW p \in Span(new, h)'
                 PROVE  p < new[k]
      BY <1>3
    <2>1. h \in 1..n - 1 /\ p \in Span(at, h)
      BY <1>2, <1>6
    <2>2. CASE k = n
      BY <1>2, <1>4, <1>6, <2>1, <2>2
    <2>3. CASE k # n
      <3>1. k \in DOMAIN ret /\ h \in DOMAIN ret /\ new[k] = at[k]
        BY <1>2, <1>4, <2>1, <2>3
      <3> QED
        BY <1>1, <2>1, <3>1 DEF ReadAt
    <2> QED
      BY <2>2, <2>3
  <1>9. \A p \in 1..i' - 1 :
          (\E k \in DOMAIN ret' : p \in Span(new, k)') \/ Repeats(new, p)'
    <2> TAKE p \in 1..i' - 1
    <2>1. CASE p >= i
      <3>1. p \in Span(new, n)' /\ n \in DOMAIN ret'
        BY <1>2, <1>3, <1>6, <2>1
      <3> QED
        BY <3>1
    <2>2. CASE p < i
      <3>1. p \in 1..i - 1
        BY <1>2, <2>2
      <3>2. CASE \E k \in DOMAIN ret : p \in Span(at, k)
        BY <1>2, <1>3, <1>6, <3>2
      <3>3. CASE Repeats(at, p)
        <4>1. PICK k \in DOMAIN ret :
                 /\ at[k] < p /\ ret[k].value = argv[p]
                 /\ ret[k].row # 0 /\ ~rows[ret[k].row].repeatable
          BY <3>3 DEF Repeats
        <4>2. k \in DOMAIN ret' /\ ret'[k] = ret[k] /\ new[k] = at[k]
          BY <1>2, <1>3, <1>4
        <4> QED
          BY <1>3, <4>1, <4>2 DEF Repeats
      <3> QED
        BY <1>1, <3>1, <3>2, <3>3 DEF ReadAt
    <2> QED
      BY <1>2, <2>1, <2>2
  <1>10. ReadAt(new)'
    BY <1>7, <1>8, <1>9 DEF ReadAt
  <1> QED
    BY <1>5, <1>10 DEF ReadsInOrder

\* What is passed over is a copy of an option that is not repeated.
LEMMA DropInOrder ==
  ASSUME IInv, ReadsInOrder, state = "reading", DropDuplicate(Decides(argv[i]))
  PROVE  ReadsInOrder'
  <1>1. PICK at \in [DOMAIN ret -> 1..i - 1] : ReadAt(at)
    BY DEF ReadsInOrder
  <1>2. PICK d : d = Decides(argv[i])
    OBVIOUS
  <1>3. /\ UNCHANGED <<prog, argv, ret, state, rows>> /\ i' = i + 1
        /\ d # 0 /\ ~rows[d].repeatable /\ checkAlreadyFound(argv[i])
    BY <1>2 DEF DropDuplicate, IsOption, IsDuplicate, rows
  <1>4. /\ i \in Nat \ {0} /\ rows \in Seq(arg_t)
        /\ \A k \in DOMAIN ret : Len(ret[k].params) \in Nat
    BY LengthsLemma, ProgramLemma DEF IInv
  <1>5. PICK k \in DOMAIN ret : ret[k].value = argv[i]
    BY <1>3 DEF checkAlreadyFound
  <1>6. ret[k].row = d
    BY <1>2, <1>4, <1>5, DecidesLemma DEF IInv, Decided
  <1>7. at[k] < i
    BY <1>1, <1>4
  <1>last. PICK last : last = i
    OBVIOUS
  <1>8. Repeats(at, last)' /\ \A p \in 1..i - 1 : Repeats(at, p) => Repeats(at, p)'
    BY <1>3, <1>5, <1>6, <1>7, <1>last DEF Repeats
  <1>9. \A h : Span(at, h)' = Span(at, h)
    BY <1>3 DEF Span
  <1>10. ReadAt(at)'
    <2>1. \A h \in DOMAIN ret : Span(at, h)' \subseteq 1..i' - 1
      BY <1>1, <1>3, <1>4, <1>9 DEF ReadAt
    <2>2. \A p \in 1..i' - 1 : (\E h \in DOMAIN ret : p \in Span(at, h)) \/ Repeats(at, p)'
      <3> TAKE p \in 1..i' - 1
      <3>1. p = last \/ p \in 1..i - 1
        BY <1>3, <1>4, <1>last
      <3> QED
        BY <1>1, <1>8, <3>1 DEF ReadAt
    <2> QED
      BY <1>1, <1>3, <1>9, <2>1, <2>2 DEF ReadAt
  <1>11. at \in [DOMAIN ret' -> 1..i' - 1]
    BY <1>1, <1>3, <1>4
  <1> QED
    BY <1>10, <1>11 DEF ReadsInOrder

\* Every step keeps the order.
LEMMA OrderStep == IInv /\ ReadsInOrder /\ [Next]_vars => ReadsInOrder'
  <1> SUFFICES ASSUME IInv, ReadsInOrder, [Next]_vars PROVE ReadsInOrder'
    OBVIOUS
  <1>1. ASSUME Refuse PROVE ReadsInOrder'
    BY <1>1 DEF Refuse, ReadsInOrder
  <1>2. ASSUME UNCHANGED <<prog, argv, i, ret>>, state' # "refused" => state # "refused"
        PROVE  ReadsInOrder'
    BY <1>2 DEF ReadsInOrder, ReadAt, Span, Repeats, rows
  <1>3. CASE ReadArgument
    <2> DEFINE d == Decides(argv[i])
               m == checkParams(rows[d], i)
    <2>1. /\ argv \in Seq(Tokens) /\ rows \in Seq(arg_t) /\ i \in 1..Len(argv)
          /\ Len(argv) \in Nat /\ state = "reading" /\ d \in 0..Len(rows)
      BY <1>3, ProgramLemma, DecidesLemma DEF IInv, TypeOK, ReadArgument
    <2>2. CASE DropDuplicate(d)
      BY <2>1, <2>2, DropInOrder
    <2>3. CASE TakeOption(d)
      <3> DEFINE params == SubSeq(argv, i + 1, i + m)
                 entry == [value |-> argv[i], row |-> d, params |-> params]
      <3>1. /\ ret' = Append(ret, entry) /\ i' = i + m + 1
            /\ UNCHANGED <<prog, argv, state>> /\ d # 0
        BY <2>3 DEF TakeOption, IsOption
      <3>2. m \in Nat /\ i + m <= Len(argv)
        <4>1. d \in 1..Len(rows) /\ rows[d] \in arg_t
          BY <2>1, <3>1
        <4>2. rows[d].max \in Nat
          BY <4>1 DEF arg_t
        <4>3. m \in 0..rows[d].max /\ i + m <= Len(argv)
          BY <2>1, <4>1, ParamsLemma, Zenon DEF Extent
        <4> QED
          BY <4>2, <4>3
      <3> HIDE DEF m, d
      <3>3. Len(params) = m /\ DOMAIN params = 1..m /\ \A j \in 1..m : params[j] = argv[i + j]
        <4>1. params \in Seq(Tokens) /\ Len(params) = m /\ \A j \in 1..m : params[j] = argv[i + j]
          BY <2>1, <3>2
        <4> HIDE DEF params
        <4> QED
          BY <4>1
      <3> HIDE DEF params
      <3>4. entry.value = argv[i] /\ entry.params = params
        OBVIOUS
      <3> HIDE DEF entry
      <3> QED
        BY <2>1, <3>1, <3>2, <3>3, <3>4, AddInOrder
    <2>4. CASE TakeWord(d)
      <3> DEFINE entry == [value |-> argv[i], row |-> 0, params |-> <<>>]
      <3>1. ret' = Append(ret, entry) /\ i' = i + 0 + 1 /\ UNCHANGED <<prog, argv, state>>
        BY <2>1, <2>4 DEF TakeWord
      <3>2. /\ entry.value = argv[i] /\ Len(entry.params) = 0
            /\ DOMAIN entry.params = 1..0 /\ \A j \in 1..0 : entry.params[j] = argv[i + j]
        OBVIOUS
      <3> HIDE DEF entry
      <3> QED
        BY <2>1, <3>1, <3>2, AddInOrder
    <2> QED
      BY <1>1, <1>3, <2>2, <2>3, <2>4 DEF ReadArgument, NotEnoughParams, BadlyFormed
  <1>4. CASE Return
    BY <1>2, <1>4 DEF Return
  <1>5. CASE UNCHANGED vars
    BY <1>2, <1>5 DEF vars
  <1> QED
    BY <1>1, <1>3, <1>4, <1>5 DEF Next, OutOfMemory

\* What a program goes by is what it was given, argument by argument, although
\* parameters and options are told apart by different comparisons.
THEOREM LineIsReadInOrder == Spec => []ReadsInOrder
  <1>1. Init => ReadsInOrder
    <2> SUFFICES ASSUME Init PROVE ReadsInOrder
      OBVIOUS
    <2>1. ret = <<>> /\ i = 1 /\ DOMAIN ret = {}
      BY DEF Init
    <2>2. [k \in DOMAIN ret |-> k] \in [DOMAIN ret -> 1..i - 1]
      BY <2>1
    <2>3. ReadAt([k \in DOMAIN ret |-> k])
      BY <2>1 DEF ReadAt
    <2> QED
      BY <2>2, <2>3 DEF ReadsInOrder
  <1> QED
    BY <1>1, OrderStep, Invariance, PTL DEF Spec
==============================================================================
