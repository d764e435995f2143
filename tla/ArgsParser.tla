------------------------------ MODULE ArgsParser ------------------------------
(***************************************************************************)
(* The command line of the three programs: parseArguments reads argv       *)
(* against the registered table of options (src/crunch/ArgsParser.c for    *)
(* crunch, src/crunch++/argsParser.cxx for crunch++ and crunchMake), then  *)
(* findArg, findArgInArgs and getTests ask what was read.                  *)
(*                                                                         *)
(* A token is a member of a set; all the code ever does with its text is   *)
(* to compare it with another and to ask whether one begins with another,  *)
(* so Beginnings holds, for each token, those that it begins with.         *)
(* The two parsers differ in three places: which row calls a token badly   *)
(* formed, what ends an option's parameters and how a name is looked up.   *)
(***************************************************************************)
EXTENDS Naturals, Sequences

CONSTANTS
    Programs,   \* the programs that register a table
    InC,        \* those of them that use the C parser
    Table,      \* Table[p]: the rows of p's table, in order
    Lines,      \* Lines[p]: the command lines p is given
    Beginnings  \* Beginnings[t]: the tokens t begins with, t included

Tokens == DOMAIN Beginnings

\* arg_t: an option, and how many parameters it takes.
arg_t == [value : Tokens, min : Nat, max : Nat, incomplete : BOOLEAN, repeatable : BOOLEAN]

ASSUME ProgramsAssumption == InC \subseteq Programs
ASSUME LinesAssumption == \A p \in Programs : Lines[p] \subseteq Seq(Tokens)
ASSUME TableAssumption == \A p \in Programs : Table[p] \in Seq(arg_t)

\* Of two beginnings of a token one begins with the other.
ASSUME TextAssumption ==
       \A t \in Tokens :
          /\ t \in Beginnings[t]
          /\ \A b, c \in Beginnings[t] : b \in Beginnings[c] \/ c \in Beginnings[b]

\* What the order of the rows is for: no option's name is that of another, or
\* begins with that of one that is followed by text, which in turn does not
\* begin with that of a later one; in C none begins with that of an earlier one.
ASSUME UnambiguousAssumption ==
       \A p \in Programs : \A d, r \in DOMAIN Table[p] :
          LET D == Table[p][d]
              R == Table[p][r]
          IN  d # r => /\ D.value # R.value
                       /\ D.incomplete => D.value \notin Beginnings[R.value]
                       /\ d < r /\ D.incomplete => R.value \notin Beginnings[D.value]
                       /\ d < r /\ p \in InC => D.value \notin Beginnings[R.value]

VARIABLES
    prog,    \* the running program
    argv,    \* its arguments, argv[0] left out
    i,       \* the next one to read
    ret,     \* what was read: value, params and row, 0 for a plain word
    state    \* "reading", "read" or "refused"

vars == <<prog, argv, i, ret, state>>

rows == Table[prog]

\* strncmp(p, t, strlen(p)) == 0, compare(0, p.length(), p) == 0
Begins(t, p) == p \in Beginnings[t]

\* The row takes the token: arg_t::matches, and the test it replaces in C.
Takes(row, t) == t = row.value \/ (row.incomplete /\ Begins(t, row.value))

\* The row calls the token badly formed: in C a complete option with more text
\* behind it, in C++ the beginning of an option that wants text behind it.
Rejects(row, t) ==
    IF prog \in InC THEN ~row.incomplete /\ Begins(t, row.value)
                    ELSE row.incomplete /\ Begins(row.value, t)

\* The first row that takes or rejects the token decides; 0 if none does.
Decides(t) ==
    LET Hits == {k \in DOMAIN rows : Takes(rows[k], t) \/ Rejects(rows[k], t)}
    IN  IF Hits = {} THEN 0 ELSE CHOOSE k \in Hits : \A h \in Hits : k <= h

checkAlreadyFound(t) == \E k \in DOMAIN ret : ret[k].value = t

\* What ends the parameters of an option: the exact name of one in C, whatever
\* a row takes in C++.
EndsParams(t) ==
    \E k \in DOMAIN rows :
        IF prog \in InC THEN t = rows[k].value ELSE Takes(rows[k], t)

\* How many parameters the option at position p has: as many of the tokens
\* behind it as its row allows, up to the first option.
checkParams_Blind(row, p) ==
    CHOOSE n \in 0..row.max :
        /\ p + n <= Len(argv)
        /\ n = row.max \/ p + n = Len(argv)
checkParams(row, p) ==
    CHOOSE n \in 0..row.max :
        /\ p + n <= Len(argv)
        /\ \A j \in 1..n : ~EndsParams(argv[p + j])
        /\ n = row.max \/ p + n = Len(argv) \/ EndsParams(argv[p + n + 1])

-----------------------------------------------------------------------------
Init ==
    /\ prog \in Programs
    /\ argv \in Lines[prog]
    /\ i = 1
    /\ ret = <<>>
    /\ state = "reading"

\* Every way to fail frees what was read and returns nothing.
Refuse ==
    /\ state' = "refused"
    /\ ret' = <<>>
    /\ UNCHANGED <<prog, argv, i>>

\* In what follows d is the row that decides on the argument at hand.
IsOption(d) == d # 0 /\ Takes(rows[d], argv[i])
IsDuplicate(d) == ~rows[d].repeatable /\ checkAlreadyFound(argv[i])

\* A second copy of an option is dropped; its parameters are not skipped.
DropDuplicate(d) ==
    /\ IsOption(d) /\ IsDuplicate(d)
    /\ i' = i + 1
    /\ UNCHANGED <<prog, argv, ret, state>>

NotEnoughParams(d) ==
    /\ IsOption(d) /\ ~IsDuplicate(d)
    /\ checkParams(rows[d], i) < rows[d].min
    /\ Refuse

TakeOption_Rereads(d) ==
    /\ IsOption(d) /\ ~IsDuplicate(d)
    /\ LET n == checkParams(rows[d], i)
       IN  /\ n >= rows[d].min
           /\ ret' = Append(ret, [value |-> argv[i], row |-> d,
                                  params |-> SubSeq(argv, i + 1, i + n)])
           /\ i' = i + 1
    /\ UNCHANGED <<prog, argv, state>>
TakeOption(d) ==
    /\ IsOption(d) /\ ~IsDuplicate(d)
    /\ LET n == checkParams(rows[d], i)
       IN  /\ n >= rows[d].min
           /\ ret' = Append(ret, [value |-> argv[i], row |-> d,
                                  params |-> SubSeq(argv, i + 1, i + n)])
           /\ i' = i + n + 1
    /\ UNCHANGED <<prog, argv, state>>

BadlyFormed(d) ==
    /\ d # 0 /\ ~IsOption(d)
    /\ Refuse

TakeWord(d) ==
    /\ d = 0
    /\ ret' = Append(ret, [value |-> argv[i], row |-> 0, params |-> <<>>])
    /\ i' = i + 1
    /\ UNCHANGED <<prog, argv, state>>

ReadArgument ==
    /\ state = "reading" /\ i <= Len(argv)
    /\ LET d == Decides(argv[i])
       IN  \/ DropDuplicate(d) \/ NotEnoughParams(d) \/ TakeOption(d)
           \/ BadlyFormed(d) \/ TakeWord(d)

\* Any of the allocations may fail, the last one of the C parser included.
OutOfMemory == state = "reading" /\ Refuse

Return ==
    /\ state = "reading" /\ i > Len(argv)
    /\ state' = "read"
    /\ UNCHANGED <<prog, argv, i, ret>>

Next == ReadArgument \/ OutOfMemory \/ Return

Spec == Init /\ [][Next]_vars

-----------------------------------------------------------------------------
(* What the programs ask of the result.                                    *)

Incomplete(arg) == arg.row # 0 /\ rows[arg.row].incomplete

\* Is arg the option asked for?  In C++ (parsedArg_t::matches) what is asked
\* must be at least as long as the option itself, the minLength.
Is_AnyLength(arg, q) ==
    \/ arg.value = q
    \/ Incomplete(arg) /\ Begins(arg.value, q)
Is(arg, q) ==
    \/ arg.value = q
    \/ /\ Incomplete(arg) /\ Begins(arg.value, q)
       /\ prog \in InC \/ Begins(q, rows[arg.row].value)

findArg(q) == {k \in DOMAIN ret : Is(ret[k], q)}

\* getLinkFunc of crunchMake compares the first two characters only.
getLinkFunc(q) == {k \in DOMAIN ret : Begins(ret[k].value, q)}

\* Is the token in the table?  In C a prefix of it is enough.
findArgInArgs_Exact(t) == \E k \in DOMAIN rows : t = rows[k].value
findArgInArgs(t) ==
    \E k \in DOMAIN rows :
        IF prog \in InC THEN Begins(t, rows[k].value) ELSE Takes(rows[k], t)

\* getTests: what is not in the table is the name of a test.
namedTests == {k \in DOMAIN ret : ~findArgInArgs(ret[k].value)}

-----------------------------------------------------------------------------
\* The state, and that no argument past the end of argv is ever read.
TypeOK ==
    /\ prog \in Programs
    /\ argv \in Lines[prog]
    /\ i \in 1..Len(argv) + 1
    /\ state \in {"reading", "read", "refused"}
    /\ ret \in Seq([value : Tokens, row : 0..Len(rows),
                    params : Seq(Tokens)])

\* What was read when entry k was made of the argument at position at[k].
Span(at, k) == at[k]..at[k] + Len(ret[k].params)

\* The argument is a later copy of an option that may be given once.
Repeats(at, p) ==
    \E k \in DOMAIN ret :
        /\ at[k] < p /\ ret[k].value = argv[p]
        /\ ret[k].row # 0 /\ ~rows[ret[k].row].repeatable

\* Entry k was made of the argument at position at[k] and those behind it; the
\* entries are of one argument after the other, and leave out copies only.
ReadAt(at) ==
    /\ \A k \in DOMAIN ret :
          /\ Span(at, k) \subseteq 1..i - 1
          /\ ret[k].value = argv[at[k]]
          /\ \A j \in DOMAIN ret[k].params : ret[k].params[j] = argv[at[k] + j]
    /\ \A k, h \in DOMAIN ret : h < k => \A p \in Span(at, h) : p < at[k]
    /\ \A p \in 1..i - 1 : (\E k \in DOMAIN ret : p \in Span(at, k)) \/ Repeats(at, p)

\* What was read is what was given, in its order, no argument twice, and none
\* left out but for the later copies of an option that may be given once
\* (parseArguments advances i by the parameters it took, and counts those by
\* other rules than it decides on options).
ReadsInOrder == state # "refused" => \E at \in [DOMAIN ret -> 1..i - 1] : ReadAt(at)

\* An option was given once, unless it may be repeated, with as many parameters
\* as its row wants, none of them the name of an option: params[0] of --log and
\* of -o, read unchecked by runTests and computeSOName, is there and is a name.
ParamsFit ==
    \A k \in DOMAIN ret : ret[k].row # 0 =>
        LET row == rows[ret[k].row]
        IN  /\ Len(ret[k].params) \in row.min..row.max
            /\ \A j \in DOMAIN ret[k].params :
                   \A r \in DOMAIN rows : ret[k].params[j] # rows[r].value
            /\ row.repeatable \/ \A h \in DOMAIN ret :
                   ret[h].value = ret[k].value => h = k

\* getTests asks findArgInArgs of every value again, which does not compare as
\* parseArguments did: it must still run as tests the words, and those only.
TestsAreWords ==
    state = "read" => namedTests = {k \in DOMAIN ret : ret[k].row = 0}

\* Asked by its name, an option is found where and only where it was given: -s
\* is not found in -std=c++17, and what a row asks for text to follow is found
\* by the name without the text.  The two characters getLinkFunc compares pick
\* the same arguments.
FindsTheOption ==
    state = "read" =>
        \A r \in DOMAIN rows :
            LET Given == {k \in DOMAIN ret : ret[k].row = r}
            IN  /\ findArg(rows[r].value) = Given
                /\ rows[r].incomplete /\ rows[r].repeatable
                       => getLinkFunc(rows[r].value) = Given
=============================================================================
