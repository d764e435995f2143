----------------------------- MODULE MCCrunchMake -----------------------------
(* The tables of the programs and of the parsers' own tests (a name in pp is  *)
(* the same table read by the C++ parser).  That of crunchMake is cut down to *)
(* a row of each kind, in the order of the source.                            *)
EXTENDS CrunchMake, SequencesExt

Row(value, min, max, flags) ==
    [value |-> value, min |-> min, max |-> max,
     incomplete |-> "incomplete" \in flags, repeatable |-> "repeatable" \in flags]

Rows == [
    crunch       |-> <<Row("--log", 1, 1, {}), Row("--version", 0, 0, {}),
                     Row("-v", 0, 0, {}), Row("-h", 0, 0, {})>>,
    crunchpp     |-> <<Row("--log", 1, 1, {}), Row("-h", 0, 0, {}),
                     Row("--version", 0, 0, {}), Row("-v", 0, 0, {})>>,
    crunchMake   |-> <<Row("-h", 0, 0, {}),
                     Row("-l", 0, 0, {"incomplete", "repeatable"}),
                     Row("-o", 1, 1, {}), Row("--log", 1, 1, {}), Row("-s", 0, 0, {}),
                     Row("-std=", 0, 0, {"incomplete"}),
                     Row("-z", 1, 1, {"repeatable"})>>,
    counting     |-> <<Row("-o", 0, 2, {}), Row("-a", 1, 1, {})>>,
    countingpp   |-> <<Row("-o", 0, 2, {}), Row("-a", 1, 1, {})>>,
    incomplete   |-> <<Row("--arg=", 0, 0, {"incomplete"})>>,
    incompletepp |-> <<Row("--arg=", 0, 0, {"incomplete"})>> ]

\* Command lines whose tokens match those rows in every way.
RunLines == BoundedSeq({"", "--log", "--logs", "-v", "-version", "lib"}, 4)
CountLines == BoundedSeq({"-o", "-a", "-oz", "test"}, 4)
IncompleteLines == BoundedSeq({"--arg", "--arg=", "--arg=test", "test"}, 3)
CommandLines == [
    crunch       |-> RunLines,
    crunchpp     |-> RunLines,
    crunchMake   |-> BoundedSeq({"-o", "--log", "a.cpp", "a.c", "x.so.d/b"}, 4)
                     \cup BoundedSeq({"-", "-h", "-lm", "-o", "-s", "-std=c++17", "-z", "a.c"}, 3)
                     \cup BoundedSeq({"-o", "a.so.c", "b.so.1", "a.c"}, 3),
    counting     |-> CountLines,
    countingpp   |-> CountLines,
    incomplete   |-> IncompleteLines,
    incompletepp |-> IncompleteLines ]

\* What each token begins with.
Begun ==
    "" :> {""} @@ "-" :> {"", "-"} @@ "--log" :> {"", "-", "--log"}
    @@ "--logs" :> {"", "-", "--log", "--logs"} @@ "--version" :> {"", "-", "--version"}
    @@ "-v" :> {"", "-", "-v"} @@ "-version" :> {"", "-", "-v", "-version"}
    @@ "-h" :> {"", "-", "-h"} @@ "-l" :> {"", "-", "-l"} @@ "-lm" :> {"", "-", "-l", "-lm"}
    @@ "-o" :> {"", "-", "-o"} @@ "-oz" :> {"", "-", "-o", "-oz"} @@ "-a" :> {"", "-", "-a"}
    @@ "-z" :> {"", "-", "-z"} @@ "-s" :> {"", "-", "-s"} @@ "-st" :> {"", "-", "-s", "-st"}
    @@ "-std=" :> {"", "-", "-s", "-st", "-std="}
    @@ "-std=c++17" :> {"", "-", "-s", "-st", "-std=", "-std=c++17"}
    @@ "--arg" :> {"", "-", "--arg"} @@ "--arg=" :> {"", "-", "--arg", "--arg="}
    @@ "--arg=test" :> {"", "-", "--arg", "--arg=", "--arg=test"}
    @@ "lib" :> {"", "lib"} @@ "test" :> {"", "test"}
    @@ "a.cpp" :> {"", "a.cpp"} @@ "a.c" :> {"", "a.c"}
    @@ "a.so.c" :> {"", "a.so.c"} @@ "b.so.1" :> {"", "b.so.1"} @@ "x.so.d/b" :> {"", "x.so.d/b"}

\* The tokens as names of files; what crunchMake is not given has no pieces.
Names ==
    "a.cpp" :> <<"a", ".", "cpp">> @@ "a.c" :> <<"a", ".", "c">>
    @@ "a.so.c" :> <<"a", ".", "so", ".", "c">>
    @@ "b.so.1" :> <<"b", ".", "so", ".", "1">>
    @@ "x.so.d/b" :> <<"x", ".", "so", ".", "d", "/", "b">>
    @@ "-" :> <<"-">>
    @@ [t \in DOMAIN Begun |-> <<t>>]
WaitStatus == {0, 2, 256}

AllPrograms == DOMAIN Rows
Make == {"crunchMake"}
CPrograms == {"crunch", "counting", "incomplete"}
=============================================================================
