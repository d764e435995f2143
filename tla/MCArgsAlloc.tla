----------------------------- MODULE MCArgsAlloc ------------------------------
(* crunch with its options, and the tables of test/crunch/testArgsParser.c.   *)
EXTENDS ArgsAlloc, SequencesExt, TLC

Row(value, min, max, flags) ==
    [value |-> value, min |-> min, max |-> max,
     incomplete |-> "incomplete" \in flags, repeatable |-> "repeatable" \in flags]

Rows == [
    crunch     |-> <<Row("--log", 1, 1, {}), Row("-v", 0, 0, {})>>,
    counting   |-> <<Row("-o", 0, 2, {}), Row("-a", 1, 1, {})>>,
    incomplete |-> <<Row("--arg=", 0, 0, {"incomplete"})>> ]

\* The last line of counting is that of testAllocs.
CommandLines == [
    crunch     |-> BoundedSeq({"--log", "--logs", "-v", "lib"}, 3),
    counting   |-> BoundedSeq({"-o", "-a", "-oz", "test"}, 3)
                   \cup {<<"-o", "test", "me", "please", "-a", "file">>},
    incomplete |-> BoundedSeq({"--arg=test"}, 2) ]

Begun ==
    "--log" :> {"--log"} @@ "--logs" :> {"--log", "--logs"} @@ "-v" :> {"-v"}
    @@ "--version" :> {"--version"} @@ "--help" :> {"--help"} @@ "-h" :> {"-h"}
    @@ "lib" :> {"lib"} @@ "-o" :> {"-o"} @@ "-oz" :> {"-o", "-oz"} @@ "-a" :> {"-a"}
    @@ "test" :> {"test"} @@ "me" :> {"me"} @@ "please" :> {"please"} @@ "file" :> {"file"}
    @@ "--arg=" :> {"--arg="} @@ "--arg=test" :> {"--arg=", "--arg=test"}

AllPrograms == DOMAIN Rows
=============================================================================
