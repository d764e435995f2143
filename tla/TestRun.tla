------------------------------- MODULE TestRun -------------------------------
(***************************************************************************)
(* What a test engine promises to whoever reads its exit status: the run   *)
(* is a sequence of tests, each test contributes at most one result for    *)
(* every thread it runs on, and the status of a run that was not abandoned *)
(* is a function of the results alone.  The C engine (Crunch) and the C++  *)
(* engine (CrunchPP) are both shown to implement this module.              *)
(***************************************************************************)
EXTENDS Integers

CONSTANT Most    \* the most results one test can contribute

VARIABLES
  passed,    \* tests counted as passes so far
  failed,    \* failures counted so far
  verdict    \* the exit status, or Undecided

vars == <<passed, failed, verdict>>

Undecided == -1
AllGood   == 0     \* nothing failed
SomeBad   == 1     \* the run completed and something failed
NoRun     == 2     \* the run was refused or abandoned

Init == passed = 0 /\ failed = 0 /\ verdict = Undecided

\* One test is over: it adds its results, and nothing it did takes back a result
\* of another test.
Report == /\ verdict = Undecided
          /\ passed' \in passed .. (passed + Most)
          /\ failed' \in failed .. (failed + Most)
          /\ (passed' - passed) + (failed' - failed) <= Most
          /\ UNCHANGED verdict

\* The engine reaches the end of its list of tests.
Finish == /\ verdict = Undecided
          /\ verdict' = IF failed = 0 THEN AllGood ELSE SomeBad
          /\ UNCHANGED <<passed, failed>>

\* The engine refuses its command line, or abandons the rest of the list.
GiveUp == /\ verdict = Undecided
          /\ verdict' = NoRun
          /\ UNCHANGED <<passed, failed>>

Next == Report \/ Finish \/ GiveUp

Spec == Init /\ [][Next]_vars
==============================================================================
