----------------------------- MODULE ThreadShim ------------------------------
(***************************************************************************)
(* crunch/threading/threadShim.c: thrd_create(), thrd_join() and           *)
(* thrd_exit() over pthreads and over Win32, as runTests() uses them: one  *)
(* thread after another is created, and joined if creating it worked.      *)
(*                                                                         *)
(* The two implementations report errors differently.  A pthread function  *)
(* returns its error; a Win32 function returns failure and leaves the      *)
(* error in a variable of the calling thread, which a call that succeeds   *)
(* does not reset.  A join that fails leaves runTests() with an int that   *)
(* is not the test's: 0 over pthreads, the one preset over Win32.          *)
(***************************************************************************)
EXTENDS Integers

CONSTANTS
  Platforms,      \* the implementations to consider: is it Win32?
  Values,         \* what a test's thread may end with
  MaxThreads      \* bound: threads created

ASSUME PlatformsAssumption == Platforms \subseteq BOOLEAN
ASSUME ValuesAssumption == Values \subseteq Int /\ 2 \in Values
ASSUME BoundsAssumption == MaxThreads \in Nat

VARIABLES
  windows,     \* the implementation the engine was built with
  pc,          \* where the caller is
  n,           \* threads asked for
  thread,      \* the current thread: "none", "suspended", "running", "ended"
  value,       \* what it ended with
  params,      \* who owns the thrd_params_t (Win32)
  lastError,   \* GetLastError() of the caller (Win32)
  created,     \* what thrd_create() returned
  joined,      \* what thrd_join() returned
  retVal,      \* the int thrd_join() fills in
  left         \* threads that ran on when the caller went on to the next test

vars == <<windows, pc, n, thread, value, params, lastError, created, joined,
          retVal, left>>

thrd_success  == 0
thrd_busy     == 1
thrd_error    == 2
thrd_nomem    == 3
thrd_timedout == 4

\* The errors of the system that the shim tells apart, by name.
SysErrors == {"success", "nomem", "timedout", "busy", "other"}

\* thrd_err_map(), thrd_get_error()
thrd_err_map_NoDefault(e) == IF e = "nomem" THEN thrd_nomem ELSE thrd_success
thrd_err_map_Raw(e) == IF e = "success" THEN 0 ELSE 11
thrd_err_map(e) == CASE e = "success"  -> thrd_success
                     [] e = "nomem"    -> thrd_nomem
                     [] e = "timedout" -> thrd_timedout
                     [] e = "busy"     -> thrd_busy
                     [] OTHER          -> thrd_error

\* The int runTests() starts out with, THREAD_ABORT.
Preset_Success == 0
Preset == 2

Init ==
  /\ windows \in Platforms
  /\ pc = "idle" /\ n = 0
  /\ thread = "none" /\ value = 0 /\ params = "none"
  /\ lastError = "success"
  /\ created = thrd_success /\ joined = thrd_success /\ retVal = Preset
  /\ left = 0

----------------------------------------------------------------------------
(* The caller.                                                              *)

\* Anything the caller does between two calls of the shim may fail and leave
\* an error behind, like a library of another extension that is not there.
OtherCall ==
  /\ windows /\ pc = "idle"
  /\ lastError' \in SysErrors
  /\ UNCHANGED <<windows, pc, n, thread, value, params, created, joined,
                 retVal, left>>

\* ++currTest
Asked_Same == n
Asked == n + 1

Call ==
  /\ pc = "idle" /\ n < MaxThreads
  /\ n' = Asked /\ retVal' = Preset
  /\ pc' = "create"
  /\ UNCHANGED <<windows, thread, value, params, lastError, created, joined, left>>

\* pthread_create() returns e.
CreatePosix(e) ==
  /\ pc = "create" /\ ~windows
  /\ created' = thrd_err_map(e)
  /\ thread' = IF e = "success" THEN "running" ELSE "none"
  /\ pc' = "created"
  /\ UNCHANGED <<windows, n, value, params, lastError, joined, retVal, left>>

\* malloc() of the parameters.
AllocParams(ok) ==
  /\ pc = "create" /\ windows
  /\ params' = IF ok THEN "caller" ELSE "none"
  /\ created' = IF ok THEN created ELSE thrd_nomem
  /\ pc' = IF ok THEN "thread" ELSE "created"
  /\ UNCHANGED <<windows, n, thread, value, lastError, joined, retVal, left>>

\* CreateThread(..., CREATE_SUSPENDED, ...), which sets an error if it fails.
CreateThread ==
  /\ pc = "thread"
  /\ \/ thread' = "suspended" /\ params' = "thread" /\ lastError' = lastError
     \/ /\ thread' = "none" /\ params' = "leaked"
        /\ lastError' \in SysErrors \ {"success"}
  /\ pc' = "resume"
  /\ UNCHANGED <<windows, n, value, created, joined, retVal, left>>

\* ResumeThread(), and the error that is around is the result.
Resume ==
  /\ pc = "resume"
  /\ thread' = IF thread = "suspended" THEN "running" ELSE thread
  /\ created' = thrd_err_map(lastError)
  /\ pc' = "created"
  /\ UNCHANGED <<windows, n, value, params, lastError, joined, retVal, left>>

\* runTests() aborts the run if the thread was not created, as it is told.
Aborts == created # thrd_success
Checked ==
  /\ pc = "created"
  /\ pc' = IF Aborts THEN "aborted" ELSE "join"
  /\ UNCHANGED <<windows, n, thread, value, params, lastError, created, joined,
                 retVal, left>>

\* pthread_join(), or WaitForSingleObject() and GetExitCodeThread(), succeed.
Handed_Not == retVal
Handed == value
Join ==
  /\ pc = "join" /\ thread = "ended"
  /\ retVal' = Handed
  /\ joined' = IF windows THEN thrd_err_map(lastError) ELSE thrd_success
  /\ thread' = "none"
  /\ pc' = "joined"
  /\ UNCHANGED <<windows, n, value, params, lastError, created, left>>

\* pthread_join() returns e, of a thread that detached itself for one: the null
\* pointer that nothing was stored to becomes the result.
JoinFailsPosix(e) ==
  /\ pc = "join" /\ ~windows
  /\ retVal' = 0
  /\ joined' = thrd_err_map(e)
  /\ pc' = "joined"
  /\ UNCHANGED <<windows, n, thread, value, params, lastError, created, left>>

\* One of the two calls fails, and sets an error: nothing is stored.
JoinFailsWin32(e) ==
  /\ pc = "join" /\ windows
  /\ lastError' = e
  /\ joined' = thrd_err_map(e)
  /\ pc' = "joined"
  /\ UNCHANGED <<windows, n, thread, value, params, created, retVal, left>>

JoinFails == \E e \in SysErrors \ {"success"} : JoinFailsPosix(e) \/ JoinFailsWin32(e)

\* runTests() looks at retVal and never at what thrd_join() returned.
GivesUp ==
  /\ pc = "joined" /\ retVal = 2
  /\ pc' = "aborted"
  /\ UNCHANGED <<windows, n, thread, value, params, lastError, created, joined,
                 retVal, left>>

GoesOn ==
  /\ pc = "joined" /\ retVal # 2
  /\ pc' = "idle"
  /\ thread' = "none"
  /\ left' = IF thread = "running" THEN left + 1 ELSE left
  /\ params' = IF params = "freed" THEN "none" ELSE params
  /\ UNCHANGED <<windows, n, value, lastError, created, joined, retVal>>

----------------------------------------------------------------------------
(* The thread.                                                              *)

\* thrd_start() copies the parameters and frees them.
TakeParams_Leaks ==
  /\ thread = "running" /\ params = "thread"
  /\ params' = "leaked"
  /\ UNCHANGED <<windows, pc, n, thread, value, lastError, created, joined,
                 retVal, left>>
TakeParams ==
  /\ thread = "running" /\ params = "thread"
  /\ params' = "freed"
  /\ UNCHANGED <<windows, pc, n, thread, value, lastError, created, joined,
                 retVal, left>>

\* The function returns v, or calls thrd_exit(v).
EndThread(v) ==
  /\ thread = "running" /\ params # "thread"
  /\ thread' = "ended" /\ value' = v
  /\ UNCHANGED <<windows, pc, n, params, lastError, created, joined,
                 retVal, left>>

\* A thread that was left behind comes to its end.
LeftEnds ==
  /\ left > 0 /\ left' = left - 1
  /\ UNCHANGED <<windows, pc, n, thread, value, params, lastError, created, joined,
                 retVal>>

Done == /\ pc = "aborted" \/ (pc = "idle" /\ n = MaxThreads)
        /\ UNCHANGED vars

Caller ==
  \/ Call
  \/ \E e \in SysErrors : CreatePosix(e)
  \/ \E ok \in BOOLEAN : AllocParams(ok)
  \/ CreateThread \/ Resume \/ Checked \/ Join \/ GivesUp \/ GoesOn

Thread == TakeParams \/ \E v \in Values : EndThread(v)

Next == OtherCall \/ Caller \/ JoinFails \/ Thread \/ LeftEnds \/ Done

Spec == Init /\ [][Next]_vars

\* Both threads are scheduled, and the test comes to its end; no join need fail.
FairSpec == Spec /\ WF_vars(Caller) /\ WF_vars(Thread)

----------------------------------------------------------------------------
(* Properties.                                                              *)

\* Every variable keeps its type: what thrd_create() returns is one of the
\* thrd_* values, whatever error the system reported.
TypeOK ==
  /\ pc \in {"idle", "create", "thread", "resume", "created", "join", "joined",
             "aborted"}
  /\ n \in 0..MaxThreads
  /\ thread \in {"none", "suspended", "running", "ended"}
  /\ value \in Values \cup {0} /\ retVal \in Values \cup {0, Preset}
  /\ params \in {"none", "caller", "thread", "freed", "leaked"}
  /\ lastError \in SysErrors
  /\ created \in 0..4 /\ joined \in 0..4
  /\ left \in Nat

\* The caller waits only for a thread that there is: a wait for one that was
\* never created would not end, or be undefined.
JoinsAThread == pc = "join" => thread \in {"running", "ended"}

\* crunch.c:291, "Check if creating the thread for the test worked or not":
\* a thread was created exactly if thrd_create() says so, and no test runs on
\* behind the back of a run that gave it up.  Over Win32 a run refutes it.
CreatedAsReported == pc = "created" => (created = thrd_success <=> thread # "none")

\* Over pthreads it is so, whatever error the system reports.
PosixReports == ~windows => CreatedAsReported

\* runTests() ignores the result of thrd_join(), which over Win32 may report
\* somebody else's error; it still goes on past a test exactly if that is over
\* and did not end with 2.  Only a join that failed, so that the thread is
\* there still, is taken for a pass over pthreads and for an abort over Win32.
Joined == thread = "none"
DecidesOnTheValue ==
  [][pc = "joined" /\ pc' # pc
       => (pc' = "idle" <=> IF Joined THEN value # 2 ELSE ~windows)]_vars

\* Over Win32 no test starts while an earlier one runs on, whichever calls fail:
\* a join that did not wait ends the run.  Over pthreads the run goes on.
OneTestAtATime == windows => left = 0

\* The parameters of a thread are freed by the time it is joined.
ParamsAreFreed == windows /\ pc = "joined" /\ Joined => params = "freed"

\* The caller gets through its tests, or gives up on one.
GetsThrough == <>(pc = "aborted" \/ (pc = "idle" /\ n = MaxThreads))
==============================================================================
