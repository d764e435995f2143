--------------------------- MODULE ThreadShimProofs ---------------------------
(***************************************************************************)
(* Proofs about the thread shim, for both implementations, every set of    *)
(* values a test's thread may end with and any number of threads.          *)
(*                                                                         *)
(* runTests() ignores what thrd_join() returns and, over Win32, is told of *)
(* errors of calls long past; that it never waits for a thread that is not *)
(* there, and decides on its test's own value unless the join failed, for  *)
(* which pthreads and Win32 stand differently, holds because of Stages:    *)
(* what there is of a thread and of its parameters at each of the caller's *)
(* labels, and that a creation that failed left an error behind.           *)
(***************************************************************************)
EXTENDS ThreadShim, TLAPS

\* What the caller's label says of the thread it is dealing with.
Stages ==
  /\ pc \in {"idle", "create", "thread"} => thread = "none"
  /\ pc = "resume" => \/ thread = "suspended"
                      \/ thread = "none" /\ lastError # "success"
  /\ pc \in {"created", "join", "joined", "aborted"} => thread # "suspended"
  /\ pc = "created" /\ created = thrd_success => thread # "none"
  /\ pc = "join" => thread # "none"
  /\ pc \in {"create", "thread", "resume", "created", "join"} => retVal = Preset
  /\ pc = "joined" =>
       retVal = IF Joined THEN value ELSE IF windows THEN Preset ELSE 0
  /\ OneTestAtATime

\* Who owns the parameters: over pthreads there are none; over Win32 the
\* thread does from its creation until it copies them.
Ownership ==
  /\ ~windows => params = "none" /\ pc \notin {"thread", "resume"}
  /\ windows =>
       /\ pc \in {"idle", "create"} => params = "none"
       /\ pc = "thread" => params = "caller"
       /\ thread = "suspended" => params = "thread"
       /\ thread = "running" => params \in {"thread", "freed"}
       /\ thread = "ended" => params = "freed"
       /\ pc = "joined" /\ Joined => params = "freed"

\* Over pthreads what thrd_create() returns is about this very thread.
Reported == ~windows /\ pc = "created" /\ thread # "none" => created = thrd_success

IInv == TypeOK /\ Stages /\ Ownership /\ Reported

----------------------------------------------------------------------------

USE PlatformsAssumption, ValuesAssumption, BoundsAssumption
USE DEF SysErrors, Preset, Joined, OneTestAtATime, thrd_success, thrd_busy, thrd_error, thrd_nomem, thrd_timedout

\* thrd_err_map() returns one of the thrd_* values, and success for the error
\* ERROR_SUCCESS only.
LEMMA ErrMap ==
  ASSUME NEW e \in SysErrors
  PROVE  thrd_err_map(e) \in 0..4 /\ (thrd_err_map(e) = thrd_success <=> e = "success")
  BY DEF thrd_err_map

\* The initial state satisfies the invariant.
LEMMA InitIInv == Init => IInv
  BY DEF Init, IInv, TypeOK, Stages, Ownership, Reported

\* The steps of the caller preserve the invariant.
LEMMA CallerStep == IInv /\ Caller => IInv'
  <1> SUFFICES ASSUME IInv, Caller PROVE IInv'
    OBVIOUS
  <1> USE DEF IInv, TypeOK, Stages, Ownership, Reported
  <1>1. CASE Call
    BY <1>1 DEF Call, Asked
  <1>2. ASSUME NEW e \in SysErrors, CreatePosix(e) PROVE IInv'
    BY <1>2, ErrMap DEF CreatePosix
  <1>3. ASSUME NEW ok \in BOOLEAN, AllocParams(ok) PROVE IInv'
    BY <1>3 DEF AllocParams
  <1>4. CASE CreateThread
    BY <1>4 DEF CreateThread
  <1>5. CASE Resume
    BY <1>5, ErrMap DEF Resume
  <1>6. CASE Checked
    BY <1>6 DEF Checked, Aborts
  <1>7. CASE Join
    BY <1>7, ErrMap DEF Join, Handed
  <1>8. CASE GivesUp
    BY <1>8 DEF GivesUp
  <1>9. CASE GoesOn
    BY <1>9 DEF GoesOn
  <1> QED
    BY <1>1, <1>2, <1>3, <1>4, <1>5, <1>6, <1>7, <1>8, <1>9 DEF Caller

\* Every step, and stuttering, preserves the invariant.
LEMMA StepIInv == IInv /\ [Next]_vars => IInv'
  <1> SUFFICES ASSUME IInv, [Next]_vars PROVE IInv'
    OBVIOUS
  <1> USE DEF IInv, TypeOK, Stages, Ownership, Reported
  <1>1. CASE OtherCall
    BY <1>1 DEF OtherCall
  <1>2. CASE Caller
    BY <1>2, CallerStep
  <1>3. CASE TakeParams
    BY <1>3 DEF TakeParams
  <1>4. ASSUME NEW v \in Values, EndThread(v) PROVE IInv'
    BY <1>4 DEF EndThread
  <1>5. CASE LeftEnds
    BY <1>5 DEF LeftEnds
  <1>6. ASSUME NEW e \in SysErrors \ {"success"}, JoinFailsPosix(e) PROVE IInv'
    BY <1>6, ErrMap DEF JoinFailsPosix
  <1>7. ASSUME NEW e \in SysErrors \ {"success"}, JoinFailsWin32(e) PROVE IInv'
    BY <1>7, ErrMap DEF JoinFailsWin32
  <1>8. CASE Done \/ UNCHANGED vars
    BY <1>8 DEF Done, vars
  <1> QED
    BY <1>1, <1>2, <1>3, <1>4, <1>5, <1>6, <1>7, <1>8 DEF Next, Thread, JoinFails

\* The invariant holds throughout every run, over either implementation.
THEOREM Invariance == Spec => []IInv
  BY InitIInv, StepIInv, PTL DEF Spec

\* The variables keep their types: thrd_create() and thrd_join() return thrd_*
\* values only, whatever error is around.
THEOREM TypeCorrect == Spec => []TypeOK
  <1>1. IInv => TypeOK
    BY DEF IInv
  <1> QED
    BY <1>1, Invariance, PTL

\* runTests() never waits for a thread that was not created.
THEOREM AlwaysJoinsAThread == Spec => []JoinsAThread
  <1>1. IInv => JoinsAThread
    BY DEF IInv, TypeOK, Stages, JoinsAThread
  <1> QED
    BY <1>1, Invariance, PTL

\* Over pthreads thrd_create() reports success exactly if there is a thread.
THEOREM PosixReportsTruly == Spec => []PosixReports
  <1>1. IInv => PosixReports
    BY DEF IInv, Stages, Reported, PosixReports, CreatedAsReported
  <1> QED
    BY <1>1, Invariance, PTL

\* runTests() goes on past a test exactly if that is over and did not end with
\* 2, but for a join that failed, which is a pass over pthreads and an abort
\* over Win32.
THEOREM DecisionIsOnTheValue == Spec => DecidesOnTheValue
  <1>1. IInv /\ [Next]_vars
          => [pc = "joined" /\ pc' # pc
                => (pc' = "idle" <=> IF Joined THEN value # 2 ELSE ~windows)]_vars
    <2> SUFFICES ASSUME IInv, Next, pc = "joined", pc' # pc
                 PROVE  pc' = "idle" <=> IF Joined THEN value # 2 ELSE ~windows
      BY DEF vars
    <2>1. GivesUp \/ GoesOn
      BY DEF Next, OtherCall, Caller, Call, CreatePosix, AllocParams, CreateThread,
         Resume, Checked, Join, JoinFails, JoinFailsPosix, JoinFailsWin32, Thread,
         TakeParams, EndThread, LeftEnds, Done, vars
    <2> QED
      BY <2>1 DEF GivesUp, GoesOn, IInv, Stages
  <1> QED
    BY <1>1, Invariance, PTL DEF Spec, DecidesOnTheValue

\* Over Win32 no test starts while the thread of an earlier one runs.
THEOREM TestsRunOneAtATime == Spec => []OneTestAtATime
  <1>1. IInv => OneTestAtATime
    BY DEF IInv, Stages
  <1> QED
    BY <1>1, Invariance, PTL

\* No joined thread leaks its parameters.
THEOREM ParametersAreFreed == Spec => []ParamsAreFreed
  <1>1. IInv => ParamsAreFreed
    BY DEF IInv, Ownership, ParamsAreFreed
  <1> QED
    BY <1>1, Invariance, PTL
==============================================================================
