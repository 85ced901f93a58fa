------------------------ MODULE SessionRuntimeProofs ------------------------
(***************************************************************************)
(* Safety of SessionRuntime for every recovery bound, with or without      *)
(* recovery hooks, and for any set of shutdown callers.                    *)
(***************************************************************************)
EXTENDS SessionRuntime, TLAPS

\* The promise is there exactly while the run is somewhere; running is set while
\* an attempt lives and reset in the gaps between attempts.
PhaseInv ==
    /\ activeRun <=> (pc # "idle")
    /\ pc \in {"preparing", "built", "looping", "draining"} => running
    /\ pc \in {"ended", "recovering"} => ~running
    /\ (pc = "recovering") => (finish = "error")
    /\ shutdownCalled => (pc = "idle")

\* An attempt has failed and nobody has decided yet what to do about it.
FailurePending == pc \in {"draining", "ended", "recovering"} /\ finish = "error"

\* Where the failure of the current attempt is until the run settles.
FailureInv ==
    /\ activeRun => (result = "none")
    /\ ~HasRecovery => ~deferred
    /\ (FailurePending /\ HasRecovery) => (deferred /\ surfaced = 0)
    /\ (FailurePending /\ ~HasRecovery) => (surfaced = 1)
    /\ (activeRun /\ ~FailurePending /\ (pc \in {"draining", "ended"} => finish # "threw"))
          => (surfaced = 0)

IInv ==
    /\ TypeOK
    /\ PhaseInv
    /\ AbortReachesLoop
    /\ FailureInv
    /\ FailureReportedOnce

-----------------------------------------------------------------------------
\* The recovery bound leaves room for the first attempt.
LEMMA FirstAttempt == 0 \in 0 .. MaxRecovery
  BY MaxRecoveryAssumption

\* Every run starts in a state of the invariant.
LEMMA InitInv == Init => IInv
  <1> SUFFICES ASSUME Init PROVE IInv
    OBVIOUS
  <1>1. TypeOK
    <2>1. attempt \in 0 .. MaxRecovery
      BY FirstAttempt DEF Init
    <2>2. closer \in [Closers -> {"out", "waiting", "closed", "refused", "failed"}]
      BY DEF Init
    <2> QED
      BY <2>1, <2>2 DEF Init, TypeOK, Phases, Finish, Results
  <1>2. PhaseInv /\ AbortReachesLoop /\ FailureReportedOnce
    BY DEF Init, PhaseInv, AbortReachesLoop, FailureReportedOnce
  <1>3. FailureInv
    BY DEF Init, FailureInv, FailurePending
  <1> QED
    BY <1>1, <1>2, <1>3 DEF IInv

\* What every way of settling the promise does to the callers of shutdown().
LEMMA SettledType ==
  ASSUME NEW r \in Results, TypeOK, Settled(r)
  PROVE  /\ closer' \in [Closers -> {"out", "waiting", "closed", "refused", "failed"}]
         /\ shutdownCalled' \in BOOLEAN
         /\ pc' = "idle" /\ activeRun' = FALSE /\ result' = r
  <1>1. \A c \in Closers : Release(c, r # "rejected")
                               \in {"out", "waiting", "closed", "refused", "failed"}
    BY DEF Release, TypeOK
  <1>2. closer' \in [Closers -> {"out", "waiting", "closed", "refused", "failed"}]
    BY <1>1 DEF Settled
  <1>3. shutdownCalled' \in BOOLEAN
    BY DEF Settled, TypeOK
  <1> QED
    BY <1>2, <1>3 DEF Settled

\* The last lines of executeRunWithRecovery, reached from the two phases that end a run.
LEMMA ReportInv ==
  ASSUME IInv, Report, pc \in {"ended", "recovering"}, finish # "threw"
  PROVE  IInv'
  <1>1. (IF abortRequested THEN "aborted" ELSE finish) \in Results \ {"none", "rejected"}
    BY DEF IInv, TypeOK, Finish, Results
  <1>2. TypeOK'
    <2>1. surfaced' \in Nat
      BY DEF IInv, TypeOK, Report
    <2> QED
      BY <1>1, <2>1, SettledType DEF IInv, TypeOK, Report, Phases
  <1>3. PhaseInv' /\ AbortReachesLoop'
    BY <1>1, SettledType DEF IInv, PhaseInv, AbortReachesLoop, Report
  <1>4. FailureInv'
    BY <1>1, SettledType DEF IInv, PhaseInv, FailureInv, FailurePending, Report
  <1>5. FailureReportedOnce'
    <2> DEFINE r == IF abortRequested THEN "aborted" ELSE finish
    <2>1. result' = r
      BY <1>1, SettledType DEF IInv, Report
    <2>2. CASE abortRequested
      BY <2>1, <2>2 DEF FailureReportedOnce
    <2>3. CASE ~abortRequested /\ finish = "error"
      <3>1. FailurePending
        BY <2>3 DEF FailurePending
      <3>2. surfaced' = 1
        BY <2>3, <3>1, HasRecoveryAssumption DEF IInv, FailureInv, Report
      <3> QED
        BY <2>1, <2>3, <3>2 DEF FailureReportedOnce
    <2>4. CASE ~abortRequested /\ finish # "error"
      <3>1. surfaced = 0
        BY <2>4 DEF IInv, PhaseInv, FailureInv, FailurePending
      <3>2. surfaced' = 0
        BY <2>4, <3>1 DEF Report
      <3> QED
        BY <2>1, <2>4, <3>2 DEF FailureReportedOnce
    <2> QED
      BY <2>2, <2>3, <2>4
  <1> QED
    BY <1>2, <1>3, <1>4, <1>5 DEF IInv

\* The two ways a run's promise rejects.
LEMMA RejectInv ==
  ASSUME IInv, Settled("rejected"), pc \in {"preparing", "ended"},
         UNCHANGED <<running, abortRequested, signal, loopAborted, attempt, finish,
                     deferred, surfaced>>
  PROVE  IInv'
  <1>1. "rejected" \in Results
    BY DEF Results
  <1> QED
    BY <1>1, SettledType DEF IInv, TypeOK, PhaseInv, AbortReachesLoop, FailureInv,
       FailurePending, FailureReportedOnce, Phases

\* What abort() does to the loop.
LEMMA AbortLoopType ==
  ASSUME TypeOK, AbortLoop
  PROVE  loopAborted' \in BOOLEAN /\ (pc = "looping" => loopAborted')
  BY DEF TypeOK, AbortLoop, Taken

\* Every step keeps the invariant.
LEMMA StepInv == IInv /\ [Next]_vars => IInv'
  <1> SUFFICES ASSUME IInv, [Next]_vars PROVE IInv'
    OBVIOUS
  <1> USE MaxRecoveryAssumption, HasRecoveryAssumption
  <1>1. ASSUME NEW aborted \in BOOLEAN, Run(aborted) PROVE IInv'
    <2>1. TypeOK'
      BY <1>1, FirstAttempt DEF Run, IInv, TypeOK, Phases, Results
    <2>2. PhaseInv' /\ AbortReachesLoop' /\ FailureReportedOnce'
      BY <1>1 DEF Run, CanStartRun, IInv, PhaseInv, AbortReachesLoop, FailureReportedOnce
    <2>3. FailureInv'
      BY <1>1 DEF Run, CanStartRun, IInv, FailureInv, FailurePending
    <2> QED
      BY <2>1, <2>2, <2>3 DEF IInv
  <1>2. CASE RunRefused
    BY <1>2 DEF RunRefused, IInv, TypeOK, PhaseInv, AbortReachesLoop, FailureInv,
       FailurePending, FailureReportedOnce
  <1>3. CASE PrepareFails
    BY <1>3, RejectInv DEF PrepareFails
  <1>4. CASE BuildRuntime
    BY <1>4 DEF BuildRuntime, IInv, TypeOK, PhaseInv, AbortReachesLoop, FailureInv,
       FailurePending, FailureReportedOnce, Phases
  <1>5. CASE RunStarted
    BY <1>5 DEF RunStarted, KeptAbort, IInv, TypeOK, PhaseInv, AbortReachesLoop, FailureInv,
       FailurePending, FailureReportedOnce, Phases
  <1>6. ASSUME NEW how \in Finish, LoopEnds(how) PROVE IInv'
    <2>1. TypeOK' /\ PhaseInv' /\ AbortReachesLoop'
      BY <1>6 DEF LoopEnds, FailureEvent, IInv, TypeOK, PhaseInv, AbortReachesLoop, Phases
    <2>2. FailureInv'
      BY <1>6 DEF LoopEnds, FailureEvent, IInv, TypeOK, PhaseInv, FailureInv,
         FailurePending, Finish
    <2>3. FailureReportedOnce'
      BY <1>6 DEF LoopEnds, IInv, TypeOK, PhaseInv, FailureInv, FailureReportedOnce
    <2> QED
      BY <2>1, <2>2, <2>3 DEF IInv
  <1>7. CASE Drained
    BY <1>7 DEF Drained, IInv, TypeOK, PhaseInv, AbortReachesLoop, FailureInv,
       FailurePending, FailureReportedOnce, Phases
  <1>8. CASE RunThrows
    BY <1>8, RejectInv DEF RunThrows
  <1>9. CASE Conclude
    BY <1>9, ReportInv DEF Conclude
  <1>10. CASE AskRecovery
    BY <1>10 DEF AskRecovery, RecoveriesLeft, IInv, TypeOK, PhaseInv, AbortReachesLoop, FailureInv,
       FailurePending, FailureReportedOnce, Phases
  <1>11. CASE Recovered
    BY <1>11 DEF Recovered, IInv, TypeOK, PhaseInv, AbortReachesLoop, FailureInv,
       FailurePending, FailureReportedOnce, Phases
  <1>12. CASE NotRecovered
    BY <1>12, ReportInv DEF NotRecovered, IInv, PhaseInv
  <1>13. CASE Abort
    BY <1>13, AbortLoopType DEF Abort, IInv, TypeOK, PhaseInv, AbortReachesLoop, FailureInv,
       FailurePending, FailureReportedOnce
  <1>14. CASE \E c \in Closers : ShutdownNow(c)
    BY <1>14 DEF ShutdownNow, Busy, IInv, TypeOK, PhaseInv, AbortReachesLoop, FailureInv,
       FailurePending, FailureReportedOnce
  <1>15. CASE \E c \in Closers : ShutdownBusy(c)
    BY <1>15 DEF ShutdownBusy, IInv, TypeOK, PhaseInv, AbortReachesLoop, FailureInv,
       FailurePending, FailureReportedOnce
  <1>16. CASE \E c \in Closers : AbortAndShutdown(c)
    BY <1>16, AbortLoopType DEF AbortAndShutdown, Busy, IInv, TypeOK, PhaseInv, AbortReachesLoop, FailureInv,
       FailurePending, FailureReportedOnce
  <1>17. CASE UNCHANGED vars
    BY <1>17 DEF vars, IInv, TypeOK, PhaseInv, AbortReachesLoop, FailureInv,
       FailurePending, FailureReportedOnce
  <1> QED
    BY <1>1, <1>2, <1>3, <1>4, <1>5, <1>6, <1>7, <1>8, <1>9, <1>10, <1>11, <1>12, <1>13,
       <1>14, <1>15, <1>16, <1>17 DEF Next, Progress, Shutdown

\* The variables of SessionRuntime keep their types.
THEOREM TypeCorrect == Spec => []TypeOK
  <1>1. IInv => TypeOK
    BY DEF IInv
  <1> QED
    BY InitInv, StepInv, <1>1, PTL DEF Spec

\* A shutdown never takes effect under a run, recovery gaps included (lines 512-523).
THEOREM ShutdownWaits == Spec => []ShutdownOnlyWhenIdle
  <1>1. IInv => ShutdownOnlyWhenIdle
    BY DEF IInv, PhaseInv, ShutdownOnlyWhenIdle
  <1> QED
    BY InitInv, StepInv, <1>1, PTL DEF Spec

\* No abort is lost between the start of a run and its loop (lines 784-799).
THEOREM AbortsReachTheLoop == Spec => []AbortReachesLoop
  <1>1. IInv => AbortReachesLoop
    BY DEF IInv
  <1> QED
    BY InitInv, StepInv, <1>1, PTL DEF Spec

\* Whatever the number of recoveries, listeners hear of a failed run once and of a
\* run that succeeded in the end never (executeRunWithRecovery).
THEOREM FailuresReportedOnce == Spec => []FailureReportedOnce
  <1>1. IInv => FailureReportedOnce
    BY DEF IInv
  <1> QED
    BY InitInv, StepInv, <1>1, PTL DEF Spec

\* A cancelled run starts no further attempt (session-run-recovery.ts lines 146-150).
THEOREM NoAttemptAfterAnAbort == Spec => NoAttemptAfterAbort
  <1>1. IInv /\ [Next]_vars
          => [(activeRun /\ abortRequested) => ~(pc # "preparing" /\ pc' = "preparing")]_vars
    BY DEF Next, Progress, Run, CanStartRun, RunRefused, PrepareFails, BuildRuntime, RunStarted,
       LoopEnds, Drained, RunThrows, Conclude, Report, Settled, AskRecovery, Recovered,
       StillWanted, NotRecovered, Abort, Shutdown, ShutdownNow, ShutdownBusy,
       AbortAndShutdown
  <1> QED
    BY InitInv, StepInv, <1>1, PTL DEF Spec, NoAttemptAfterAbort
=============================================================================
