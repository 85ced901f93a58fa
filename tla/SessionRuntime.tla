--------------------------- MODULE SessionRuntime ---------------------------
(***************************************************************************)
(* The per-session run orchestrator of the engine: class SessionRuntime    *)
(* (session-runtime-orchestrator.ts) with SessionRunRecovery               *)
(* (session-run-recovery.ts).  It starts one AgentRuntime per attempt,     *)
(* recovers failed attempts in place, forwards aborts to the live attempt, *)
(* and shuts the session down once the active run has drained.             *)
(*                                                                         *)
(* What AgentRuntime does inside an attempt (AgentLoop.tla) is reduced to  *)
(* the status it ends with.                                                *)
(***************************************************************************)
EXTENDS Naturals

CONSTANTS
    MaxRecovery,    \* MAX_RUN_RECOVERY_ATTEMPTS
    HasRecovery,    \* is config.onRunError or config.onAuthError set?
    Closers         \* the callers of shutdown(): a stop, a dispose, a failed turn

ASSUME MaxRecoveryAssumption == MaxRecovery \in Nat \ {0}
ASSUME HasRecoveryAssumption == HasRecovery \in BOOLEAN

VARIABLES
    pc,             \* where the active run is, see Phases
    running,        \* this.running
    activeRun,      \* this.activeRunPromise # null
    abortRequested, \* this.abortRequested
    shutdownCalled, \* this.shutdownCalled
    signal,         \* the abort signal given to run() was already aborted
    loopAborted,    \* the live AgentRuntime's abort signal is aborted
    attempt,        \* recoveries tried in this run
    finish,         \* how the last attempt ended
    deferred,       \* deferredRunFailure: a run-failed event is held back
    surfaced,       \* run-failed events the listeners saw in this run
    result,         \* how the last run() settled
    closer          \* what became of each caller of shutdown()

vars == <<pc, running, activeRun, abortRequested, shutdownCalled, signal,
          loopAborted, attempt, finish, deferred, surfaced, result, closer>>

(***************************************************************************)
(* "preparing" is executeRunInternal before the AgentRuntime exists,       *)
(* "built" the runtime before run-started, "looping" its loop, "draining"  *)
(* the wait for the trackers, "ended" the decision whether to recover and  *)
(* "recovering" the wait for the host's recovery hook.                     *)
(***************************************************************************)
Phases  == {"idle", "preparing", "built", "looping", "draining", "ended", "recovering"}
Finish  == {"completed", "aborted", "error", "threw"}
Results == {"none", "completed", "aborted", "error", "rejected"}

TypeOK ==
    /\ pc \in Phases
    /\ running \in BOOLEAN
    /\ activeRun \in BOOLEAN
    /\ abortRequested \in BOOLEAN
    /\ shutdownCalled \in BOOLEAN
    /\ signal \in BOOLEAN
    /\ loopAborted \in BOOLEAN
    /\ attempt \in 0 .. MaxRecovery
    /\ finish \in Finish
    /\ deferred \in BOOLEAN
    /\ surfaced \in Nat
    /\ result \in Results
    /\ closer \in [Closers -> {"out", "waiting", "closed", "refused", "failed"}]

Init ==
    /\ pc = "idle"
    /\ running = FALSE
    /\ activeRun = FALSE
    /\ abortRequested = FALSE
    /\ shutdownCalled = FALSE
    /\ signal = FALSE
    /\ loopAborted = FALSE
    /\ attempt = 0
    /\ finish = "completed"
    /\ deferred = FALSE
    /\ surfaced = 0
    /\ result = "none"
    /\ closer = [c \in Closers |-> "out"]

CanStartRun == ~running /\ ~activeRun /\ ~shutdownCalled

-----------------------------------------------------------------------------
(***************************************************************************)
(* The run.                                                                *)
(***************************************************************************)

\* run() or continue() on a runtime that can start: executeRun sets the
\* promise and executeRunInternal runs up to its first await.
Run(aborted) ==
    /\ CanStartRun
    /\ pc' = "preparing"
    /\ running' = TRUE
    /\ activeRun' = TRUE
    /\ abortRequested' = FALSE
    /\ signal' = aborted
    /\ attempt' = 0
    /\ surfaced' = 0
    /\ result' = "none"
    /\ UNCHANGED <<shutdownCalled, loopAborted, finish, deferred, closer>>

\* run() on a runtime that cannot start rejects.  Only a run whose promise is
\* still there leaves abortRequested alone.
RunRefused ==
    /\ ~CanStartRun
    /\ abortRequested' = (activeRun /\ abortRequested)
    /\ UNCHANGED <<pc, running, activeRun, shutdownCalled, signal, loopAborted,
                   attempt, finish, deferred, surfaced, result, closer>>

\* A bug to be caught: a rejected run never answers the shutdown that awaits it.
Release_OnSuccessOnly(c, ok) == IF closer[c] = "waiting" /\ ok THEN "closed" ELSE closer[c]

\* What a shutdown() that awaits the run's promise does when it settles.
Release(c, ok) ==
    IF closer[c] # "waiting" THEN closer[c] ELSE IF ok THEN "closed" ELSE "failed"

\* The promise of the run settles and its finally clears activeRunPromise.  A
\* shutdown() awaiting that promise resumes before its caller can start a run.
Settled(r) ==
    /\ pc' = "idle"
    /\ activeRun' = FALSE
    /\ result' = r
    /\ closer' = [c \in Closers |-> Release(c, r # "rejected")]
    /\ shutdownCalled' = (\/ shutdownCalled
                          \/ r # "rejected" /\ \E c \in Closers : closer[c] = "waiting")

\* Extension setup, the model factory or a rule's content throws before the
\* AgentRuntime exists.  The throw is outside the try whose finally resets running.
PrepareFails ==
    /\ pc = "preparing"
    /\ Settled("rejected")
    /\ UNCHANGED <<running, abortRequested, signal, loopAborted, attempt, finish,
                   deferred, surfaced>>

\* The AgentRuntime is created and the turn's abort signal is attached.  A
\* recovery attempt is started without the signal.
BuildRuntime ==
    /\ pc = "preparing"
    /\ pc' = "built"
    /\ abortRequested' = (abortRequested \/ (signal /\ attempt = 0))
    /\ loopAborted' = FALSE
    /\ UNCHANGED <<running, activeRun, shutdownCalled, signal, attempt, finish,
                   deferred, surfaced, result, closer>>

\* A bug to be caught: the abort kept since startup is dropped.
KeptAbort_Dropped == FALSE

\* What the run-started listener forwards.
KeptAbort == abortRequested

\* The AgentRuntime emits run-started: an abort kept since startup is forwarded.
RunStarted ==
    /\ pc = "built"
    /\ pc' = "looping"
    /\ loopAborted' = (loopAborted \/ KeptAbort)
    /\ UNCHANGED <<running, activeRun, abortRequested, shutdownCalled, signal,
                   attempt, finish, deferred, surfaced, result, closer>>

\* A bug to be caught: the held-back failure is forwarded as well.
FailureEvent_Forwarded ==
    /\ deferred' = (deferred \/ HasRecovery)
    /\ surfaced' = surfaced + 1

\* The listeners see run-failed at once unless the host may recover the run.
\* (deferRunFailure, handleRuntimeEvent)
FailureEvent ==
    /\ deferred' = (deferred \/ HasRecovery)
    /\ surfaced' = IF HasRecovery THEN surfaced ELSE surfaced + 1

\* The AgentRuntime's promise settles.  Its catch reports "aborted" for an error
\* that follows an abort, "error" when the abort lands on its afterRun hooks only;
\* without an abort a hook may still stop the run.  What throws on the run's last
\* event makes it reject.
LoopEnds(how) ==
    /\ pc \in {"built", "looping"}
    /\ (pc = "built") => (how # "completed")
    /\ pc' = "draining"
    /\ finish' = how
    /\ \/ how \in {"error", "threw"} /\ FailureEvent
       \/ how # "error" /\ UNCHANGED <<deferred, surfaced>>
    /\ UNCHANGED <<running, activeRun, abortRequested, shutdownCalled, signal,
                   loopAborted, attempt, result, closer>>

\* The finally of executeRunInternal: trackers drained, running reset.
Drained ==
    /\ pc = "draining"
    /\ running' = FALSE
    /\ pc' = "ended"
    /\ UNCHANGED <<activeRun, abortRequested, shutdownCalled, signal, loopAborted,
                   attempt, finish, deferred, surfaced, result, closer>>

\* buildLegacyResult rethrows what AgentRuntime threw.
RunThrows ==
    /\ pc = "ended"
    /\ finish = "threw"
    /\ Settled("rejected")
    /\ UNCHANGED <<running, abortRequested, signal, loopAborted, attempt, finish,
                   deferred, surfaced>>

\* The last lines of executeRunWithRecovery: an abort overrides the outcome, a
\* failure that stayed is replayed to the listeners.
Report ==
    /\ deferred' = FALSE
    /\ surfaced' = IF deferred /\ finish = "error" /\ ~abortRequested
                     THEN surfaced + 1 ELSE surfaced
    /\ Settled(IF abortRequested THEN "aborted" ELSE finish)
    /\ UNCHANGED <<running, abortRequested, signal, loopAborted, attempt, finish>>

\* A bug to be caught: one recovery too many.
RecoveriesLeft_OffByOne == attempt <= MaxRecovery

RecoveriesLeft == attempt < MaxRecovery

\* Nothing to recover from, or nobody may: the run is over.
Conclude ==
    /\ pc = "ended"
    /\ finish # "threw"
    /\ \/ finish # "error"
       \/ shutdownCalled
       \/ abortRequested
       \/ ~RecoveriesLeft
    /\ Report

\* attemptRunRecovery asks the host and waits.
AskRecovery ==
    /\ pc = "ended"
    /\ finish = "error"
    /\ ~shutdownCalled
    /\ ~abortRequested
    /\ RecoveriesLeft
    /\ pc' = "recovering"
    /\ attempt' = attempt + 1
    /\ UNCHANGED <<running, activeRun, abortRequested, shutdownCalled, signal,
                   loopAborted, finish, deferred, surfaced, result, closer>>

\* A bug to be caught: the abort is not looked at again after the hook's await.
StillWanted_Unchecked == ~shutdownCalled

StillWanted == ~abortRequested /\ ~shutdownCalled

\* The host recovered: unless the run was aborted or the session shut down
\* meanwhile, the failure is discarded and the next attempt starts.
Recovered ==
    /\ pc = "recovering"
    /\ HasRecovery
    /\ StillWanted
    /\ pc' = "preparing"
    /\ running' = TRUE
    /\ deferred' = FALSE
    /\ UNCHANGED <<activeRun, abortRequested, shutdownCalled, signal, loopAborted,
                   attempt, finish, surfaced, result, closer>>

\* The host declined, has no hook for this error, or answered too late.
NotRecovered ==
    /\ pc = "recovering"
    /\ Report

-----------------------------------------------------------------------------
(***************************************************************************)
(* abort() and shutdown().                                                 *)
(***************************************************************************)

\* AgentRuntime.abort takes an abort only while its controller exists: it is
\* created at some time before run-started.
Taken == IF pc = "built" THEN BOOLEAN ELSE {pc = "looping"}

AbortLoop == \E taken \in Taken : loopAborted' = (loopAborted \/ taken)

\* The request is remembered whatever the phase.
Abort ==
    /\ abortRequested' = TRUE
    /\ AbortLoop
    /\ UNCHANGED <<pc, running, activeRun, shutdownCalled, signal, attempt, finish,
                   deferred, surfaced, result, closer>>

\* A bug to be caught: the gap of a recovery counts as idle.
Busy_RunningOnly == running

Busy == running \/ activeRun

\* shutdown() with nothing to wait for.
ShutdownNow(c) ==
    /\ closer[c] # "waiting"
    /\ ~Busy
    /\ shutdownCalled' = TRUE
    /\ closer' = [closer EXCEPT ![c] = "closed"]
    /\ UNCHANGED <<pc, running, activeRun, abortRequested, signal, loopAborted,
                   attempt, finish, deferred, surfaced, result>>

\* shutdown() of a busy session: SessionRunInProgressError, unless an abort was
\* requested and there is a promise to wait for.
ShutdownBusy(c) ==
    /\ closer[c] # "waiting"
    /\ Busy
    /\ closer' = [closer EXCEPT ![c] =
                     IF abortRequested /\ activeRun THEN "waiting" ELSE "refused"]
    /\ UNCHANGED <<pc, running, activeRun, abortRequested, shutdownCalled, signal,
                   loopAborted, attempt, finish, deferred, surfaced, result>>

Shutdown(c) == ShutdownNow(c) \/ ShutdownBusy(c)

\* abort() and shutdown() one right after the other, as a host that stops a busy
\* session calls them.
AbortAndShutdown(c) ==
    /\ closer[c] # "waiting"
    /\ abortRequested' = TRUE
    /\ AbortLoop
    /\ shutdownCalled' = (shutdownCalled \/ ~Busy)
    /\ closer' = [closer EXCEPT ![c] =
                     IF ~Busy THEN "closed" ELSE IF activeRun THEN "waiting" ELSE "refused"]
    /\ UNCHANGED <<pc, running, activeRun, signal, attempt, finish, deferred, surfaced,
                   result>>

-----------------------------------------------------------------------------
Progress ==
    \/ PrepareFails
    \/ BuildRuntime
    \/ RunStarted
    \/ \E how \in Finish : LoopEnds(how)
    \/ Drained
    \/ RunThrows
    \/ Conclude
    \/ AskRecovery
    \/ Recovered
    \/ NotRecovered

Next ==
    \/ \E aborted \in BOOLEAN : Run(aborted)
    \/ RunRefused
    \/ Progress
    \/ Abort
    \/ \E c \in Closers : Shutdown(c) \/ AbortAndShutdown(c)

Spec == Init /\ [][Next]_vars

\* A run that is active is worked on: its awaits complete, because model
\* requests time out and the recovery hooks answer.
FairSpec == Spec /\ WF_vars(Progress)

-----------------------------------------------------------------------------
(***************************************************************************)
(* Properties.                                                             *)
(***************************************************************************)

\* shutdown() never takes effect under a run: neither while an attempt runs nor
\* in the gap of a recovery, when running is already reset (shutdown, lines 512-523).
ShutdownOnlyWhenIdle == shutdownCalled => (pc = "idle" /\ ~activeRun)

\* An abort that arrives before the AgentRuntime can take it, in preparation or
\* with the turn's own signal, still reaches the loop (lines 784-787, 791-799).
AbortReachesLoop == (pc = "looping" /\ abortRequested) => loopAborted

\* A failed run is reported to the listeners exactly once, a run that succeeded
\* in the end never, however many attempts it took (executeRunWithRecovery).
FailureReportedOnce ==
    /\ (result = "error") => (surfaced = 1)
    /\ (result = "completed") => (surfaced = 0)

\* A cancelled run never starts another attempt: not even when the abort lands
\* while the recovery hook is awaited (session-run-recovery.ts lines 146-150).
NoAttemptAfterAbort ==
    [][(activeRun /\ abortRequested) => ~(pc # "preparing" /\ pc' = "preparing")]_vars

\* A shutdown that waits for an aborted run gets its answer.
ShutdownAnswered ==
    \A c \in Closers : (closer[c] = "waiting") ~> (closer[c] # "waiting")

\* "True when no run is currently active and the session is not shut down": the
\* comment of canStartRun (line 342).  A run is active while its promise is.
CanStartWhenNoRun == (~activeRun /\ ~shutdownCalled) => CanStartRun
=============================================================================
