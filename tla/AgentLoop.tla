----------------------------- MODULE AgentLoop -----------------------------
(***************************************************************************)
(* One run of AgentRuntime (agent-runtime.ts): the loop of model turns     *)
(* (model-turn.ts), their retries (retry-policy.ts) and the tool calls     *)
(* (tool-execution.ts), with the aborts and the steering messages that     *)
(* arrive at any await.                                                    *)
(*                                                                         *)
(* Of a message only its tool calls are kept, of a model's answer what the *)
(* loop looks at.  Hooks and listeners are awaited: they may stop the run, *)
(* throw or take their time.                                               *)
(***************************************************************************)
EXTENDS Naturals, Sequences, SequencesExt

CONSTANTS
    Calls,          \* tool calls of one answer
    Parallel,       \* those of tools with executionMode "parallel"
    Completing,     \* those of tools with lifecycle.completesRun
    Responses,      \* the sequences of calls the model may ask for
    MaxIterations,  \* config.maxIterations
    MaxRetries,     \* PROVIDER_ERROR_MAX_RETRIES
    HasPrepareTurn, \* is config.prepareTurn set?
    MaxSteers       \* bound: steering messages sent during the run

ASSUME CallsAssumption == Parallel \subseteq Calls /\ Completing \subseteq Calls
\* The calls of an answer have ids of their own.
ASSUME ResponsesAssumption == /\ Responses \subseteq Seq(Calls)
                              /\ \A r \in Responses : IsInjective(r)
ASSUME BoundsAssumption == /\ MaxIterations \in Nat \ {0}
                           /\ MaxRetries \in Nat
                           /\ MaxSteers \in Nat
                           /\ HasPrepareTurn \in BOOLEAN

VARIABLES
    pc,             \* where the loop is, see Phases
    iteration,      \* state.iteration
    aborted,        \* abortController.signal.aborted
    steers,         \* steering messages the host holds
    steered,        \* steering messages sent so far
    notified,       \* modelSteerController.signal.aborted
    answer,         \* what the model answered
    retries,        \* provider retries of this turn
    overflowTried,  \* overflowRecoveryAttempted
    requests,       \* requests of this turn
    calls,          \* the tool calls of this turn
    call,           \* how far each of them is
    refused,        \* those with a skipReason
    open,           \* calls of the transcript that have no result
    outcome         \* how the run ends

loop  == <<iteration, answer, retries, overflowTried, requests>>
steer == <<steers, steered, notified>>
tools == <<calls, call, refused, open>>
vars  == <<pc, loop, steer, tools, aborted, outcome>>

\* "opening" is the wait for turn-started, "request" the preparation of a model
\* request, "answered" the afterModel hooks, "reminding" the completion guard,
\* "finishing" and "failing" the afterRun hooks and the last event.
Phases == {"starting", "turn", "opening", "request", "streaming", "answered", "overflow",
           "backoff", "reminding", "preparing", "tools", "finishing", "failing", "ended"}

\* "cut" and "empty" are answers a steering message cut short, with content or without.
Answers == {"none", "text", "tools", "cut", "empty", "transient", "overflow", "error"}

\* "announced" waits for tool-started, "executed" for the afterTool hooks.
CallStates == {"none", "ready", "announced", "executing", "executed", "answered", "dropped"}

TypeOK ==
    /\ pc \in Phases
    /\ iteration \in 0 .. MaxIterations
    /\ aborted \in BOOLEAN
    /\ steers \in 0 .. MaxSteers
    /\ steered \in 0 .. MaxSteers
    /\ notified \in BOOLEAN
    /\ answer \in Answers
    /\ retries \in 0 .. MaxRetries
    /\ overflowTried \in BOOLEAN
    /\ requests \in Nat
    /\ calls \in Responses \cup {<<>>}
    /\ call \in [Calls -> CallStates]
    /\ refused \subseteq Calls
    /\ open \subseteq Calls
    /\ outcome \in {"none", "completed", "aborted", "failed", "threw"}

Init ==
    /\ pc = "starting"
    /\ iteration = 0
    /\ aborted = FALSE
    /\ steers = 0
    /\ steered = 0
    /\ notified = FALSE
    /\ answer = "none"
    /\ retries = 0
    /\ overflowTried = FALSE
    /\ requests = 0
    /\ calls = <<>>
    /\ call = [c \in Calls |-> "none"]
    /\ refused = {}
    /\ open = {}
    /\ outcome = "none"

-----------------------------------------------------------------------------
\* The catch of execute, up to its first await.
Throw(why) ==
    /\ pc' = "failing"
    /\ outcome' = IF aborted \/ why = "stop" THEN "aborted" ELSE "failed"

Goto(phase) == pc' = phase /\ UNCHANGED outcome

\* A hook stops the run, or it or a listener throws.
HookEndsRun == \E why \in {"stop", "error"} : Throw(why)

-----------------------------------------------------------------------------
(***************************************************************************)
(* Turns.                                                                  *)
(***************************************************************************)

\* beforeRun hooks, run-started, the input is announced.
Started ==
    /\ pc = "starting"
    /\ Goto("turn") \/ HookEndsRun
    /\ UNCHANGED <<loop, steer, tools, aborted>>

\* The head of the loop.
BeginTurn ==
    /\ pc = "turn"
    /\ \/ /\ iteration = MaxIterations
          /\ Throw("error")
          /\ UNCHANGED loop
       \/ /\ iteration < MaxIterations /\ aborted
          /\ Throw("error")
          /\ UNCHANGED loop
       \/ /\ iteration < MaxIterations /\ ~aborted
          /\ iteration' = iteration + 1
          /\ retries' = 0
          /\ requests' = 0
          /\ Goto("opening")
          /\ UNCHANGED <<answer, overflowTried>>
    /\ UNCHANGED <<steer, tools, aborted>>

\* A bug to be caught: the steering message is looked up in the first turn only.
ReadsSteer_First == iteration = 1 /\ steers > 0

\* A request of a later turn takes a steering message along.
ReadsSteer == iteration > 1 /\ steers > 0

\* generateAssistantMessage begins: for a turn, a retry or an overflow recovery.
BeginRequest ==
    /\ pc \in {"opening", "backoff", "overflow"}
    /\ ~(pc = "backoff" /\ aborted)
    /\ notified' = FALSE
    /\ steers' = IF ReadsSteer THEN steers - 1 ELSE steers
    /\ Goto("request")
    /\ UNCHANGED <<iteration, answer, retries, overflowTried, requests, steered, tools,
                   aborted>>

\* Announcing the turn, the retry or the recovery throws.
NoticeFails ==
    /\ pc \in {"opening", "backoff", "overflow"}
    /\ ~(pc = "backoff" /\ aborted)
    /\ HookEndsRun
    /\ UNCHANGED <<loop, steer, tools, aborted>>

\* A bug to be caught: the abort clears the timer and rejects nothing.
BackoffAborted_TimerOnly == pc = "backoff" /\ aborted /\ UNCHANGED vars

\* The backoff is cut short by an abort.
BackoffAborted ==
    /\ pc = "backoff"
    /\ aborted
    /\ Throw("error")
    /\ UNCHANGED <<loop, steer, tools, aborted>>

MaySend == ~aborted

\* prepareTurn and the beforeModel hooks are done: the model is asked.
SendRequest ==
    /\ pc = "request"
    /\ \/ /\ MaySend
          /\ Goto("streaming")
          /\ requests' = requests + 1
       \/ /\ aborted
          /\ Throw("error")
          /\ UNCHANGED requests
       \/ /\ HookEndsRun
          /\ UNCHANGED requests
    /\ UNCHANGED <<iteration, answer, retries, overflowTried, steer, tools, aborted>>

\* The stream ends: with an answer, cut short by a steering message, or thrown.
StreamEnds ==
    /\ pc = "streaming"
    /\ \/ /\ ~aborted
          /\ answer' \in IF notified THEN {"cut", "empty"}
                         ELSE Answers \ {"none", "cut", "empty"}
          /\ Goto("answered")
       \/ /\ Throw("error")
          /\ UNCHANGED answer
    /\ UNCHANGED <<iteration, retries, overflowTried, requests, steer, tools, aborted>>

RetryLeft == retries < MaxRetries

\* The provider failed in a way another request may mend.
Retry ==
    /\ pc = "answered"
    /\ answer = "transient"
    /\ RetryLeft
    /\ retries' = retries + 1
    /\ Goto("backoff")
    /\ UNCHANGED <<iteration, answer, overflowTried, requests, steer, tools, aborted>>

\* A bug to be caught: every overflow of a run is worth a compaction.
Recoverable_Always == answer = "overflow"

Recoverable == answer = "overflow" /\ ~overflowTried

\* The context overflowed: compact and ask again, once in a run.
RecoverOverflow ==
    /\ pc = "answered"
    /\ Recoverable
    /\ overflowTried' = TRUE
    /\ \/ HasPrepareTurn /\ Goto("overflow")
       \/ ~HasPrepareTurn /\ Throw("error")
    /\ UNCHANGED <<iteration, answer, retries, requests, steer, tools, aborted>>

\* What is left of the errors ends the run, as a hook may any answer.
AnswerFails ==
    /\ pc = "answered"
    /\ \/ HookEndsRun
       \/ /\ \/ answer = "error"
             \/ answer = "transient" /\ ~RetryLeft
             \/ answer = "overflow" /\ ~Recoverable
          /\ Throw("error")
    /\ UNCHANGED <<loop, steer, tools, aborted>>

\* A bug to be caught: the calls of an answer that was cut short are kept.
AnswerCut_KeepsCalls ==
    /\ pc = "answered"
    /\ answer \in {"cut", "empty"}
    /\ \E r \in Responses : open' = ToSet(r)
    /\ Goto("turn")
    /\ UNCHANGED <<loop, steer, calls, call, refused, aborted>>

\* An answer that was cut short is kept as far as it came, without its calls.
AnswerCut ==
    /\ pc = "answered"
    /\ answer \in {"cut", "empty"}
    /\ Goto("turn")
    /\ UNCHANGED <<loop, steer, tools, aborted>>

\* An answer in text only.
AnswerText ==
    /\ pc = "answered"
    /\ answer = "text"
    /\ Goto("reminding")
    /\ UNCHANGED <<loop, steer, tools, aborted>>

\* An answer that asks for tools joins the transcript.
AnswerTools ==
    /\ pc = "answered"
    /\ answer = "tools"
    /\ calls' \in Responses
    /\ call' = [c \in Calls |-> "none"]
    /\ refused' = {}
    /\ open' = ToSet(calls')
    /\ Goto("preparing")
    /\ UNCHANGED <<loop, steer, aborted>>

\* getCompletionReminderMessages: the run goes on with a reminder or is done.
Reminded ==
    /\ pc = "reminding"
    /\ \/ Goto("turn")
       \/ pc' = "finishing" /\ outcome' = "completed"
       \/ HookEndsRun
    /\ UNCHANGED <<loop, steer, tools, aborted>>

-----------------------------------------------------------------------------
(***************************************************************************)
(* Tools: executeToolCalls.                                                *)
(***************************************************************************)

\* prepareToolExecution, one call after the other: hooks, policy and approval
\* leave it ready or refuse it.
PrepareCall ==
    /\ pc = "preparing"
    /\ \E i \in DOMAIN calls :
           /\ call[calls[i]] = "none"
           /\ \A j \in 1 .. i - 1 : call[calls[j]] # "none"
           /\ \/ /\ ~aborted
                 /\ call' = [call EXCEPT ![calls[i]] = "ready"]
                 /\ refused' \in {refused, refused \cup {calls[i]}}
                 /\ Goto("preparing")
              \/ /\ HookEndsRun \/ (aborted /\ Throw("error"))
                 /\ UNCHANGED <<call, refused>>
    /\ UNCHANGED <<loop, steer, calls, open, aborted>>

Prepared ==
    /\ pc = "preparing"
    /\ \A c \in ToSet(calls) : call[c] # "none"
    /\ Goto("tools")
    /\ UNCHANGED <<loop, steer, tools, aborted>>

\* A bug to be caught: a group of parallel calls goes on to the end of the answer.
Group_ToTheEnd(i) == {calls[j] : j \in i .. Len(calls)}

\* The calls that execute together: one, or the parallel ones next to each other.
Group(i) ==
    IF calls[i] \notin Parallel THEN {calls[i]}
    ELSE {calls[j] : j \in {k \in i .. Len(calls) :
                              \A m \in i .. k : calls[m] \in Parallel}}

\* The next group begins when the one before it is answered.
BeginGroup ==
    /\ pc = "tools"
    /\ \E i \in DOMAIN calls :
           /\ call[calls[i]] = "ready"
           /\ \A j \in 1 .. i - 1 : call[calls[j]] = "answered"
           /\ \/ /\ ~aborted
                 /\ call' = [c \in Calls |-> IF c \in Group(i) THEN "announced" ELSE call[c]]
                 /\ Goto("tools")
              \/ /\ aborted
                 /\ Throw("error")
                 /\ UNCHANGED call
    /\ UNCHANGED <<loop, steer, calls, refused, open, aborted>>

\* The signal a call looks at: after the run there is none.
Signalled == aborted /\ pc # "ended"

\* executePreparedTool of c throws.  The first to throw ends the run, the others
\* of its group go on.
CallThrows(c, why) ==
    /\ call' = [call EXCEPT ![c] = "dropped"]
    /\ \/ pc = "tools" /\ Throw(why)
       \/ pc # "tools" /\ UNCHANGED <<pc, outcome>>

\* A bug to be caught: no look at the signal after tool-started was announced.
MayExecute_Unchecked == TRUE

MayExecute == ~Signalled

\* tool-started has been announced: the tool is called.
Execute(c) ==
    /\ call[c] = "announced"
    /\ \/ /\ MayExecute
          /\ call' = [call EXCEPT ![c] = IF c \in refused THEN "executed" ELSE "executing"]
          /\ UNCHANGED <<pc, outcome>>
       \/ Signalled /\ CallThrows(c, "error")
    /\ UNCHANGED <<loop, steer, calls, refused, open, aborted>>

\* The tool returns or fails, early if it heeds a signal.
ToolReturns(c) ==
    /\ call[c] = "executing"
    /\ call' = [call EXCEPT ![c] = "executed"]
    /\ UNCHANGED <<pc, outcome, loop, steer, calls, refused, open, aborted>>

\* The afterTool hooks and tool-finished.  The signal is looked at before each
\* hook, so that an abort need not make the call throw.
CallDone(c) ==
    /\ call[c] = "executed"
    /\ \/ /\ call' = [call EXCEPT ![c] = "answered"]
          /\ UNCHANGED <<pc, outcome>>
       \/ \E why \in {"stop", "error"} : CallThrows(c, why)
    /\ UNCHANGED <<loop, steer, calls, refused, open, aborted>>

\* The results join the transcript.  A completing tool ends the run if it succeeded.
ToolsDone ==
    /\ pc = "tools"
    /\ \A c \in ToSet(calls) : call[c] = "answered"
    /\ open' = {}
    /\ \/ Goto("turn")
       \/ /\ ToSet(calls) \cap Completing # {}
          /\ pc' = "finishing"
          /\ outcome' = "completed"
       \/ HookEndsRun
    /\ UNCHANGED <<loop, steer, calls, call, refused, aborted>>

-----------------------------------------------------------------------------
(***************************************************************************)
(* The end of the run, aborts and steering messages.                       *)
(***************************************************************************)

\* afterRun hooks and run-finished of a completed run: what they throw is caught.
Finished ==
    /\ pc = "finishing"
    /\ Goto("ended") \/ HookEndsRun
    /\ UNCHANGED <<loop, steer, tools, aborted>>

\* afterRun hooks and the last event of the catch: what they throw is not.
Failed ==
    /\ pc = "failing"
    /\ pc' = "ended"
    /\ outcome' \in {outcome, "threw"}
    /\ UNCHANGED <<loop, steer, tools, aborted>>

\* abort(): the controller exists until the end.
Abort ==
    /\ pc # "ended"
    /\ aborted' = TRUE
    /\ UNCHANGED <<pc, loop, steer, tools, outcome>>

\* A steering message is queued and notifyPendingUserMessage called: a model
\* request is cut short, tools that pass time return.
Steer ==
    /\ pc # "ended"
    /\ steered < MaxSteers
    /\ steered' = steered + 1
    /\ steers' = steers + 1
    /\ notified' = (notified \/ pc \in {"request", "streaming"})
    /\ UNCHANGED <<pc, loop, tools, aborted, outcome>>

-----------------------------------------------------------------------------
Progress ==
    \/ Started \/ BeginTurn \/ NoticeFails \/ BeginRequest \/ BackoffAborted
    \/ SendRequest \/ StreamEnds
    \/ Retry \/ RecoverOverflow \/ AnswerFails \/ AnswerCut \/ AnswerText \/ AnswerTools
    \/ Reminded \/ PrepareCall \/ Prepared \/ BeginGroup \/ ToolsDone \/ Finished \/ Failed
    \/ \E c \in Calls : Execute(c) \/ ToolReturns(c) \/ CallDone(c)

\* The run is over and none of its tools is left.
Over ==
    /\ pc = "ended"
    /\ \A c \in Calls : call[c] \notin {"announced", "executing", "executed"}
    /\ UNCHANGED vars

Next == Progress \/ Abort \/ Steer \/ Over

Spec == Init /\ [][Next]_vars

\* The model answers or times out; hooks and tools return.
FairSpec == Spec /\ WF_vars(Progress)

-----------------------------------------------------------------------------
(***************************************************************************)
(* Properties.                                                             *)
(***************************************************************************)

\* Every call of the transcript has its result before the model is asked again:
\* providers reject a request that leaves one open (execute, executeToolCalls).
NoRequestWithOpenCalls == pc \in {"request", "streaming"} => open = {}

\* A sequential tool has the workspace to itself, also next to parallel ones
\* (tool-execution.ts lines 92-93), refused calls and steering included.
SequentialAlone ==
    \A c, d \in Calls :
        (call[c] = "executing" /\ call[d] = "executing" /\ c # d)
            => {c, d} \subseteq Parallel

\* One turn costs at most one request, MaxRetries retries and the overflow
\* recovery of the run (retry-policy.ts), however the failures are mixed.
RequestsBounded ==
    requests <= MaxRetries + 1 + (IF overflowTried THEN 1 ELSE 0)

\* Once aborted, the run asks no model and calls no tool while it winds down,
\* whichever await the abort arrived in.
NothingStartsAfterAbort ==
    [][(aborted /\ pc # "ended") =>
          /\ ~(pc # "streaming" /\ pc' = "streaming")
          /\ \A c \in Calls : ~(call[c] = "announced" /\ call'[c] = "executing")]_vars

\* A steering message that waits while a later turn's request is under way cuts
\* that request short: none is passed over (for one message at a time).
SteerNotPassedOver ==
    (pc = "streaming" /\ iteration > 1 /\ steers > 0) => notified

\* The run comes to its end, whatever fails in it.
RunEnds == <>(pc = "ended")

\* "the runtime drains instead of refusing and the sandbox is only killed once no
\* tool call can be pending" (local-runtime-host.test.ts lines 6573-6574): a run
\* that has ended has no tool at work.
NoCallPendingAtEnd == pc = "ended" => \A c \in Calls : call[c] # "executing"
=============================================================================
