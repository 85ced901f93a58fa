------------------------------ MODULE TurnHost ------------------------------
(***************************************************************************)
(* One session of LocalRuntimeHost (local-runtime-host.ts) with its        *)
(* PendingPromptsController (pending-prompt-service.ts) and the turns it   *)
(* executes (local/turn-execution.ts).  The session's agent is the machine *)
(* of SessionRuntime.tla, which this module drives: it starts runs, aborts *)
(* and shuts the agent down, and moves on when a run settles.              *)
(*                                                                         *)
(* A step of this module is what the code does between two awaits.         *)
(***************************************************************************)
EXTENDS Naturals, PendingPrompts, FiniteSets

CONSTANTS
    Kinds,          \* what session.interactive may be
    Texts,          \* the prompts users type
    MaxSent,        \* bound: prompts typed
    Turns,          \* bound: turns that may be in flight at once
    Stoppers,       \* calls of stopSession and dispose
    NoTurn,
    MaxRecovery, HasRecovery

ASSUME KindsAssumption == Kinds \subseteq BOOLEAN
ASSUME MaxSentAssumption == MaxSent \in Nat
ASSUME NoTurnAssumption == NoTurn \notin Turns
ASSUME RecoveryAssumption == MaxRecovery \in Nat \ {0} /\ HasRecovery \in BOOLEAN

VARIABLES
    interactive,    \* session.interactive, which never changes
    live,           \* the sessions map still holds the session
    persisted,      \* session.artifacts is there
    status,         \* session.status
    lastFinish,     \* session.lastInteractiveTurnFinishReason
    aborting,       \* session.aborting
    paused,         \* session.pendingPromptsPaused
    queue,          \* session.pendingPrompts
    draining,       \* session.drainingPendingPrompts
    drainDue,       \* a drain microtask is queued
    active,         \* session.activeTurn
    turn,           \* the turns in flight
    waiters,        \* explicit sends awaiting the cancelled turn
    closing,        \* the shutdowns and releases in flight
    starting,       \* how far startResolvedSession is
    sent,           \* prompts typed so far: they are numbered
    taken,          \* history: prompts handed to the agent, or on their way to it
    gone,           \* history: prompts withdrawn, merged or answered by an error
    again,          \* history: prompts that ran and were put back in the queue
    crossed         \* history: the first prompt's turn was started beside another

\* The agent: the variables of SessionRuntime.
VARIABLES pc, running, activeRun, abortRequested, shutdownCalled, signal,
          loopAborted, attempt, finish, deferred, surfaced, result, closer

Closers == Stoppers \cup Turns

RT == INSTANCE SessionRuntime

session == <<live, persisted, status, lastFinish>>
hold    == <<aborting, paused>>
prompts == <<queue, draining, drainDue>>
turns   == <<active, turn, waiters>>
ledger  == <<sent, taken, gone, again, crossed>>
agent   == <<pc, running, activeRun, abortRequested, shutdownCalled, signal,
             loopAborted, attempt, finish, deferred, surfaced, result, closer>>
vars    == <<interactive, session, hold, prompts, turns, ledger, closing, starting, agent>>

-----------------------------------------------------------------------------
(***************************************************************************)
(* Types.                                                                  *)
(***************************************************************************)
Terminal == {"completed", "failed", "cancelled"}
Statuses == {"idle", "running"} \cup Terminal
Finishes == {"completed", "aborted", "error"}
PromptIds == 1 .. MaxSent

\* "prepare" and "mark" are executeTurn before the agent runs, "running" and
\* "rerunning" its run, "refresh" the wait before the auth retry, "saving" the
\* writes after it, "idling" markTurnIdle, "throwing" the flush after an error,
\* "tidying" and "retiring" completeAbortedInteractiveTurn, "closing" the shutdown
\* of the session.
TurnPhases == {"none", "prepare", "mark", "running", "refresh", "rerunning", "saving",
               "idling", "throwing", "tidying", "retiring", "closing"}

NoPrompt == [id |-> 0, text |-> "", delivery |-> "queue"]

\* "ran" says that its run has begun, "abort" whose turnAbortController the turn is
\* bound to, "cancelled" that this controller has aborted.
IdleTurn == [at |-> "none", prompt |-> NoPrompt, queued |-> FALSE, ran |-> FALSE,
             abort |-> NoTurn, cancelled |-> FALSE, finish |-> "completed"]
NotClosing == [at |-> "no", status |-> "cancelled"]

\* startResolvedSession has put the session in the map.  It goes on without an await
\* ("new"), or awaits git metadata or the write of the seeded transcript, before it
\* hands over the first prompt ("turn") or without one ("seed"); or it is through.
StartPhases == {"new", "turn", "seed", "done"}

\* A first prompt is still to be handed over.
FirstDue == starting \in {"new", "turn"}

TypeOK ==
    /\ {interactive, live, persisted, aborting, paused, draining, drainDue, crossed}
            \subseteq BOOLEAN
    /\ starting \in StartPhases
    /\ status \in Statuses
    /\ active \in Turns \cup {NoTurn}
    /\ lastFinish \in Finishes \cup {"none"}
    /\ queue \in Seq(Entries(PromptIds, Texts))
    /\ turn \in [Turns -> [at : TurnPhases, queued : BOOLEAN, ran : BOOLEAN, cancelled : BOOLEAN,
                           prompt : Entries(PromptIds, Texts) \cup {NoPrompt},
                           abort : Turns \cup {NoTurn},
                           finish : Finishes \cup {"rejected"}]]
    /\ waiters \subseteq [prompt : Entries(PromptIds, Texts), on : Turns \cup {NoTurn}]
    /\ closing \in [Closers -> [at : {"no", "status", "teardown"}, status : Terminal]]
    /\ sent \in 0 .. MaxSent
    /\ taken \subseteq PromptIds
    /\ gone \subseteq PromptIds
    /\ again \subseteq PromptIds
    /\ RT!TypeOK

\* The session is in the map: a new one, one seeded with messages, or one resumed
\* with the status its manifest holds; with a first prompt or without.
Init ==
    /\ interactive \in Kinds
    /\ live = TRUE
    /\ starting \in StartPhases
    /\ persisted \in {FALSE} \cup {starting \in {"turn", "done"}}
    /\ status \in {IF FirstDue THEN "running" ELSE "idle"}
                    \cup (IF persisted THEN Statuses ELSE {})
    /\ lastFinish = "none"
    /\ aborting = FALSE
    /\ paused = FALSE
    /\ queue = <<>>
    /\ draining = FALSE
    /\ drainDue = FALSE
    /\ active = NoTurn
    /\ turn = [t \in Turns |-> IdleTurn]
    /\ waiters = {}
    /\ closing = [c \in Closers |-> NotClosing]
    /\ sent = 0
    /\ taken = {}
    /\ gone = {}
    /\ again = {}
    /\ crossed = FALSE
    /\ RT!Init

-----------------------------------------------------------------------------
(***************************************************************************)
(* The queue.                                                              *)
(***************************************************************************)

\* scheduleDrain: does a change of the queue to q queue a drain microtask?
SchedulesDrain(q) ==
    /\ q # <<>>
    /\ ~paused
    /\ active = NoTurn
    /\ ~aborting
    /\ ~draining
    /\ RT!CanStartRun

\* A change of the queue through the controller, on a session that is there.
ChangeQueue(q) ==
    /\ live
    /\ queue' = q
    /\ drainDue' = (drainDue \/ SchedulesDrain(q))
    /\ UNCHANGED <<session, hold, draining, active, turn, closing, starting, taken, again,
                   crossed, agent>>

\* pendingPrompts.update: an id that has left the queue meanwhile changes nothing.
Edit(id, text, delivery) ==
    /\ ChangeQueue(Update(queue, id, text, delivery))
    /\ UNCHANGED <<waiters, sent, gone>>

\* pendingPrompts.steerFirst.
SteerFirst ==
    /\ queue # <<>>
    /\ Head(queue).delivery = "queue"
    /\ ChangeQueue(Update(queue, Head(queue).id, Head(queue).text, "steer"))
    /\ UNCHANGED <<waiters, sent, gone>>

\* pendingPrompts.delete.
Withdraw(id) ==
    /\ ChangeQueue(Delete(queue, id))
    /\ gone' = gone \cup ({id} \cap Ids(queue))
    /\ UNCHANGED <<waiters, sent>>

\* A prompt joins the queue; one that is queued already is moved instead.
Join(prompt) ==
    /\ ChangeQueue(Enqueue(queue, prompt))
    /\ gone' = gone \cup {id \in {prompt.id} : Queued(queue, prompt.text)}

\* consumeSteer, called by the agent's loop before a model request.
Steer ==
    /\ live
    /\ pc = "looping"
    /\ ~aborting
    /\ ~paused
    /\ HasSteer(queue)
    /\ queue' = ConsumeSteer(queue)
    /\ taken' = taken \cup {FirstSteer(queue).id}
    /\ UNCHANGED <<session, hold, draining, drainDue, turns, closing, starting, sent,
                   gone, again, crossed, agent>>

-----------------------------------------------------------------------------
(***************************************************************************)
(* Sending a prompt and starting a turn.                                   *)
(***************************************************************************)

\* The bound on prompts leaves room for the first one.
MayType == sent + (IF FirstDue THEN 1 ELSE 0) < MaxSent

\* A prompt as it is typed: a new entry of the queue.
Typed(text, delivery) == [id |-> sent + 1, text |-> text, delivery |-> delivery]

\* The synchronous part of startTurn and executeTurn.  It releases the hold.
StartTurn(prompt, queued) ==
    /\ \E t \in Turns :
          /\ turn[t].at = "none"
          /\ turn' = [turn EXCEPT ![t] = [IdleTurn EXCEPT !.at = "prepare", !.abort = t,
                                           !.prompt = prompt, !.queued = queued]]
          /\ active' = t
    /\ paused' = FALSE
    /\ aborting' = FALSE
    /\ taken' = taken \cup {prompt.id}
    /\ UNCHANGED <<session, closing, gone, again, agent>>

\* A bug to be caught: a turn that is still preparing does not count.
MustQueue_RunOnly == interactive /\ ~RT!CanStartRun

\* An interactive session that is busy queues what it is sent.
MustQueue == interactive /\ (active # NoTurn \/ ~RT!CanStartRun)

\* The rest of runTurn.  A session that has left the map meanwhile drops what it
\* should queue, and starts what it should not.
Submit(prompt) ==
    \/ /\ MustQueue
       /\ \/ Join(prompt)
          \/ /\ ~live
             /\ UNCHANGED <<session, hold, prompts, active, turn, closing, starting,
                            taken, gone, again, crossed, agent>>
    \/ /\ ~MustQueue
       /\ StartTurn(prompt, FALSE)
       /\ UNCHANGED <<prompts, starting, crossed>>

\* runTurn without a delivery.  While a cancelled turn settles it waits for it.
Send(text) ==
    /\ live
    /\ MayType
    /\ sent' = sent + 1
    /\ \/ /\ aborting
          /\ waiters' = waiters \cup {[prompt |-> Typed(text, "queue"), on |-> active]}
          /\ UNCHANGED <<session, hold, prompts, active, turn, closing, starting, taken,
                         gone, again, crossed, agent>>
       \/ /\ ~aborting
          /\ Submit(Typed(text, "queue"))
          /\ UNCHANGED waiters

\* The turn it waited for has settled: runTurn goes on, with the session it had.
Resume(w) ==
    /\ w.on = NoTurn
    /\ waiters' = waiters \ {w}
    /\ Submit(w.prompt)
    /\ UNCHANGED sent

\* runTurn with a delivery of its own.
SendTo(text, delivery) ==
    /\ MayType
    /\ sent' = sent + 1
    /\ Join(Typed(text, delivery))
    /\ UNCHANGED waiters

\* The row of a session seeded with messages is written while it starts; when that
\* fails the session starts all the same.
Seeded ==
    /\ starting \in {"turn", "seed"}
    /\ ~persisted
    /\ persisted' = TRUE
    /\ starting' = IF starting = "seed" THEN "done" ELSE starting
    /\ UNCHANGED <<live, status, lastFinish, hold, prompts, turns, closing, ledger, agent>>

\* The end of startResolvedSession: the first prompt goes to startTurn directly,
\* whatever has happened to the session since it was put in the map.
StartFirst(text) ==
    /\ FirstDue
    /\ starting' = "done"
    /\ sent < MaxSent
    /\ sent' = sent + 1
    /\ crossed' = (crossed \/ \E t \in Turns : turn[t].at # "none")
    /\ StartTurn(Typed(text, "queue"), FALSE)
    /\ UNCHANGED <<prompts, waiters>>

\* A bug to be caught: the microtask does not look at the hold again.
Drainable_HeldToo ==
    /\ live
    /\ ~aborting
    /\ active = NoTurn
    /\ ~draining
    /\ RT!CanStartRun
    /\ queue # <<>>

\* The drain microtask looks again: the session may be busy, held or gone by now.
Drainable ==
    /\ live
    /\ ~aborting
    /\ ~paused
    /\ active = NoTurn
    /\ ~draining
    /\ RT!CanStartRun
    /\ queue # <<>>

Drain ==
    /\ drainDue
    /\ drainDue' = FALSE
    /\ \/ /\ Drainable
          /\ queue' = Tail(queue)
          /\ draining' = TRUE
          /\ StartTurn(Head(queue), TRUE)
       \/ /\ ~Drainable
          /\ UNCHANGED <<session, hold, queue, draining, active, turn, closing, taken,
                         gone, again, agent>>
    /\ UNCHANGED <<waiters, starting, sent, crossed>>

-----------------------------------------------------------------------------
(***************************************************************************)
(* Shutting the session down: shutdownSession, and releaseSessionRuntime   *)
(* (silent: it writes no status).                                          *)
(***************************************************************************)

\* updateStatus: the row may be gone, or the write be skipped or fail.
WriteStatus(st) == status' \in {status, IF persisted THEN st ELSE status}

\* What the two do before their first await: a busy agent is aborted and, when
\* there is no status to write, asked to shut down.
BeginClose(c, st, silent, aborted) ==
    LET writes == persisted /\ ~silent
        aborts == aborted \/ (~aborting /\ ~RT!CanStartRun)
    IN  /\ closing' = [closing EXCEPT ![c] = [at |-> IF writes THEN "status" ELSE "teardown",
                                              status |-> st]]
        /\ aborting' = (aborting \/ aborts)
        /\ \/ aborts /\ writes /\ RT!Abort
           \/ aborts /\ ~writes /\ RT!AbortAndShutdown(c)
           \/ ~aborts /\ writes /\ UNCHANGED agent
           \/ ~aborts /\ ~writes /\ RT!Shutdown(c)

\* The status is written, a failed write only recorded, and the agent asked to
\* shut down.
CloseStatus(c) ==
    /\ closing[c].at = "status"
    /\ WriteStatus(closing[c].status)
    /\ RT!Shutdown(c)
    /\ closing' = [closing EXCEPT ![c].at = "teardown"]
    /\ UNCHANGED <<live, persisted, lastFinish, hold, prompts, turns, ledger, starting>>

\* Whatever shutdown() answered: tools and plugin sandbox are torn down and the
\* session leaves the map.
Teardown(c) ==
    /\ closing[c].at = "teardown"
    /\ closer[c] # "waiting"
    /\ live' = FALSE
    /\ closing' = [closing EXCEPT ![c] = NotClosing]
    /\ UNCHANGED <<persisted, status, lastFinish, hold, prompts, turns, ledger, starting,
                   agent>>

\* resolveInteractiveStopStatus
StopStatus ==
    CASE lastFinish = "completed" -> "completed"
      [] lastFinish = "error"     -> "failed"
      [] OTHER                    -> "cancelled"

\* stopSession (mustAbort) and dispose: a session that is over is released, an
\* idle one stopped with its last outcome, a busy one cancelled.
StopOrDispose(c, mustAbort) ==
    /\ live
    /\ closing[c].at = "no"
    /\ \/ /\ interactive /\ status \in Terminal
          /\ BeginClose(c, "cancelled", TRUE, FALSE)
       \/ /\ interactive /\ status \notin Terminal /\ RT!CanStartRun
          /\ BeginClose(c, StopStatus, FALSE, FALSE)
       \/ /\ ~interactive \/ (status \notin Terminal /\ ~RT!CanStartRun)
          /\ BeginClose(c, "cancelled", FALSE, mustAbort)
    /\ UNCHANGED <<session, paused, prompts, turns, ledger, starting>>

\* turnAbortController.abort: the turns bound to the active turn's controller.
CancelTurns ==
    [t \in Turns |-> IF active # NoTurn /\ turn[t].abort = active
                        THEN [turn[t] EXCEPT !.cancelled = TRUE] ELSE turn[t]]

\* abort: the queue is held and the turn, its run or its preparation cancelled.
Abort ==
    /\ live
    /\ aborting' = TRUE
    /\ paused' = TRUE
    /\ turn' = CancelTurns
    /\ RT!Abort
    /\ UNCHANGED <<session, prompts, active, waiters, closing, ledger, starting>>

-----------------------------------------------------------------------------
(***************************************************************************)
(* The turn: runSessionTurn and executeTurn.                               *)
(***************************************************************************)

Goes(t, phase) == turn' = [turn EXCEPT ![t].at = phase]

\* ensureSessionPersisted, git metadata, OAuth.
Prepare(t) ==
    /\ turn[t].at = "prepare"
    /\ persisted' = TRUE
    /\ Goes(t, "mark")
    /\ UNCHANGED <<live, status, lastFinish, hold, prompts, active, waiters, closing,
                   ledger, starting, agent>>

\* A bug to be caught: the run is started without the signal of its turn.
AbortSignal_NotPassed(x) == FALSE

\* The abort signal the run gets: the one of the controller its turn is bound to.
AbortSignal(x) == x.cancelled

\* agent.run or agent.continue of turn t, bound to a controller as x says.
CallAgent(t, x, phase) ==
    \/ /\ RT!Run(AbortSignal(x))
       /\ turn' = [turn EXCEPT ![t] = [x EXCEPT !.at = phase, !.ran = TRUE]]
    \/ RT!RunRefused /\ turn' = [turn EXCEPT ![t] = [x EXCEPT !.at = "throwing"]]

\* markTurnRunning, then the agent, with the controller the session has by then.
Mark(t) ==
    /\ turn[t].at = "mark"
    /\ WriteStatus("running")
    /\ CallAgent(t, [turn[t] EXCEPT !.abort = active,
                        !.cancelled = active # NoTurn /\ turn[active].cancelled],
                 "running")
    /\ UNCHANGED <<live, persisted, lastFinish, hold, prompts, active, waiters, closing,
                   ledger, starting>>

\* A step of the agent.  When the run settles the turn that awaits it goes on;
\* an auth error of an OAuth provider is worth one more run.
AgentStep ==
    /\ RT!Progress
    /\ \/ activeRun' /\ UNCHANGED turn
       \/ /\ ~activeRun'
          /\ \E t \in Turns :
                /\ turn[t].at \in {"running", "rerunning"}
                /\ \/ result' = "rejected" /\ Goes(t, "throwing")
                   \/ result' = "rejected" /\ turn[t].at = "running" /\ Goes(t, "refresh")
                   \/ /\ result' # "rejected"
                      /\ turn' = [turn EXCEPT ![t].at = "saving", ![t].finish = result']
    /\ UNCHANGED <<session, hold, prompts, active, waiters, closing, ledger, starting>>

\* Credentials refreshed: a turn cancelled meanwhile does not run again.
Refreshed(t) ==
    /\ turn[t].at = "refresh"
    /\ \/ aborting /\ Goes(t, "throwing") /\ UNCHANGED agent
       \/ ~aborting /\ CallAgent(t, turn[t], "rerunning")
    /\ UNCHANGED <<session, hold, prompts, active, waiters, closing, ledger, starting>>

\* Something the turn awaits outside the agent rejects: a write, a refresh.
Throws(t) ==
    /\ turn[t].at \in {"prepare", "mark", "refresh", "saving", "idling"}
    /\ Goes(t, "throwing")
    /\ UNCHANGED <<session, hold, prompts, active, waiters, closing, ledger, starting,
                   agent>>

\* Usage and transcript are written.  A turn of an interactive session ends idle,
\* any other ends its session (finalizeSingleRun).
Saved(t) ==
    /\ turn[t].at = "saving"
    /\ \/ /\ interactive
          /\ lastFinish' = turn[t].finish
          /\ Goes(t, "idling")
          /\ UNCHANGED <<aborting, closing, agent>>
       \/ /\ ~interactive
          /\ BeginClose(t, CASE turn[t].finish = "aborted" \/ aborting -> "cancelled"
                             [] turn[t].finish = "error" /\ ~aborting -> "failed"
                             [] OTHER -> "completed",
                        FALSE, FALSE)
          /\ Goes(t, "closing")
          /\ UNCHANGED lastFinish
    /\ UNCHANGED <<live, persisted, status, paused, prompts, active, waiters, ledger,
                   starting>>

\* The catch of runSessionTurn: a cancelled turn is tidied up, a failed one ends
\* its session (failSession).
Caught(t) ==
    /\ turn[t].at = "throwing"
    /\ \/ /\ interactive /\ aborting
          /\ Goes(t, "tidying")
          /\ UNCHANGED <<lastFinish, aborting, closing, agent>>
       \/ /\ ~interactive \/ ~aborting
          /\ lastFinish' = "error"
          /\ turn' = [turn EXCEPT ![t].at = "closing", ![t].finish = "rejected"]
          /\ BeginClose(t, "failed", FALSE, FALSE)
    /\ UNCHANGED <<live, persisted, status, paused, prompts, active, waiters, ledger,
                   starting>>

\* A bug to be caught: a turn that ended in an error counts as not run.
GivenBack_OnErrorToo(t, r) == turn[t].queued /\ r \in {"rejected", "error"}

\* The catch of drain: the prompt of a turn that rejected goes back.
GivenBack(t, r) == turn[t].queued /\ r = "rejected"

\* A bug to be caught: the queue goes on after a completed turn only.
GoesOn_NotAborted(r) == r = "completed"

\* After these outcomes the queue goes on.
GoesOn(r) == r \in {"completed", "aborted"}

\* The turn's promise settles as r: the finally of startTurn, the sends that wait
\* and, for a turn started from the queue, the catch and the finally of drain.
Settle(t, r) ==
    LET left == IF GivenBack(t, r) THEN RequeueFront(queue, turn[t].prompt) ELSE queue
        free == active \in {t, NoTurn}
        unrun == {id \in {turn[t].prompt.id} : r = "rejected" /\ ~turn[t].ran}
    IN  /\ turn' = [u \in Turns |->
                       IF u = t THEN IdleTurn
                       ELSE IF turn[u].abort = t THEN [turn[u] EXCEPT !.abort = NoTurn]
                       ELSE turn[u]]
        /\ active' = IF active = t THEN NoTurn ELSE active
        /\ waiters' = {IF w.on = t THEN [w EXCEPT !.on = NoTurn] ELSE w : w \in waiters}
        /\ queue' = left
        /\ draining' = (draining /\ ~turn[t].queued)
        /\ drainDue' =
              \/ drainDue
              \/ /\ GoesOn(r)
                 /\ left # <<>>
                 /\ \/ turn[t].queued /\ status' \notin {"failed", "cancelled"}
                    \/ /\ ~turn[t].queued /\ free /\ ~draining
                       /\ ~paused /\ ~aborting' /\ RT!CanStartRun
        /\ taken' = taken \ unrun
        /\ gone' = IF turn[t].queued THEN gone ELSE gone \cup unrun

\* A bug to be caught: a turn started from the queue waits for the drain to finish.
Idled_AfterDrain(t) ==
    /\ turn[t].at \in {"idling", "retiring"}
    /\ ~draining
    /\ WriteStatus("idle")
    /\ aborting' = FALSE
    /\ Settle(t, turn[t].finish)
    /\ UNCHANGED <<live, persisted, lastFinish, paused, closing, starting, sent, again, crossed,
                   agent>>

\* completeInteractiveTurn.
Idled(t) ==
    /\ turn[t].at \in {"idling", "retiring"}
    /\ WriteStatus("idle")
    /\ aborting' = FALSE
    /\ Settle(t, turn[t].finish)
    /\ UNCHANGED <<live, persisted, lastFinish, paused, closing, starting, sent, again, crossed,
                   agent>>

\* completeAbortedInteractiveTurn: the transcript is flushed, if it can be.
Tidied(t) ==
    /\ turn[t].at = "tidying"
    /\ persisted' \in {persisted, TRUE}
    /\ lastFinish' = "aborted"
    /\ turn' = [turn EXCEPT ![t].at = "retiring", ![t].finish = "aborted"]
    /\ UNCHANGED <<live, status, hold, prompts, active, waiters, closing, ledger, starting,
                   agent>>

\* Its last write fails: nothing catches that, the turn rejects, and a prompt from
\* the queue goes back even when it has run.
TidyFails(t) ==
    /\ turn[t].at = "retiring"
    /\ UNCHANGED <<status, aborting>>
    /\ Settle(t, "rejected")
    /\ again' = again \cup {id \in {turn[t].prompt.id} : turn[t].queued /\ turn[t].ran}
    /\ UNCHANGED <<live, persisted, lastFinish, paused, closing, starting, sent, crossed, agent>>

\* The session the turn ended has been shut down.  finalizeSingleRun of a failed
\* run rethrows what went wrong meanwhile, and the session is failed once more.
Closed(t) ==
    /\ turn[t].at = "closing"
    /\ closing[t].at = "no"
    /\ UNCHANGED <<status, aborting>>
    /\ \/ Settle(t, turn[t].finish)
       \/ /\ turn[t].finish = "error"
          /\ Goes(t, "throwing")
          /\ UNCHANGED <<prompts, active, waiters, taken, gone>>
    /\ UNCHANGED <<live, persisted, lastFinish, paused, closing, starting, sent, again, crossed,
                   agent>>

-----------------------------------------------------------------------------
\* What users and clients do.
User ==
    \/ \E text \in Texts :
          \/ Send(text)
          \/ \E d \in Deliveries : SendTo(text, d)
          \/ \E d \in Deliveries, id \in PromptIds : Edit(id, text, d)
    \/ SteerFirst
    \/ \E id \in PromptIds : Withdraw(id)
    \/ Abort
    \/ \E c \in Stoppers, mustAbort \in BOOLEAN : StopOrDispose(c, mustAbort)

\* What goes on by itself.
Internal ==
    \/ \E text \in Texts : StartFirst(text)
    \/ \E w \in waiters : Resume(w)
    \/ Drain
    \/ AgentStep
    \/ \E t \in Turns :
          \/ Prepare(t) \/ Mark(t) \/ Refreshed(t) \/ Saved(t) \/ Caught(t)
          \/ Idled(t) \/ Tidied(t) \/ Closed(t)
    \/ \E c \in Closers : CloseStatus(c) \/ Teardown(c)

\* What may happen besides: a seed is written, a steer is read, an await rejects.
Chance ==
    \/ Seeded
    \/ Steer
    \/ \E t \in Turns : Throws(t) \/ TidyFails(t)

\* The session is over and nothing of it is left.  Any other end is a deadlock.
Over ==
    /\ ~live
    /\ ~FirstDue
    /\ \A t \in Turns : turn[t].at = "none"
    /\ \A c \in Closers : closing[c].at = "no"
    /\ waiters = {}
    /\ ~drainDue
    /\ UNCHANGED vars

\* Between a new session's entry in the map and its first turn there is no await:
\* nobody can act on it.
Next == /\ (User /\ starting # "new") \/ Internal \/ Chance \/ Over
        /\ UNCHANGED interactive

Spec == Init /\ [][Next]_vars

\* Awaits complete, microtasks run, the model answers or times out.
FairSpec == Spec /\ WF_vars(Internal /\ UNCHANGED interactive)

-----------------------------------------------------------------------------
(***************************************************************************)
(* Properties.                                                             *)
(***************************************************************************)
Busy(t) == turn[t].at # "none"

\* An interactive session runs one turn at a time, whatever the order of sends,
\* drains and resumed sends (runTurn's check and startTurn are one step), also
\* while it starts.  Only the first prompt, which startResolvedSession hands over
\* without a check after its awaits, may find a turn in flight.
OneTurnAtATime ==
    (interactive /\ ~crossed) => \A t, u \in Turns : (Busy(t) /\ Busy(u)) => t = u

\* No wakeup is lost: a queued prompt that nothing holds back has a drain
\* microtask on its way.  After a turn that failed (pending-prompt-service.ts
\* lines 356-360), and in a session whose status could not be written since it
\* was cancelled or failed (lines 373-374), the queue waits by design.
NoStrandedPrompt ==
    (Drainable /\ ~crossed /\ lastFinish # "error" /\ status \notin {"failed", "cancelled"})
        => drainDue

\* "The hold survives cleanup and is released only by an explicit turn" (abort,
\* lines 1022-1023): no drain and no queue edit resumes a cancelled session.
HoldReleasedByUser ==
    [][(paused /\ ~paused') => \E t \in Turns : ~Busy(t) /\ turn'[t].at = "prepare"
                                                /\ ~turn'[t].queued]_vars

\* While the session lives every prompt typed is in exactly one place: queued,
\* waiting for a cancelled turn, handed to the agent, or withdrawn, merged or
\* answered by an error.  None is dropped and none is run and queued again, but
\* those of cancelled turns whose tidying up fails (again), which drain puts back
\* like any other turn's that rejects.
EveryPromptOnce ==
    live => \A id \in (1 .. sent) \ again :
               LET places == <<id \in Ids(queue), id \in {w.prompt.id : w \in waiters},
                               id \in taken, id \in gone>>
               IN  \E i \in 1 .. 4 : \A j \in 1 .. 4 : places[j] <=> (i = j)

\* A cancel received anywhere in a turn stops its run before the model is asked
\* again (turn-execution.ts lines 239-240), a run after an auth retry included.
CancelReachesRun ==
    \A t \in Turns :
        (turn[t].at \in {"running", "rerunning"} /\ turn[t].cancelled /\ pc = "looping")
            => loopAborted

\* A queued prompt is served in the end, unless it is held, withdrawn, or the
\* session fails or ends, or its first prompt's turn was started beside another.
QueueServed ==
    \A id \in PromptIds :
        (id \in Ids(queue)) ~> \/ id \notin Ids(queue)
                               \/ paused \/ aborting \/ ~live \/ crossed
                               \/ lastFinish = "error" \/ status \in {"failed", "cancelled"}
                               \/ (running /\ ~activeRun)

\* A cancelled turn settles: abort() returns, and with it the sends that wait.
CancelSettles ==
    \A t \in Turns : turn[t].cancelled ~> ~turn[t].cancelled

\* "Drain an in-flight run before tearing anything down" (shutdownSession, line
\* 1539; local-runtime-host.test.ts lines 6573-6574): tools and sandbox are torn
\* down only when no run is in flight.
TeardownAfterDrain ==
    [][(\E c \in Closers : closing[c].at = "teardown" /\ closing'[c].at = "no")
          => pc = "idle"]_vars
=============================================================================
