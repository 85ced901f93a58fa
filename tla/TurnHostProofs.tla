--------------------------- MODULE TurnHostProofs ---------------------------
(***************************************************************************)
(* Safety of TurnHost for any number of prompts, texts, turns and stops.   *)
(***************************************************************************)
EXTENDS TurnHost, PendingPromptsProofs

RP == INSTANCE SessionRuntimeProofs

AgentInv == RP!IInv

-----------------------------------------------------------------------------
\* The agent.  Every step of the host is a step of SessionRuntime or leaves the agent alone.
AgentMoves ==
    \/ RT!Progress
    \/ \E aborted \in BOOLEAN : RT!Run(aborted)
    \/ RT!RunRefused
    \/ RT!Abort
    \/ \E c \in Closers : RT!Shutdown(c) \/ RT!AbortAndShutdown(c)
    \/ UNCHANGED agent

LEMMA AgentInit == RT!Init => AgentInv
  <1>1. RT!Init => RP!Init
    BY DEF RT!Init, RP!Init
  <1> QED
    BY <1>1, RP!InitInv, RecoveryAssumption DEF AgentInv

LEMMA AgentProgress == RT!Progress => RP!Progress
  <1>1. RT!PrepareFails => RP!PrepareFails
    BY DEF RT!PrepareFails, RP!PrepareFails, RT!Settled, RP!Settled, RT!Release, RP!Release
  <1>2. RT!BuildRuntime => RP!BuildRuntime
    BY DEF RT!BuildRuntime, RP!BuildRuntime
  <1>3. RT!RunStarted => RP!RunStarted
    BY DEF RT!RunStarted, RP!RunStarted, RT!KeptAbort, RP!KeptAbort
  <1>4. (\E how \in RT!Finish : RT!LoopEnds(how)) => \E how \in RP!Finish : RP!LoopEnds(how)
    BY DEF RT!LoopEnds, RP!LoopEnds, RT!FailureEvent, RP!FailureEvent, RT!Finish, RP!Finish
  <1>5. RT!Drained => RP!Drained
    BY DEF RT!Drained, RP!Drained
  <1>6. RT!RunThrows => RP!RunThrows
    BY DEF RT!RunThrows, RP!RunThrows, RT!Settled, RP!Settled, RT!Release, RP!Release
  <1>7. RT!Report => RP!Report
    BY DEF RT!Report, RP!Report, RT!Settled, RP!Settled, RT!Release, RP!Release
  <1>8. RT!Conclude => RP!Conclude
    BY <1>7 DEF RT!Conclude, RP!Conclude, RT!RecoveriesLeft, RP!RecoveriesLeft
  <1>9. RT!AskRecovery => RP!AskRecovery
    BY DEF RT!AskRecovery, RP!AskRecovery, RT!RecoveriesLeft, RP!RecoveriesLeft
  <1>10. RT!Recovered => RP!Recovered
    BY DEF RT!Recovered, RP!Recovered, RT!StillWanted, RP!StillWanted
  <1>11. RT!NotRecovered => RP!NotRecovered
    BY <1>7 DEF RT!NotRecovered, RP!NotRecovered
  <1> QED
    BY <1>1, <1>2, <1>3, <1>4, <1>5, <1>6, <1>8, <1>9, <1>10, <1>11
       DEF RT!Progress, RP!Progress

LEMMA AgentKeepsInv == AgentInv /\ AgentMoves => AgentInv'
  <1> SUFFICES ASSUME AgentInv, AgentMoves PROVE AgentInv'
    OBVIOUS
  <1>1. ASSUME NEW aborted \in BOOLEAN, RT!Run(aborted) PROVE RP!Next
    <2>1. RP!Run(aborted)
      BY <1>1 DEF RT!Run, RP!Run, RT!CanStartRun, RP!CanStartRun
    <2> QED
      BY <2>1 DEF RP!Next
  <1>2. RT!RunRefused => RP!Next
    BY DEF RT!RunRefused, RP!RunRefused, RT!CanStartRun, RP!CanStartRun, RP!Next
  <1>3. RT!Abort => RP!Next
    BY DEF RT!Abort, RP!Abort, RT!AbortLoop, RP!AbortLoop, RT!Taken, RP!Taken, RP!Next
  <1>4. ASSUME NEW c \in Closers, RT!Shutdown(c) PROVE RP!Next
    <2>1. RP!Shutdown(c)
      BY <1>4 DEF RT!Shutdown, RP!Shutdown, RT!ShutdownNow, RP!ShutdownNow, RT!ShutdownBusy,
         RP!ShutdownBusy, RT!Busy, RP!Busy
    <2> QED
      BY <2>1 DEF RP!Next
  <1>5. ASSUME NEW c \in Closers, RT!AbortAndShutdown(c) PROVE RP!Next
    <2>1. RP!AbortAndShutdown(c)
      BY <1>5 DEF RT!AbortAndShutdown, RP!AbortAndShutdown, RT!AbortLoop, RP!AbortLoop,
         RT!Taken, RP!Taken, RT!Busy, RP!Busy
    <2> QED
      BY <2>1 DEF RP!Next
  <1>6. UNCHANGED agent => UNCHANGED RP!vars
    BY DEF agent, RP!vars
  <1>7. [RP!Next]_(RP!vars)
    BY <1>1, <1>2, <1>3, <1>4, <1>5, <1>6, AgentProgress DEF AgentMoves, RP!Next
  <1> QED
    BY <1>7, RP!StepInv, RecoveryAssumption DEF AgentInv

\* What the host relies on.
LEMMA AgentFacts ==
  ASSUME AgentInv
  PROVE  /\ RT!TypeOK
         /\ activeRun <=> pc # "idle"
         /\ (pc = "looping" /\ abortRequested) => loopAborted
  BY DEF AgentInv, RP!IInv, RP!TypeOK, RT!TypeOK, RP!Phases, RT!Phases, RP!Finish, RT!Finish,
     RP!Results, RT!Results, RP!PhaseInv, RP!AbortReachesLoop

\* An agent that cannot start a run can start one only after its run has settled.
LEMMA FreedByProgress ==
  ASSUME AgentInv, AgentMoves, ~RT!CanStartRun, RT!CanStartRun'
  PROVE  RT!Progress /\ activeRun /\ ~activeRun'
  <1>1. activeRun => pc # "idle"
    BY AgentFacts
  <1>2. CASE RT!Progress
    BY <1>1, <1>2 DEF RT!Progress, RT!PrepareFails, RT!BuildRuntime, RT!RunStarted, RT!LoopEnds,
       RT!Drained, RT!RunThrows, RT!Conclude, RT!Report, RT!Settled, RT!AskRecovery, RT!Recovered,
       RT!NotRecovered, RT!CanStartRun, AgentInv, RP!IInv, RP!PhaseInv
  <1>3. CASE RT!RunRefused \/ RT!Abort \/ UNCHANGED agent
    BY <1>3 DEF RT!RunRefused, RT!Abort, RT!CanStartRun, agent
  <1>4. ASSUME NEW c \in Closers, RT!Shutdown(c) PROVE FALSE
    BY <1>4 DEF RT!Shutdown, RT!ShutdownNow, RT!ShutdownBusy, RT!CanStartRun
  <1>6. ASSUME NEW c \in Closers, RT!AbortAndShutdown(c) PROVE FALSE
    <2>1. shutdownCalled => shutdownCalled'
      BY <1>6 DEF RT!AbortAndShutdown
    <2> QED
      BY <1>6, <2>1 DEF RT!AbortAndShutdown, RT!CanStartRun
  <1>5. CASE \E aborted \in BOOLEAN : RT!Run(aborted)
    BY <1>5 DEF RT!Run, RT!CanStartRun
  <1> QED
    BY <1>2, <1>3, <1>4, <1>5, <1>6 DEF AgentMoves

\* A run that settles says how.
LEMMA SettledResult ==
  ASSUME AgentInv, RT!Progress, ~activeRun'
  PROVE  result' \in Finishes \cup {"rejected"}
  <1>1. finish \in {"completed", "aborted", "error", "threw"} /\ (activeRun <=> pc # "idle")
    BY AgentFacts DEF RT!TypeOK, RT!Finish
  <1>2. pc = "recovering" => finish = "error"
    BY DEF AgentInv, RP!IInv, RP!PhaseInv
  <1> QED
    BY <1>1, <1>2 DEF RT!Progress, RT!PrepareFails, RT!BuildRuntime, RT!RunStarted, RT!LoopEnds,
       RT!Drained, RT!RunThrows, RT!Conclude, RT!Report, RT!Settled, RT!AskRecovery, RT!Recovered,
       RT!NotRecovered, Finishes

-----------------------------------------------------------------------------
\* The inductive invariant.
Prompts == Entries(PromptIds, Texts)
TurnRecords == [at : TurnPhases, queued : BOOLEAN, ran : BOOLEAN, cancelled : BOOLEAN,
                prompt : Prompts \cup {NoPrompt}, abort : Turns \cup {NoTurn},
                finish : Finishes \cup {"rejected"}]
ClosingRecords == [at : {"no", "status", "teardown"}, status : Terminal]

\* TypeOK without the agent, and what a turn in flight was started with.
FlagTypes ==
    /\ interactive \in BOOLEAN /\ live \in BOOLEAN /\ persisted \in BOOLEAN
    /\ aborting \in BOOLEAN /\ paused \in BOOLEAN
    /\ draining \in BOOLEAN /\ drainDue \in BOOLEAN /\ crossed \in BOOLEAN
    /\ starting \in StartPhases
    /\ status \in Statuses
    /\ active \in Turns \cup {NoTurn}
    /\ lastFinish \in Finishes \cup {"none"}
    /\ sent \in 0 .. MaxSent
TurnTypes ==
    /\ turn \in [Turns -> TurnRecords]
    /\ closing \in [Closers -> ClosingRecords]
    /\ \A t \in Turns : Busy(t) => turn[t].prompt \in Prompts
PromptTypes ==
    /\ queue \in Seq(Prompts)
    /\ waiters \subseteq [prompt : Prompts, on : Turns \cup {NoTurn}]
    /\ taken \subseteq PromptIds
    /\ gone \subseteq PromptIds
    /\ again \subseteq PromptIds
HostTypes == FlagTypes /\ TurnTypes /\ PromptTypes

\* A run belongs to one turn, and a cancel that reached the turn is with the agent or
\* with the signal the agent has yet to attach.
AtRun(t) == turn[t].at \in {"running", "rerunning"}
CancelKept == abortRequested \/ (signal /\ attempt = 0 /\ pc = "preparing")
RunInv ==
    /\ \A t \in Turns : AtRun(t) => activeRun
    /\ \A t, u \in Turns : (AtRun(t) /\ AtRun(u)) => t = u
    /\ \A t \in Turns : (AtRun(t) /\ turn[t].cancelled) => CancelKept

\* activeTurn is the turn in flight of an interactive session; of any session it is
\* free only when no turn is, until the session leaves the map.  From the moment the
\* first prompt's turn is started beside another (crossed) neither holds.
ActiveInv ==
    /\ (interactive /\ ~crossed) => \A t \in Turns : Busy(t) => active = t
    /\ (live /\ ~crossed /\ active = NoTurn) => \A t \in Turns : ~Busy(t)

\* What the phase of a turn says about its session.
PhaseFacts(t) ==
    /\ turn[t].at \in {"idling", "tidying", "retiring"} => interactive
    /\ (~crossed /\ turn[t].at \in {"tidying", "retiring"}) => aborting
    /\ (~crossed /\ turn[t].at = "idling") => lastFinish = turn[t].finish
    /\ turn[t].at = "retiring" => turn[t].finish = "aborted"
    /\ turn[t].at \in {"saving", "idling"} => turn[t].finish \in Finishes
    /\ (turn[t].at = "closing" /\ closing[t].at = "no") => ~live
PhaseInv == \A t \in Turns : PhaseFacts(t)

\* Where the prompts are.  One that ran and was put back (again) has been taken and may
\* be anywhere else besides, but with no send that waits.
Waiting == {w.prompt.id : w \in waiters}
OnePlace(id) ==
    \/ id \in Ids(queue) /\ id \notin Waiting /\ id \notin taken /\ id \notin gone
    \/ id \notin Ids(queue) /\ id \in Waiting /\ id \notin taken /\ id \notin gone
    \/ id \notin Ids(queue) /\ id \notin Waiting /\ id \in taken /\ id \notin gone
    \/ id \notin Ids(queue) /\ id \notin Waiting /\ id \notin taken /\ id \in gone
Placed ==
    /\ \A id \in (1 .. sent) \ again : OnePlace(id)
    /\ Ids(queue) \cup Waiting \cup taken \cup gone \cup again \subseteq 1 .. sent
    /\ again \cap Waiting = {}
Owned ==
    /\ \A t \in Turns : Busy(t) => /\ turn[t].prompt.id \in taken
                                   /\ turn[t].prompt.id \notin Ids(queue)
                                   /\ turn[t].prompt.id \notin Waiting
    /\ \A t, u \in Turns : (Busy(t) /\ Busy(u) /\ turn[t].prompt.id = turn[u].prompt.id)
                              => t = u
LedgerInv ==
    live => /\ Distinct(queue)
            /\ \A v, w \in waiters : v.prompt.id = w.prompt.id => v = w
            /\ Placed
            /\ Owned

IInv ==
    /\ HostTypes
    /\ AgentInv
    /\ RunInv
    /\ ActiveInv
    /\ PhaseInv
    /\ LedgerInv
    /\ NoStrandedPrompt

LEMMA Types == IInv => TypeOK
  <1> SUFFICES ASSUME IInv PROVE TypeOK
    OBVIOUS
  <1>1. RT!TypeOK
    BY AgentFacts DEF IInv
  <1>2. FlagTypes /\ TurnTypes /\ PromptTypes
    BY DEF IInv, HostTypes
  <1>3. {interactive, live, persisted, aborting, paused, draining, drainDue, crossed}
            \subseteq BOOLEAN
    BY <1>2 DEF FlagTypes
  <1> QED
    BY <1>1, <1>2, <1>3 DEF TypeOK, FlagTypes, TurnTypes, PromptTypes, Prompts, TurnRecords,
       ClosingRecords

\* The agent's invariant carries over to every step of the host.
LEMMA NextMovesAgent == IInv /\ Next => AgentMoves
  <1> SUFFICES ASSUME IInv, Next PROVE AgentMoves
    OBVIOUS
  <1>1. /\ Stoppers \subseteq Closers
        /\ Turns \subseteq Closers
    BY DEF Closers
  <1>2. ASSUME NEW c \in Closers, NEW st, NEW silent, NEW aborted, BeginClose(c, st, silent, aborted)
        PROVE  AgentMoves
    BY <1>2 DEF BeginClose, AgentMoves
  <1>3. ASSUME NEW t \in Turns, NEW x, NEW phase, x.cancelled \in BOOLEAN, CallAgent(t, x, phase)
        PROVE  AgentMoves
    BY <1>3 DEF CallAgent, AgentMoves, AbortSignal
  <1>4. \A t \in Turns : turn[t].cancelled \in BOOLEAN
    BY DEF IInv, HostTypes, TurnTypes, TurnRecords
  <1>5. ASSUME NEW prompt, NEW queued, StartTurn(prompt, queued) PROVE AgentMoves
    BY <1>5 DEF StartTurn, AgentMoves
  <1>6. CASE User
    <2>1. ASSUME NEW q, ChangeQueue(q) PROVE AgentMoves
      BY <2>1 DEF ChangeQueue, AgentMoves
    <2>2. ASSUME NEW text, Send(text) PROVE AgentMoves
      BY <1>5, <2>1, <2>2 DEF Send, Submit, Join, AgentMoves
    <2>3. ASSUME NEW c \in Stoppers, NEW m, StopOrDispose(c, m) PROVE AgentMoves
      BY <1>1, <1>2, <2>3 DEF StopOrDispose
    <2> QED
      BY <1>6, <2>1, <2>2, <2>3 DEF User, SendTo, Join, Edit, SteerFirst, Withdraw, Abort, AgentMoves
  <1>7. CASE Internal
    <2>1. ASSUME NEW w, Resume(w) PROVE AgentMoves
      BY <1>5, <2>1 DEF Resume, Submit, Join, ChangeQueue, AgentMoves
    <2>2. ASSUME NEW text, StartFirst(text) PROVE AgentMoves
      BY <1>5, <2>2 DEF StartFirst
    <2>3. CASE Drain
      BY <1>5, <2>3 DEF Drain, AgentMoves
    <2>4. CASE AgentStep
      BY <2>4 DEF AgentStep, AgentMoves
    <2>5. ASSUME NEW t \in Turns,
                 Prepare(t) \/ Idled(t) \/ Tidied(t) \/ Closed(t)
          PROVE  AgentMoves
      BY <2>5 DEF Prepare, Idled, Tidied, Closed, AgentMoves
    <2>6. ASSUME NEW t \in Turns, Mark(t) PROVE AgentMoves
      <3> DEFINE x == [turn[t] EXCEPT !.abort = active,
                          !.cancelled = active # NoTurn /\ turn[active].cancelled]
      <3>1. x.cancelled \in BOOLEAN
        BY DEF IInv, HostTypes, TurnTypes, TurnRecords
      <3>2. CallAgent(t, x, "running")
        BY <2>6 DEF Mark
      <3> HIDE DEF x
      <3> QED
        BY <1>3, <3>1, <3>2
    <2>7. ASSUME NEW t \in Turns, Refreshed(t) PROVE AgentMoves
      BY <1>3, <1>4, <2>7 DEF Refreshed, AgentMoves
    <2>8. ASSUME NEW t \in Turns, Saved(t) \/ Caught(t) PROVE AgentMoves
      BY <1>1, <1>2, <2>8 DEF Saved, Caught, AgentMoves
    <2>9. ASSUME NEW c \in Closers, CloseStatus(c) \/ Teardown(c) PROVE AgentMoves
      BY <2>9 DEF CloseStatus, Teardown, AgentMoves
    <2> QED
      BY <1>7, <2>1, <2>2, <2>3, <2>4, <2>5, <2>6, <2>7, <2>8, <2>9 DEF Internal
  <1>8. CASE Chance
    BY <1>8 DEF Chance, Seeded, Steer, Throws, TidyFails, AgentMoves
  <1>9. CASE Over
    BY <1>9 DEF Over, vars, AgentMoves
  <1> QED
    BY <1>6, <1>7, <1>8, <1>9 DEF Next

-----------------------------------------------------------------------------
\* Parts of steps.  What leaves the agent's run alone keeps every cancel that reached it.
RunKept == activeRun' = activeRun /\ ((activeRun /\ CancelKept) => CancelKept')

LEMMA QuietAgent ==
  ASSUME \/ RT!RunRefused \/ RT!Abort \/ UNCHANGED agent
         \/ \E c \in Closers : RT!Shutdown(c) \/ RT!AbortAndShutdown(c)
  PROVE  RunKept
  <1>1. CASE RT!Abort \/ \E c \in Closers : RT!Shutdown(c) \/ RT!AbortAndShutdown(c)
    BY <1>1 DEF RunKept, CancelKept, RT!Abort, RT!Shutdown, RT!ShutdownNow, RT!ShutdownBusy,
       RT!AbortAndShutdown
  <1>2. CASE RT!RunRefused
    <2>1. (activeRun /\ abortRequested) => abortRequested'
      BY <1>2 DEF RT!RunRefused
    <2> QED
      BY <1>2, <2>1 DEF RunKept, CancelKept, RT!RunRefused
  <1>3. CASE UNCHANGED agent
    BY <1>3 DEF RunKept, CancelKept, agent
  <1> QED
    BY <1>1, <1>2, <1>3

LEMMA RunFrame ==
  ASSUME RunInv, RunKept,
         \A u \in Turns : AtRun(u)' => AtRun(u) /\ (turn'[u].cancelled => turn[u].cancelled)
  PROVE  RunInv'
  BY DEF RunInv, RunKept

LEMMA CloseBegins ==
  ASSUME IInv, NEW c \in Closers, NEW st \in Terminal, NEW silent \in BOOLEAN,
         NEW aborted \in BOOLEAN, BeginClose(c, st, silent, aborted)
  PROVE  /\ RunKept
         /\ closing' \in [Closers -> ClosingRecords]
         /\ closing'[c].at # "no"
         /\ \A d \in Closers \ {c} : closing'[d] = closing[d]
         /\ aborting' \in BOOLEAN
         /\ aborting => aborting'
         /\ RT!CanStartRun' => RT!CanStartRun
  <1>1. RunKept
    BY QuietAgent DEF BeginClose
  <1>2. /\ closing' \in [Closers -> ClosingRecords]
        /\ closing'[c].at # "no"
        /\ \A d \in Closers \ {c} : closing'[d] = closing[d]
    BY DEF BeginClose, IInv, HostTypes, TurnTypes, ClosingRecords
  <1>3. aborting' \in BOOLEAN /\ (aborting => aborting')
    BY DEF BeginClose, IInv, HostTypes, FlagTypes
  <1>4. AgentMoves /\ ~ (RT!Progress /\ activeRun /\ ~activeRun')
    BY <1>1 DEF BeginClose, AgentMoves, RunKept
  <1>5. RT!CanStartRun' => RT!CanStartRun
    BY <1>4, FreedByProgress DEF IInv
  <1> QED
    BY <1>1, <1>2, <1>3, <1>5

\* A turn in flight goes on to another phase.
LEMMA TurnGoesOn ==
  ASSUME IInv, NEW t \in Turns, NEW x \in TurnRecords, Busy(t),
         x.at # "none", x.prompt = turn[t].prompt, turn' = [turn EXCEPT ![t] = x],
         closing' \in [Closers -> ClosingRecords],
         \A u \in Turns \ {t} : closing'[u] = closing[u],
         UNCHANGED <<interactive, live, prompts, active, waiters, ledger, starting>>,
         PhaseFacts(t)', FlagTypes', AgentInv', RunInv'
  PROVE  IInv'
  <1> USE DEF prompts, ledger
  <1>1. /\ turn'[t] = x
        /\ \A u \in Turns \ {t} : turn'[u] = turn[u]
        /\ turn' \in [Turns -> TurnRecords]
    BY DEF IInv, HostTypes, TurnTypes
  <1>2. \A u \in Turns : (Busy(u)' <=> Busy(u)) /\ turn'[u].prompt = turn[u].prompt
    BY <1>1 DEF Busy
  <1>3. HostTypes'
    <2>1. TurnTypes'
      BY <1>1, <1>2 DEF IInv, HostTypes, TurnTypes, Prompts, PromptIds
    <2>2. PromptTypes'
      BY DEF IInv, HostTypes, PromptTypes, Prompts, PromptIds
    <2> QED
      BY <2>1, <2>2 DEF HostTypes
  <1>4. ActiveInv'
    BY <1>2 DEF IInv, ActiveInv
  <1>5. PhaseInv'
    <2> SUFFICES ASSUME NEW u \in Turns, u # t PROVE PhaseFacts(u)'
      BY DEF PhaseInv
    <2>1. turn'[u] = turn[u] /\ closing'[u] = closing[u] /\ PhaseFacts(u)
      BY <1>1 DEF IInv, PhaseInv
    <2>2. CASE interactive /\ ~crossed
      <3>1. turn[u].at = "none"
        BY <2>2 DEF IInv, ActiveInv, Busy
      <3> QED
        BY <2>1, <3>1 DEF PhaseFacts
    <2>3. CASE ~interactive \/ crossed
      BY <2>1, <2>3 DEF PhaseFacts
    <2> QED
      BY <2>2, <2>3
  <1>6. LedgerInv'
    BY <1>2 DEF IInv, LedgerInv, Placed, OnePlace, Waiting, Owned
  <1>7. NoStrandedPrompt'
    BY DEF IInv, ActiveInv, NoStrandedPrompt, Drainable
  <1> QED
    BY <1>3, <1>4, <1>5, <1>6, <1>7 DEF IInv

\* The step of a turn that only moves its phase.
LEMMA TurnMoves ==
  ASSUME IInv, NEW t \in Turns, NEW phase \in TurnPhases, Busy(t), phase # "none",
         Goes(t, phase)
  PROVE  LET x == [turn[t] EXCEPT !.at = phase]
         IN  /\ x \in TurnRecords /\ x.at = phase /\ x.prompt = turn[t].prompt
             /\ x.finish = turn[t].finish /\ x.cancelled = turn[t].cancelled
             /\ turn' = [turn EXCEPT ![t] = x]
  BY DEF IInv, HostTypes, TurnTypes, TurnRecords, Goes

LEMMA PrepareInv == ASSUME IInv, NEW t \in Turns, Prepare(t), UNCHANGED interactive PROVE IInv'
  <1> DEFINE x == [turn[t] EXCEPT !.at = "mark"]
  <1>1. /\ x \in TurnRecords /\ x.at = "mark" /\ x.prompt = turn[t].prompt
        /\ turn' = [turn EXCEPT ![t] = x]
    BY TurnMoves DEF Prepare, Busy, TurnPhases
  <1> HIDE DEF x
  <1>2. turn'[t] = x /\ \A u \in Turns \ {t} : turn'[u] = turn[u]
    BY <1>1 DEF IInv, HostTypes, TurnTypes
  <1>3. PhaseFacts(t)'
    BY <1>1, <1>2 DEF PhaseFacts
  <1>4. RunInv'
    BY <1>1, <1>2, QuietAgent, RunFrame DEF Prepare, AtRun, IInv
  <1>5. FlagTypes'
    BY DEF Prepare, IInv, HostTypes, FlagTypes, hold, prompts, ledger
  <1>6. AgentInv'
    BY AgentKeepsInv DEF Prepare, AgentMoves, IInv
  <1> QED
    BY <1>1, <1>3, <1>4, <1>5, <1>6, TurnGoesOn DEF Prepare, Busy, IInv, HostTypes, TurnTypes

\* agent.run or agent.continue of a turn t whose record is x but for its phase.
LEMMA CallInv ==
  ASSUME IInv, NEW t \in Turns, NEW x \in TurnRecords, Busy(t), ~AtRun(t),
         x.prompt = turn[t].prompt,
         NEW phase \in {"running", "rerunning"}, CallAgent(t, x, phase),
         UNCHANGED <<interactive, live, prompts, active, waiters, ledger, starting, closing>>,
         FlagTypes'
  PROVE  IInv'
  <1>1. PICK ph \in {phase, "throwing"}, ran \in BOOLEAN :
            /\ turn' = [turn EXCEPT ![t] = [x EXCEPT !.at = ph, !.ran = ran]]
            /\ (ph = phase /\ RT!Run(x.cancelled)) \/ (ph = "throwing" /\ RT!RunRefused)
    <2>1. CASE RT!Run(AbortSignal(x)) /\ turn' = [turn EXCEPT ![t] = [x EXCEPT !.at = phase,
                                                                              !.ran = TRUE]]
      BY <2>1 DEF AbortSignal
    <2>2. CASE RT!RunRefused /\ turn' = [turn EXCEPT ![t] = [x EXCEPT !.at = "throwing"]]
      <3>1. x.ran \in BOOLEAN /\ [x EXCEPT !.at = "throwing"]
                                    = [x EXCEPT !.at = "throwing", !.ran = x.ran]
        BY DEF TurnRecords
      <3> QED
        BY <2>2, <3>1
    <2> QED
      BY <2>1, <2>2 DEF CallAgent
  <1> DEFINE y == [x EXCEPT !.at = ph, !.ran = ran]
  <1>2. /\ y \in TurnRecords /\ y.at = ph /\ y.prompt = turn[t].prompt
        /\ y.cancelled = x.cancelled
    BY DEF TurnRecords, TurnPhases
  <1>3. turn' = [turn EXCEPT ![t] = y]
    BY <1>1
  <1> HIDE DEF y
  <1>4. turn'[t] = y /\ \A u \in Turns \ {t} : turn'[u] = turn[u]
    BY <1>3 DEF IInv, HostTypes, TurnTypes
  <1>5. PhaseFacts(t)'
    BY <1>2, <1>4 DEF PhaseFacts
  <1>6. RunInv'
    <2>1. CASE ph = "throwing"
      BY <1>1, <1>2, <1>4, <2>1, QuietAgent, RunFrame DEF AtRun, IInv
    <2>2. CASE ph = phase
      <3>1. RT!Run(x.cancelled)
        BY <1>1, <2>2
      <3>2. ~activeRun /\ activeRun' /\ signal' = x.cancelled /\ attempt' = 0 /\ pc' = "preparing"
        BY <3>1 DEF RT!Run, RT!CanStartRun
      <3>3. \A u \in Turns : ~AtRun(u)
        BY <3>2 DEF IInv, RunInv
      <3>4. \A u \in Turns : AtRun(u)' => u = t
        BY <1>4, <3>3 DEF AtRun
      <3>5. turn'[t].cancelled => CancelKept'
        BY <1>2, <1>4, <3>2 DEF CancelKept
      <3> QED
        BY <3>2, <3>4, <3>5 DEF RunInv
    <2> QED
      BY <2>1, <2>2
  <1>7. AgentInv'
    <2>1. x.cancelled \in BOOLEAN
      BY DEF TurnRecords
    <2> QED
      BY <1>1, <2>1, AgentKeepsInv DEF AgentMoves, IInv
  <1>8. closing' \in [Closers -> ClosingRecords]
    BY DEF IInv, HostTypes, TurnTypes
  <1>9. y.at # "none"
    BY <1>2
  <1> QED
    BY <1>2, <1>3, <1>5, <1>6, <1>7, <1>8, <1>9, TurnGoesOn

LEMMA MarkInv == ASSUME IInv, NEW t \in Turns, Mark(t), UNCHANGED interactive PROVE IInv'
  <1> DEFINE x == [turn[t] EXCEPT !.abort = active,
                      !.cancelled = active # NoTurn /\ turn[active].cancelled]
  <1>1. CallAgent(t, x, "running")
    BY DEF Mark
  <1>2. x \in TurnRecords /\ x.prompt = turn[t].prompt
    BY DEF IInv, HostTypes, TurnTypes, TurnRecords, FlagTypes
  <1>3. FlagTypes'
    BY DEF Mark, WriteStatus, Statuses, IInv, HostTypes, FlagTypes, hold, prompts, ledger
  <1>4. Busy(t) /\ ~AtRun(t)
    BY DEF Mark, Busy, AtRun
  <1> HIDE DEF x
  <1> QED
    BY <1>1, <1>2, <1>3, <1>4, CallInv DEF Mark

LEMMA RefreshedInv == ASSUME IInv, NEW t \in Turns, Refreshed(t), UNCHANGED interactive PROVE IInv'
  <1>1. Busy(t) /\ ~AtRun(t) /\ turn[t] \in TurnRecords
    BY DEF Refreshed, Busy, AtRun, IInv, HostTypes, TurnTypes
  <1>2. FlagTypes'
    BY DEF Refreshed, IInv, HostTypes, FlagTypes, session, hold, prompts, ledger
  <1>3. UNCHANGED <<live, prompts, active, waiters, ledger, starting, closing>>
    BY DEF Refreshed, session
  <1>4. CASE CallAgent(t, turn[t], "rerunning")
    BY <1>1, <1>2, <1>3, <1>4, CallInv
  <1>5. CASE Goes(t, "throwing") /\ UNCHANGED agent
    <2> DEFINE x == [turn[t] EXCEPT !.at = "throwing"]
    <2>1. /\ x \in TurnRecords /\ x.at = "throwing" /\ x.prompt = turn[t].prompt
          /\ turn' = [turn EXCEPT ![t] = x]
      BY <1>1, <1>5, TurnMoves DEF TurnPhases
    <2> HIDE DEF x
    <2>2. turn'[t] = x /\ \A u \in Turns \ {t} : turn'[u] = turn[u]
      BY <2>1 DEF IInv, HostTypes, TurnTypes
    <2>3. PhaseFacts(t)'
      BY <2>1, <2>2 DEF PhaseFacts
    <2>4. RunInv'
      BY <1>5, <2>1, <2>2, QuietAgent, RunFrame DEF AtRun, IInv
    <2>5. AgentInv'
      BY <1>5, AgentKeepsInv DEF AgentMoves, IInv
    <2> QED
      BY <1>1, <1>2, <1>3, <2>1, <2>3, <2>4, <2>5, TurnGoesOn DEF IInv, HostTypes, TurnTypes
  <1> QED
    BY <1>4, <1>5 DEF Refreshed

LEMMA ThrowsInv == ASSUME IInv, NEW t \in Turns, Throws(t), UNCHANGED interactive PROVE IInv'
  <1> DEFINE x == [turn[t] EXCEPT !.at = "throwing"]
  <1>1. /\ x \in TurnRecords /\ x.at = "throwing" /\ x.prompt = turn[t].prompt
        /\ turn' = [turn EXCEPT ![t] = x]
    BY TurnMoves DEF Throws, Busy, TurnPhases
  <1> HIDE DEF x
  <1>2. turn'[t] = x /\ \A u \in Turns \ {t} : turn'[u] = turn[u]
    BY <1>1 DEF IInv, HostTypes, TurnTypes
  <1>3. PhaseFacts(t)'
    BY <1>1, <1>2 DEF PhaseFacts
  <1>4. RunInv'
    BY <1>1, <1>2, QuietAgent, RunFrame DEF Throws, AtRun, IInv
  <1>5. FlagTypes'
    BY DEF Throws, IInv, HostTypes, FlagTypes, session, hold, prompts, ledger
  <1>6. AgentInv'
    BY AgentKeepsInv DEF Throws, AgentMoves, IInv
  <1> QED
    BY <1>1, <1>3, <1>4, <1>5, <1>6, TurnGoesOn DEF Throws, Busy, IInv, HostTypes, TurnTypes,
       session

\* What the run does by itself keeps the cancel, until it settles.
LEMMA ProgressKept ==
  ASSUME AgentInv, RT!Progress
  PROVE  activeRun /\ ((activeRun' /\ CancelKept) => CancelKept')
  <1>1. activeRun <=> pc # "idle"
    BY AgentFacts
  <1>2. pc # "idle"
    BY DEF RT!Progress, RT!PrepareFails, RT!BuildRuntime, RT!RunStarted, RT!LoopEnds,
       RT!Drained, RT!RunThrows, RT!Conclude, RT!AskRecovery, RT!Recovered, RT!NotRecovered
  <1>3. CASE RT!BuildRuntime
    BY <1>1, <1>2, <1>3 DEF RT!BuildRuntime, CancelKept
  <1>4. CASE RT!PrepareFails \/ RT!RunThrows
    BY <1>1, <1>2, <1>4 DEF RT!PrepareFails, RT!RunThrows, RT!Settled
  <1>5. CASE RT!RunStarted \/ RT!Drained \/ RT!AskRecovery \/ RT!Recovered
    BY <1>1, <1>2, <1>5 DEF RT!RunStarted, RT!Drained, RT!AskRecovery, RT!Recovered, CancelKept
  <1>6. CASE RT!Conclude \/ RT!NotRecovered
    BY <1>1, <1>2, <1>6 DEF RT!Conclude, RT!NotRecovered, RT!Report, RT!Settled
  <1>7. CASE \E how \in RT!Finish : RT!LoopEnds(how)
    BY <1>1, <1>2, <1>7 DEF RT!LoopEnds, CancelKept
  <1> QED
    BY <1>3, <1>4, <1>5, <1>6, <1>7 DEF RT!Progress

\* A step that touches neither turns nor prompts.
LEMMA HostQuiet ==
  ASSUME IInv, UNCHANGED <<interactive, prompts, turns, ledger, lastFinish>>,
         live' => live, aborting => aborting',
         closing' \in [Closers -> ClosingRecords],
         \A t \in Turns : (turn[t].at = "closing" /\ closing'[t].at = "no")
                             => (closing[t].at = "no" \/ ~live'),
         FlagTypes', AgentInv', RunInv', NoStrandedPrompt'
  PROVE  IInv'
  <1> USE DEF prompts, ledger, turns
  <1>1. \A t \in Turns : Busy(t)' <=> Busy(t)
    BY DEF Busy
  <1>2. HostTypes'
    BY <1>1 DEF IInv, HostTypes, TurnTypes, PromptTypes, Prompts, PromptIds
  <1>3. ActiveInv'
    BY <1>1 DEF IInv, ActiveInv
  <1>4. PhaseInv'
    BY DEF IInv, PhaseInv, PhaseFacts
  <1>5. LedgerInv'
    BY <1>1 DEF IInv, LedgerInv, Placed, OnePlace, Waiting, Owned
  <1> QED
    BY <1>2, <1>3, <1>4, <1>5 DEF IInv

LEMMA AgentStepInv == ASSUME IInv, AgentStep, UNCHANGED interactive PROVE IInv'
  <1>1. RT!Progress /\ AgentInv' /\ AgentInv
    BY AgentKeepsInv DEF AgentStep, AgentMoves, IInv
  <1>2. activeRun /\ ((activeRun' /\ CancelKept) => CancelKept')
    BY <1>1, ProgressKept
  <1>3. FlagTypes'
    BY DEF AgentStep, IInv, HostTypes, FlagTypes, session, hold, prompts, ledger
  <1>4. CASE activeRun' /\ UNCHANGED turn
    <2>1. RunInv'
      BY <1>2, <1>4, RunFrame DEF RunKept, AtRun, IInv
    <2>2. NoStrandedPrompt'
      BY <1>4 DEF NoStrandedPrompt, Drainable, RT!CanStartRun
    <2> QED
      BY <1>1, <1>3, <1>4, <2>1, <2>2, HostQuiet
         DEF AgentStep, session, hold, turns, IInv, HostTypes, TurnTypes
  <1>5. ASSUME NEW t \in Turns, ~activeRun', AtRun(t), NEW x \in TurnRecords,
               turn' = [turn EXCEPT ![t] = x], x.prompt = turn[t].prompt,
               \/ x.at \in {"throwing", "refresh"}
               \/ x.at = "saving" /\ x.finish \in Finishes
        PROVE  IInv'
    <2>1. turn'[t] = x /\ \A u \in Turns \ {t} : turn'[u] = turn[u]
      BY <1>5 DEF IInv, HostTypes, TurnTypes
    <2>2. PhaseFacts(t)'
      BY <1>5, <2>1 DEF PhaseFacts
    <2>3. RunInv'
      <3>1. \A u \in Turns : ~AtRun(u)'
        BY <1>5, <2>1 DEF IInv, RunInv, AtRun
      <3> QED
        BY <3>1 DEF RunInv
    <2> QED
      BY <1>1, <1>3, <1>5, <2>2, <2>3, TurnGoesOn
         DEF AgentStep, AtRun, Busy, IInv, HostTypes, TurnTypes, session
  <1>6. ASSUME ~activeRun' PROVE IInv'
    <2>1. PICK t \in Turns :
             /\ AtRun(t)
             /\ \/ Goes(t, "throwing")
                \/ Goes(t, "refresh")
                \/ result' # "rejected" /\ turn' = [turn EXCEPT ![t].at = "saving",
                                                               ![t].finish = result']
      BY <1>6 DEF AgentStep, AtRun
    <2>2. turn[t] \in TurnRecords /\ Busy(t)
      BY <2>1 DEF IInv, HostTypes, TurnTypes, AtRun, Busy
    <2>3. ASSUME NEW phase \in {"throwing", "refresh"}, Goes(t, phase) PROVE IInv'
      <3> DEFINE x == [turn[t] EXCEPT !.at = phase]
      <3>1. /\ x \in TurnRecords /\ x.at = phase /\ x.prompt = turn[t].prompt
            /\ turn' = [turn EXCEPT ![t] = x]
        <4>1. phase \in TurnPhases /\ phase # "none"
          BY DEF TurnPhases
        <4> QED
          BY <2>2, <2>3, <4>1, TurnMoves
      <3> HIDE DEF x
      <3> QED
        BY <1>5, <1>6, <2>1, <3>1
    <2>4. CASE result' # "rejected" /\ turn' = [turn EXCEPT ![t].at = "saving",
                                                            ![t].finish = result']
      <3> DEFINE x == [turn[t] EXCEPT !.at = "saving", !.finish = result']
      <3>1. result' \in Finishes
        BY <1>1, <1>6, <2>4, SettledResult
      <3>2. turn' = [turn EXCEPT ![t] = x]
        BY <2>4 DEF IInv, HostTypes, TurnTypes
      <3>3. x \in TurnRecords /\ x.at = "saving" /\ x.prompt = turn[t].prompt /\ x.finish = result'
        BY <2>2, <3>1 DEF TurnRecords, TurnPhases
      <3> HIDE DEF x
      <3> QED
        BY <1>5, <1>6, <2>1, <3>1, <3>2, <3>3
    <2> QED
      BY <2>1, <2>3, <2>4
  <1> QED
    BY <1>4, <1>6 DEF AgentStep

LEMMA SavedInv == ASSUME IInv, NEW t \in Turns, Saved(t), UNCHANGED interactive PROVE IInv'
  <1>1. Busy(t) /\ ~AtRun(t) /\ turn[t] \in TurnRecords /\ turn[t].finish \in Finishes
    BY DEF Saved, Busy, AtRun, IInv, HostTypes, TurnTypes, PhaseInv, PhaseFacts
  <1>2. UNCHANGED <<live, prompts, active, waiters, ledger, starting>>
    BY DEF Saved
  <1>3. CASE interactive
    <2> DEFINE x == [turn[t] EXCEPT !.at = "idling"]
    <2>1. Goes(t, "idling") /\ lastFinish' = turn[t].finish /\ UNCHANGED <<aborting, closing, agent>>
      BY <1>3 DEF Saved
    <2>2. /\ x \in TurnRecords /\ x.at = "idling" /\ x.prompt = turn[t].prompt
          /\ x.finish = turn[t].finish
          /\ turn' = [turn EXCEPT ![t] = x]
      BY <1>1, <2>1, TurnMoves DEF TurnPhases
    <2> HIDE DEF x
    <2>3. turn'[t] = x /\ \A u \in Turns \ {t} : turn'[u] = turn[u]
      BY <2>2 DEF IInv, HostTypes, TurnTypes
    <2>4. PhaseFacts(t)'
      BY <1>1, <1>3, <2>1, <2>2, <2>3 DEF PhaseFacts
    <2>5. RunInv'
      BY <2>1, <2>2, <2>3, QuietAgent, RunFrame DEF AtRun, IInv
    <2>6. FlagTypes'
      BY <1>1, <2>1 DEF Saved, IInv, HostTypes, FlagTypes, prompts, ledger
    <2>7. AgentInv'
      BY <2>1, AgentKeepsInv DEF AgentMoves, IInv
    <2> QED
      BY <1>1, <1>2, <2>1, <2>2, <2>4, <2>5, <2>6, <2>7, TurnGoesOn
         DEF IInv, HostTypes, TurnTypes
  <1>4. CASE ~interactive
    <2> DEFINE x  == [turn[t] EXCEPT !.at = "closing"]
               st == CASE turn[t].finish = "aborted" \/ aborting -> "cancelled"
                       [] turn[t].finish = "error" /\ ~aborting -> "failed"
                       [] OTHER -> "completed"
    <2>1. Goes(t, "closing") /\ BeginClose(t, st, FALSE, FALSE) /\ UNCHANGED lastFinish
      BY <1>4 DEF Saved
    <2>2. st \in Terminal
      BY DEF Terminal
    <2>3. /\ x \in TurnRecords /\ x.at = "closing" /\ x.prompt = turn[t].prompt
          /\ turn' = [turn EXCEPT ![t] = x]
      BY <1>1, <2>1, TurnMoves DEF TurnPhases
    <2> HIDE DEF x, st
    <2>4. turn'[t] = x /\ \A u \in Turns \ {t} : turn'[u] = turn[u]
      BY <2>3 DEF IInv, HostTypes, TurnTypes
    <2>5. /\ RunKept
          /\ closing' \in [Closers -> ClosingRecords]
          /\ closing'[t].at # "no"
          /\ \A d \in Closers \ {t} : closing'[d] = closing[d]
          /\ aborting' \in BOOLEAN
      BY <2>1, <2>2, CloseBegins DEF Closers
    <2>6. PhaseFacts(t)'
      BY <2>3, <2>4, <2>5 DEF PhaseFacts
    <2>7. RunInv'
      BY <2>3, <2>4, <2>5, RunFrame DEF AtRun, IInv
    <2>8. FlagTypes'
      BY <2>1, <2>5 DEF Saved, IInv, HostTypes, FlagTypes, prompts, ledger
    <2>9. AgentInv'
      BY <2>1, AgentKeepsInv DEF BeginClose, AgentMoves, IInv, Closers
    <2> QED
      BY <1>1, <1>2, <2>3, <2>5, <2>6, <2>7, <2>8, <2>9, TurnGoesOn DEF Closers
  <1> QED
    BY <1>3, <1>4

LEMMA CaughtInv == ASSUME IInv, NEW t \in Turns, Caught(t), UNCHANGED interactive PROVE IInv'
  <1>1. Busy(t) /\ ~AtRun(t) /\ turn[t] \in TurnRecords
    BY DEF Caught, Busy, AtRun, IInv, HostTypes, TurnTypes
  <1>2. UNCHANGED <<live, prompts, active, waiters, ledger, starting>>
    BY DEF Caught
  <1>3. CASE interactive /\ aborting
    <2> DEFINE x == [turn[t] EXCEPT !.at = "tidying"]
    <2>1. Goes(t, "tidying") /\ UNCHANGED <<lastFinish, aborting, closing, agent>>
      BY <1>3 DEF Caught
    <2>2. /\ x \in TurnRecords /\ x.at = "tidying" /\ x.prompt = turn[t].prompt
          /\ turn' = [turn EXCEPT ![t] = x]
      BY <1>1, <2>1, TurnMoves DEF TurnPhases
    <2> HIDE DEF x
    <2>3. turn'[t] = x /\ \A u \in Turns \ {t} : turn'[u] = turn[u]
      BY <2>2 DEF IInv, HostTypes, TurnTypes
    <2>4. PhaseFacts(t)'
      BY <1>3, <2>1, <2>2, <2>3 DEF PhaseFacts
    <2>5. RunInv'
      BY <2>1, <2>2, <2>3, QuietAgent, RunFrame DEF AtRun, IInv
    <2>6. FlagTypes'
      BY <2>1 DEF Caught, IInv, HostTypes, FlagTypes, prompts, ledger
    <2>7. AgentInv'
      BY <2>1, AgentKeepsInv DEF AgentMoves, IInv
    <2> QED
      BY <1>1, <1>2, <2>1, <2>2, <2>4, <2>5, <2>6, <2>7, TurnGoesOn
         DEF IInv, HostTypes, TurnTypes
  <1>4. CASE ~ (interactive /\ aborting)
    <2> DEFINE x == [turn[t] EXCEPT !.at = "closing", !.finish = "rejected"]
    <2>1. /\ turn' = [turn EXCEPT ![t].at = "closing", ![t].finish = "rejected"]
          /\ BeginClose(t, "failed", FALSE, FALSE) /\ lastFinish' = "error"
      BY <1>4 DEF Caught
    <2>2. "failed" \in Terminal
      BY DEF Terminal
    <2>3. /\ x \in TurnRecords /\ x.at = "closing" /\ x.prompt = turn[t].prompt
          /\ turn' = [turn EXCEPT ![t] = x]
      BY <1>1, <2>1 DEF TurnRecords, TurnPhases, IInv, HostTypes, TurnTypes
    <2> HIDE DEF x
    <2>4. turn'[t] = x /\ \A u \in Turns \ {t} : turn'[u] = turn[u]
      BY <2>3 DEF IInv, HostTypes, TurnTypes
    <2>5. /\ RunKept
          /\ closing' \in [Closers -> ClosingRecords]
          /\ closing'[t].at # "no"
          /\ \A d \in Closers \ {t} : closing'[d] = closing[d]
          /\ aborting' \in BOOLEAN
      BY <2>1, <2>2, CloseBegins DEF Closers
    <2>6. PhaseFacts(t)'
      BY <2>3, <2>4, <2>5 DEF PhaseFacts
    <2>7. RunInv'
      BY <2>3, <2>4, <2>5, RunFrame DEF AtRun, IInv
    <2>8. FlagTypes'
      BY <2>1, <2>5 DEF Caught, IInv, HostTypes, FlagTypes, Finishes, prompts, ledger
    <2>9. AgentInv'
      BY <2>1, AgentKeepsInv DEF BeginClose, AgentMoves, IInv, Closers
    <2> QED
      BY <1>1, <1>2, <2>3, <2>5, <2>6, <2>7, <2>8, <2>9, TurnGoesOn DEF Closers
  <1> QED
    BY <1>3, <1>4 DEF IInv, HostTypes, FlagTypes

LEMMA TidiedInv == ASSUME IInv, NEW t \in Turns, Tidied(t), UNCHANGED interactive PROVE IInv'
  <1> DEFINE x == [turn[t] EXCEPT !.at = "retiring", !.finish = "aborted"]
  <1>1. Busy(t) /\ ~AtRun(t) /\ turn[t] \in TurnRecords /\ interactive /\ (aborting \/ crossed)
    BY DEF Tidied, Busy, AtRun, IInv, HostTypes, TurnTypes, PhaseInv, PhaseFacts
  <1>2. /\ x \in TurnRecords /\ x.at = "retiring" /\ x.finish = "aborted" /\ x.prompt = turn[t].prompt
        /\ turn' = [turn EXCEPT ![t] = x]
    BY <1>1 DEF Tidied, TurnRecords, TurnPhases, Finishes, IInv, HostTypes, TurnTypes
  <1> HIDE DEF x
  <1>3. turn'[t] = x /\ \A u \in Turns \ {t} : turn'[u] = turn[u]
    BY <1>2 DEF IInv, HostTypes, TurnTypes
  <1>4. PhaseFacts(t)'
    BY <1>1, <1>2, <1>3 DEF PhaseFacts, Tidied, hold, ledger
  <1>5. RunInv'
    BY <1>2, <1>3, QuietAgent, RunFrame DEF Tidied, AtRun, IInv
  <1>6. FlagTypes'
    BY DEF Tidied, IInv, HostTypes, FlagTypes, Finishes, hold, prompts, ledger
  <1>7. AgentInv'
    BY AgentKeepsInv DEF Tidied, AgentMoves, IInv
  <1> QED
    BY <1>1, <1>2, <1>4, <1>5, <1>6, <1>7, TurnGoesOn DEF Tidied, IInv, HostTypes, TurnTypes

-----------------------------------------------------------------------------
\* Shutting down.
LEMMA CloseStatusInv ==
  ASSUME IInv, NEW c \in Closers, CloseStatus(c), UNCHANGED interactive
  PROVE  IInv'
  <1>1. RT!Shutdown(c) /\ AgentMoves /\ AgentInv'
    BY AgentKeepsInv DEF CloseStatus, AgentMoves, IInv
  <1>2. /\ closing' \in [Closers -> ClosingRecords]
        /\ closing'[c].at = "teardown"
        /\ \A d \in Closers \ {c} : closing'[d] = closing[d]
    BY DEF CloseStatus, IInv, HostTypes, TurnTypes, ClosingRecords
  <1>3. closing[c].status \in Terminal
    BY DEF IInv, HostTypes, TurnTypes, ClosingRecords
  <1>4. FlagTypes'
    BY <1>3 DEF CloseStatus, WriteStatus, Statuses, IInv, HostTypes, FlagTypes, hold, prompts,
       ledger, turns
  <1>5. RunInv'
    BY <1>1, QuietAgent, RunFrame DEF CloseStatus, turns, AtRun, IInv
  <1>6. NoStrandedPrompt'
    <2>1. ~RT!CanStartRun'
      BY <1>1 DEF RT!Shutdown, RT!ShutdownNow, RT!ShutdownBusy, RT!Busy, RT!CanStartRun
    <2> QED
      BY <2>1 DEF NoStrandedPrompt, Drainable
  <1>7. \A t \in Turns : closing'[t].at = "no" => closing[t].at = "no"
    BY <1>2 DEF Closers
  <1> QED
    BY <1>1, <1>2, <1>4, <1>5, <1>6, <1>7, HostQuiet DEF CloseStatus, hold

LEMMA TeardownInv ==
  ASSUME IInv, NEW c \in Closers, Teardown(c), UNCHANGED interactive
  PROVE  IInv'
  <1>1. ~live' /\ closing' \in [Closers -> ClosingRecords]
    BY DEF Teardown, NotClosing, Terminal, IInv, HostTypes, TurnTypes, ClosingRecords
  <1>2. FlagTypes'
    BY <1>1 DEF Teardown, IInv, HostTypes, FlagTypes, hold, prompts, ledger, turns
  <1>3. RunInv'
    BY QuietAgent, RunFrame DEF Teardown, turns, AtRun, IInv
  <1>4. NoStrandedPrompt'
    BY <1>1 DEF NoStrandedPrompt, Drainable
  <1>5. AgentInv'
    BY AgentKeepsInv DEF Teardown, AgentMoves, IInv
  <1> QED
    BY <1>1, <1>2, <1>3, <1>4, <1>5, HostQuiet DEF Teardown, hold

LEMMA StopOrDisposeInv ==
  ASSUME IInv, NEW c \in Stoppers, NEW m \in BOOLEAN, StopOrDispose(c, m), UNCHANGED interactive
  PROVE  IInv'
  <1>1. c \in Closers
    BY DEF Closers
  <1>2. StopStatus \in Terminal
    BY DEF StopStatus, Terminal
  <1>3. PICK st \in Terminal, silent \in BOOLEAN, aborted \in BOOLEAN :
            BeginClose(c, st, silent, aborted)
    BY <1>2 DEF StopOrDispose, Terminal
  <1>4. /\ RunKept
        /\ closing' \in [Closers -> ClosingRecords]
        /\ closing'[c].at # "no"
        /\ \A d \in Closers \ {c} : closing'[d] = closing[d]
        /\ aborting' \in BOOLEAN
        /\ aborting => aborting'
        /\ RT!CanStartRun' => RT!CanStartRun
    BY <1>1, <1>3, CloseBegins
  <1>5. UNCHANGED <<session, paused, prompts, turns, ledger, starting>>
    BY DEF StopOrDispose
  <1>6. FlagTypes'
    BY <1>4, <1>5 DEF IInv, HostTypes, FlagTypes, session, prompts, ledger, turns
  <1>7. RunInv'
    BY <1>4, <1>5, RunFrame DEF turns, AtRun, IInv
  <1>8. NoStrandedPrompt'
    BY <1>4, <1>5 DEF NoStrandedPrompt, Drainable, IInv, session, prompts, turns, ledger,
       HostTypes, FlagTypes
  <1>9. AgentInv'
    BY <1>1, <1>3, AgentKeepsInv DEF BeginClose, AgentMoves, IInv
  <1>10. \A t \in Turns : closing'[t].at = "no" => closing[t].at = "no"
    BY <1>4 DEF Closers
  <1> QED
    BY <1>4, <1>5, <1>6, <1>7, <1>8, <1>9, <1>10, HostQuiet DEF session

LEMMA AbortInv == ASSUME IInv, Abort, UNCHANGED interactive PROVE IInv'
  <1>1. RT!Abort /\ AgentInv'
    BY AgentKeepsInv DEF Abort, AgentMoves, IInv
  <1>2. \A u \in Turns : /\ turn'[u] \in TurnRecords
                         /\ turn'[u].at = turn[u].at
                         /\ turn'[u].prompt = turn[u].prompt
                         /\ turn'[u].finish = turn[u].finish
    BY DEF Abort, CancelTurns, IInv, HostTypes, TurnTypes, TurnRecords
  <1>3. UNCHANGED <<live, queue, active, waiters, closing, sent, taken, gone, again, crossed,
                  starting, lastFinish>>
    BY DEF Abort, session, prompts, ledger
  <1>4. aborting' /\ ~ Drainable'
    BY DEF Abort, Drainable
  <1>5. \A u \in Turns : (Busy(u)' <=> Busy(u)) /\ (AtRun(u)' <=> AtRun(u))
    BY <1>2 DEF Busy, AtRun
  <1>6. HostTypes'
    <2>1. FlagTypes'
      BY DEF Abort, IInv, HostTypes, FlagTypes, session, prompts, ledger
    <2>2. TurnTypes'
      <3>1. turn' \in [Turns -> TurnRecords]
        BY <1>2 DEF Abort, CancelTurns
      <3> QED
        BY <1>2, <1>3, <1>5, <3>1 DEF IInv, HostTypes, TurnTypes, Prompts, PromptIds
    <2>3. PromptTypes'
      BY <1>3 DEF IInv, HostTypes, PromptTypes, Prompts, PromptIds
    <2> QED
      BY <2>1, <2>2, <2>3 DEF HostTypes
  <1>7. RunInv'
    <2>1. activeRun' = activeRun /\ CancelKept'
      BY <1>1 DEF RT!Abort, CancelKept
    <2> QED
      BY <1>5, <2>1 DEF IInv, RunInv
  <1>8. ActiveInv'
    BY <1>3, <1>5 DEF IInv, ActiveInv
  <1>9. PhaseInv'
    BY <1>2, <1>3, <1>4 DEF IInv, PhaseInv, PhaseFacts
  <1>10. LedgerInv'
    BY <1>2, <1>3, <1>5 DEF IInv, LedgerInv, Placed, OnePlace, Waiting, Owned
  <1> QED
    BY <1>1, <1>4, <1>6, <1>7, <1>8, <1>9, <1>10 DEF IInv, NoStrandedPrompt

-----------------------------------------------------------------------------
\* Prompts are typed, queued, edited, withdrawn and read as steers.

LEMMA QueueStep ==
  ASSUME IInv, NEW q, ChangeQueue(q), UNCHANGED interactive,
         PromptTypes', sent' \in 0 .. MaxSent, LedgerInv'
  PROVE  IInv'
  <1>1. UNCHANGED <<live, persisted, status, lastFinish, aborting, paused, draining, active, turn,
                    closing, starting, taken, again, crossed, agent>> /\ live
    BY DEF ChangeQueue, session, hold
  <1>2. drainDue' \in BOOLEAN /\ (drainDue => drainDue') /\ (SchedulesDrain(q) => drainDue')
    BY DEF ChangeQueue, IInv, HostTypes, FlagTypes
  <1>3. HostTypes'
    <2>1. FlagTypes'
      BY <1>1, <1>2 DEF IInv, HostTypes, FlagTypes
    <2>2. TurnTypes'
      BY <1>1 DEF IInv, HostTypes, TurnTypes, Busy, Prompts, PromptIds
    <2> QED
      BY <2>1, <2>2 DEF HostTypes
  <1>4. RunInv'
    BY <1>1, QuietAgent, RunFrame DEF AtRun, IInv
  <1>5. ActiveInv' /\ PhaseInv'
    BY <1>1 DEF IInv, ActiveInv, PhaseInv, PhaseFacts, Busy
  <1>6. AgentInv'
    BY <1>1, AgentKeepsInv DEF AgentMoves, IInv
  <1>7. NoStrandedPrompt'
    <2>1. queue' = q /\ (RT!CanStartRun' <=> RT!CanStartRun)
      BY <1>1 DEF ChangeQueue, RT!CanStartRun, agent
    <2> QED
      BY <1>1, <1>2, <2>1 DEF NoStrandedPrompt, Drainable, SchedulesDrain
  <1> QED
    BY <1>3, <1>4, <1>5, <1>6, <1>7 DEF IInv

LEMMA QueueKnown ==
  ASSUME IInv, live
  PROVE  /\ queue \in Seq(Entries(PromptIds, Texts))
         /\ Distinct(queue)
         /\ Ids(queue) \subseteq 1 .. sent
  BY DEF IInv, HostTypes, PromptTypes, LedgerInv, Placed, Prompts

LEMMA EditInv ==
  ASSUME IInv, NEW id \in PromptIds, NEW text \in Texts, NEW d \in Deliveries,
         ChangeQueue(Update(queue, id, text, d)), UNCHANGED <<waiters, sent, gone>>,
         UNCHANGED interactive
  PROVE  IInv'
  <1>1. live /\ live' = live /\ UNCHANGED <<turn, taken, again>>
    BY DEF ChangeQueue, session
  <1>2. /\ queue' \in Seq(Prompts)
        /\ Distinct(queue')
        /\ Ids(queue') = Ids(queue)
    BY <1>1, QueueKnown, UpdateIds DEF ChangeQueue, Prompts
  <1>3. PromptTypes'
    BY <1>1, <1>2 DEF IInv, HostTypes, PromptTypes, Prompts, PromptIds
  <1>4. LedgerInv'
    BY <1>1, <1>2 DEF IInv, LedgerInv, Placed, OnePlace, Waiting, Owned, Busy
  <1>5. sent' \in 0 .. MaxSent
    BY DEF IInv, HostTypes, FlagTypes
  <1> QED
    BY <1>3, <1>4, <1>5, QueueStep

LEMMA SteerFirstInv == ASSUME IInv, SteerFirst, UNCHANGED interactive PROVE IInv'
  <1>1. Head(queue) \in Entries(PromptIds, Texts)
    BY DEF SteerFirst, IInv, HostTypes, PromptTypes, Prompts
  <1>2. Head(queue).id \in PromptIds /\ Head(queue).text \in Texts /\ "steer" \in Deliveries
    BY <1>1 DEF Entries, Deliveries
  <1> QED
    BY <1>2, EditInv DEF SteerFirst

LEMMA WithdrawInv ==
  ASSUME IInv, NEW id \in PromptIds, Withdraw(id), UNCHANGED interactive
  PROVE  IInv'
  <1>1. live /\ live' = live /\ UNCHANGED <<turn, taken, again, waiters, sent>>
    BY DEF Withdraw, ChangeQueue, session
  <1>2. /\ queue' \in Seq(Prompts)
        /\ Distinct(queue')
        /\ Ids(queue') = Ids(queue) \ {id}
    BY <1>1, QueueKnown, DeleteIds DEF Withdraw, ChangeQueue, Prompts
  <1>3. gone' = gone \cup ({id} \cap Ids(queue))
    BY DEF Withdraw
  <1>4. PromptTypes'
    BY <1>1, <1>2, <1>3 DEF IInv, HostTypes, PromptTypes, Prompts, PromptIds
  <1>5. LedgerInv'
    <2>1. Placed'
      BY <1>1, <1>2, <1>3 DEF IInv, LedgerInv, Placed, OnePlace, Waiting
    <2> QED
      BY <1>1, <1>2, <2>1 DEF IInv, LedgerInv, Owned, Waiting, Busy
  <1>6. sent' \in 0 .. MaxSent
    BY <1>1 DEF IInv, HostTypes, FlagTypes
  <1> QED
    BY <1>4, <1>5, <1>6, QueueStep DEF Withdraw

\* A prompt that is nowhere yet but, perhaps, with a send that waits: it has an id no
\* other prompt has.
Homeless(prompt) ==
    /\ prompt \in Prompts
    /\ live => /\ prompt.id \notin Ids(queue)
               /\ prompt.id \notin taken
               /\ prompt.id \notin gone
               /\ prompt.id \notin again
               /\ prompt.id \in 1 .. sent'
               /\ prompt.id \notin Waiting'
               /\ Waiting' \cup {prompt.id} = Waiting \cup {prompt.id}
               /\ 1 .. sent' = 1 .. sent \cup {prompt.id}
               /\ \A v, w \in waiters' : v.prompt.id = w.prompt.id => v = w

LEMMA JoinInv ==
  ASSUME IInv, NEW prompt, Join(prompt), Homeless(prompt), UNCHANGED interactive,
         waiters' \subseteq [prompt : Prompts, on : Turns \cup {NoTurn}],
         sent' \in 0 .. MaxSent
  PROVE  IInv'
  <1>1. live /\ live' = live /\ UNCHANGED <<turn, taken, again>> /\ prompt \in Prompts
    BY DEF Join, ChangeQueue, session, Homeless
  <1> DEFINE joined == IF Queued(queue, prompt.text) THEN Ids(queue) ELSE Ids(queue) \cup {prompt.id}
  <1>2. /\ queue' \in Seq(Prompts)
        /\ Distinct(queue')
        /\ Ids(queue') = joined
    BY <1>1, QueueKnown, EnqueueIds DEF Join, ChangeQueue, Prompts, Homeless
  <1>3. gone' = IF Queued(queue, prompt.text) THEN gone \cup {prompt.id} ELSE gone
    BY DEF Join
  <1>4. prompt.id \in PromptIds
    BY <1>1 DEF Prompts, Entries
  <1>5. PromptTypes'
    BY <1>1, <1>2, <1>3, <1>4 DEF IInv, HostTypes, PromptTypes, Prompts, PromptIds
  <1>6. LedgerInv'
    <2>1. Placed'
      BY <1>1, <1>2, <1>3 DEF IInv, LedgerInv, Placed, OnePlace, Homeless
    <2> QED
      BY <1>1, <1>2, <2>1 DEF IInv, LedgerInv, Owned, Busy, Homeless
  <1> QED
    BY <1>5, <1>6, QueueStep DEF Join

LEMMA SteerInv == ASSUME IInv, Steer, UNCHANGED interactive PROVE IInv'
  <1>1. /\ live /\ HasSteer(queue) /\ queue' = ConsumeSteer(queue)
        /\ taken' = taken \cup {FirstSteer(queue).id}
        /\ UNCHANGED <<live, persisted, status, lastFinish, aborting, paused, draining, drainDue,
                       active, turn, waiters, closing, starting, sent, gone, again, crossed,
                       agent>>
    BY DEF Steer, session, hold, turns
  <1> DEFINE id == FirstSteer(queue).id
  <1>2. /\ queue' \in Seq(Prompts)
        /\ Distinct(queue')
        /\ id \in Ids(queue)
        /\ Ids(queue') = Ids(queue) \ {id}
    BY <1>1, QueueKnown, ConsumeIds DEF Prompts
  <1>3. id \in PromptIds /\ queue # <<>>
    <2>1. Ids(queue) \subseteq 1 .. sent /\ sent \in 0 .. MaxSent /\ MaxSent \in Nat
      BY <1>1, QueueKnown, MaxSentAssumption DEF IInv, HostTypes, FlagTypes
    <2>2. id \in PromptIds
      BY <1>2, <2>1 DEF PromptIds
    <2>3. queue # <<>>
      BY <1>1 DEF HasSteer, ToSet
    <2> QED
      BY <2>2, <2>3
  <1> HIDE DEF id
  <1>4. taken' = taken \cup {id}
    BY <1>1 DEF id
  <1>5. HostTypes'
    <2>1. FlagTypes'
      BY <1>1 DEF IInv, HostTypes, FlagTypes
    <2>2. TurnTypes'
      BY <1>1 DEF IInv, HostTypes, TurnTypes, Busy, Prompts, PromptIds
    <2>3. PromptTypes'
      BY <1>1, <1>2, <1>3, <1>4 DEF IInv, HostTypes, PromptTypes, Prompts, PromptIds
    <2> QED
      BY <2>1, <2>2, <2>3 DEF HostTypes
  <1>6. RunInv'
    BY <1>1, QuietAgent, RunFrame DEF AtRun, IInv
  <1>7. ActiveInv' /\ PhaseInv'
    BY <1>1 DEF IInv, ActiveInv, PhaseInv, PhaseFacts, Busy
  <1>8. LedgerInv'
    <2>1. Placed'
      BY <1>1, <1>2, <1>4 DEF IInv, LedgerInv, Placed, OnePlace, Waiting
    <2> QED
      BY <1>1, <1>2, <1>4, <2>1 DEF IInv, LedgerInv, Owned, Waiting, Busy
  <1>9. AgentInv'
    BY <1>1, AgentKeepsInv DEF AgentMoves, IInv
  <1>10. NoStrandedPrompt'
    <2>1. RT!CanStartRun' <=> RT!CanStartRun
      BY <1>1 DEF RT!CanStartRun, agent
    <2> QED
      BY <1>1, <1>3, <2>1 DEF IInv, NoStrandedPrompt, Drainable
  <1> QED
    BY <1>5, <1>6, <1>7, <1>8, <1>9, <1>10 DEF IInv

-----------------------------------------------------------------------------
\* A turn starts.
LEMMA StartTurnInv ==
  ASSUME IInv, NEW prompt \in Prompts, NEW queued \in BOOLEAN, StartTurn(prompt, queued),
         UNCHANGED interactive, starting' \in StartPhases,
         crossed' \in BOOLEAN, crossed => crossed',
         (interactive /\ ~crossed') => \A u \in Turns : ~Busy(u),
         draining' \in BOOLEAN, drainDue' \in BOOLEAN, sent' \in 0 .. MaxSent,
         queue' \in Seq(Prompts), waiters' \subseteq [prompt : Prompts, on : Turns \cup {NoTurn}],
         live => /\ \A u \in Turns : Busy(u) => /\ turn[u].prompt.id # prompt.id
                                                /\ turn[u].prompt.id \notin Ids(queue')
                                                /\ turn[u].prompt.id \notin Waiting'
                 /\ prompt.id \notin Ids(queue') /\ prompt.id \notin Waiting'
                 /\ Distinct(queue')
                 /\ \A v, w \in waiters' : v.prompt.id = w.prompt.id => v = w
                 /\ Placed'
  PROVE  IInv'
  <1>1. PICK t \in Turns :
           /\ turn[t].at = "none"
           /\ turn' = [turn EXCEPT ![t] = [IdleTurn EXCEPT !.at = "prepare", !.abort = t,
                                            !.prompt = prompt, !.queued = queued]]
           /\ active' = t
    BY DEF StartTurn
  <1> DEFINE x == [IdleTurn EXCEPT !.at = "prepare", !.abort = t, !.prompt = prompt,
                                   !.queued = queued]
  <1>2. x \in TurnRecords /\ x.at = "prepare" /\ x.prompt = prompt
    BY DEF IdleTurn, TurnRecords, TurnPhases, Finishes
  <1>3. turn' = [turn EXCEPT ![t] = x]
    BY <1>1
  <1> HIDE DEF x
  <1>4. /\ turn'[t] = x
        /\ \A u \in Turns \ {t} : turn'[u] = turn[u]
        /\ turn' \in [Turns -> TurnRecords]
    BY <1>2, <1>3 DEF IInv, HostTypes, TurnTypes
  <1>5. /\ UNCHANGED <<live, persisted, status, lastFinish, closing, gone, again, agent>>
        /\ paused' = FALSE /\ aborting' = FALSE
        /\ taken' = taken \cup {prompt.id}
    BY DEF StartTurn, session
  <1>6. prompt.id \in PromptIds
    BY DEF Prompts, Entries
  <1>7. HostTypes'
    <2>1. FlagTypes'
      BY <1>1, <1>5 DEF IInv, HostTypes, FlagTypes
    <2>2. TurnTypes'
      BY <1>2, <1>4, <1>5 DEF IInv, HostTypes, TurnTypes, Busy, Prompts, PromptIds
    <2>3. PromptTypes'
      BY <1>5, <1>6 DEF IInv, HostTypes, PromptTypes, Prompts, PromptIds
    <2> QED
      BY <2>1, <2>2, <2>3 DEF HostTypes
  <1>8. RunInv'
    BY <1>2, <1>4, <1>5, QuietAgent, RunFrame DEF AtRun, IInv
  <1>9. ActiveInv'
    BY <1>1, <1>4, NoTurnAssumption DEF ActiveInv, Busy
  <1>10. PhaseInv'
    <2> SUFFICES ASSUME NEW u \in Turns PROVE PhaseFacts(u)'
      BY DEF PhaseInv
    <2>1. CASE u = t
      BY <1>2, <1>4, <2>1 DEF PhaseFacts
    <2>2. CASE u # t /\ turn[u].at = "none"
      BY <1>4, <2>2 DEF PhaseFacts
    <2>3. CASE u # t /\ (~interactive \/ crossed')
      BY <1>4, <1>5, <2>3 DEF IInv, PhaseInv, PhaseFacts
    <2> QED
      BY <2>1, <2>2, <2>3 DEF Busy
  <1>11. LedgerInv'
    <2> SUFFICES ASSUME live PROVE /\ Distinct(queue')
                                   /\ \A v, w \in waiters' : v.prompt.id = w.prompt.id => v = w
                                   /\ Placed' /\ Owned'
      BY <1>5 DEF LedgerInv
    <2>1. Owned
      BY DEF IInv, LedgerInv
    <2>2. Owned'
      BY <1>2, <1>4, <1>5, <2>1 DEF Owned, Busy
    <2> QED
      BY <2>2
  <1>12. AgentInv'
    BY <1>5, AgentKeepsInv DEF AgentMoves, IInv
  <1>13. NoStrandedPrompt'
    BY <1>1, NoTurnAssumption DEF NoStrandedPrompt, Drainable
  <1> QED
    BY <1>7, <1>8, <1>9, <1>10, <1>11, <1>12, <1>13 DEF IInv

\* A prompt that is in no place is no other turn's when its turn starts.
LEMMA HomelessStarts ==
  ASSUME IInv, live, NEW prompt, Homeless(prompt), StartTurn(prompt, FALSE), queue' = queue
  PROVE  /\ \A u \in Turns : Busy(u) => /\ turn[u].prompt.id # prompt.id
                                        /\ turn[u].prompt.id \notin Ids(queue')
                                        /\ turn[u].prompt.id \notin Waiting'
         /\ prompt.id \notin Ids(queue') /\ prompt.id \notin Waiting'
         /\ Distinct(queue')
         /\ \A v, w \in waiters' : v.prompt.id = w.prompt.id => v = w
         /\ Placed'
  <1>1. taken' = taken \cup {prompt.id} /\ gone' = gone /\ again' = again
    BY DEF StartTurn
  <1>2. Placed' /\ Distinct(queue')
    BY <1>1 DEF IInv, LedgerInv, Placed, OnePlace, Homeless
  <1>3. \A u \in Turns : Busy(u) => /\ turn[u].prompt.id # prompt.id
                                   /\ turn[u].prompt.id \notin Ids(queue')
                                   /\ turn[u].prompt.id \notin Waiting'
    BY DEF IInv, LedgerInv, Owned, Homeless
  <1>4. \A v, w \in waiters' : v.prompt.id = w.prompt.id => v = w
    BY DEF Homeless
  <1> QED
    BY <1>2, <1>3, <1>4 DEF Homeless

\* The rest of runTurn, of a prompt that is in no place.
LEMMA SubmitInv ==
  ASSUME IInv, NEW prompt, Submit(prompt), Homeless(prompt), UNCHANGED interactive,
         waiters' \subseteq [prompt : Prompts, on : Turns \cup {NoTurn}],
         sent' \in 0 .. MaxSent,
         ~live => sent' = sent /\ waiters' \subseteq waiters
  PROVE  IInv'
  <1>1. CASE Join(prompt)
    BY <1>1, JoinInv
  <1>2. CASE ~MustQueue /\ StartTurn(prompt, FALSE) /\ UNCHANGED <<prompts, starting, crossed>>
    <2>1. (interactive /\ ~crossed) => \A u \in Turns : ~Busy(u)
      <3>1. interactive => active = NoTurn
        BY <1>2 DEF MustQueue
      <3> QED
        BY <3>1, NoTurnAssumption DEF IInv, ActiveInv
    <2>2. prompt \in Prompts /\ UNCHANGED <<queue, draining, drainDue, starting, crossed>>
      BY <1>2 DEF Homeless, prompts
    <2>3. /\ draining' \in BOOLEAN /\ drainDue' \in BOOLEAN /\ starting' \in StartPhases
          /\ crossed' \in BOOLEAN /\ queue' \in Seq(Prompts)
      BY <2>2 DEF IInv, HostTypes, FlagTypes, PromptTypes, Prompts, PromptIds
    <2>4. StartTurn(prompt, FALSE)
      BY <1>2
    <2>5. queue' = queue
      BY <2>2
    <2>6. live => /\ \A u \in Turns : Busy(u) => /\ turn[u].prompt.id # prompt.id
                                                 /\ turn[u].prompt.id \notin Ids(queue')
                                                 /\ turn[u].prompt.id \notin Waiting'
                  /\ prompt.id \notin Ids(queue') /\ prompt.id \notin Waiting'
                  /\ Distinct(queue')
                  /\ \A v, w \in waiters' : v.prompt.id = w.prompt.id => v = w
                  /\ Placed'
      BY <2>4, <2>5, HomelessStarts
    <2> QED
      BY <2>1, <2>2, <2>3, <2>4, <2>6, StartTurnInv
  <1>3. CASE /\ ~live
             /\ UNCHANGED <<session, hold, prompts, active, turn, closing, starting, taken, gone,
                            again, crossed, agent>>
    <2>1. UNCHANGED <<live, persisted, status, lastFinish, aborting, paused, queue, draining,
                      drainDue, active, turn, closing, starting, sent, taken, gone, again,
                      crossed, agent>>
      BY <1>3 DEF session, hold, prompts
    <2>2. HostTypes'
      BY <2>1 DEF IInv, HostTypes, FlagTypes, TurnTypes, PromptTypes, Busy, Prompts, PromptIds
    <2>3. RunInv'
      BY <2>1, QuietAgent, RunFrame DEF AtRun, IInv
    <2>4. ActiveInv' /\ PhaseInv' /\ LedgerInv' /\ NoStrandedPrompt'
      BY <1>3, <2>1 DEF IInv, ActiveInv, PhaseInv, PhaseFacts, LedgerInv, Busy,
         NoStrandedPrompt, Drainable
    <2>5. AgentInv'
      BY <2>1, AgentKeepsInv DEF AgentMoves, IInv
    <2> QED
      BY <2>2, <2>3, <2>4, <2>5 DEF IInv
  <1> QED
    BY <1>1, <1>2, <1>3 DEF Submit

\* A prompt as it is typed has an id of its own.
LEMMA TypedIsNew ==
  ASSUME IInv, NEW text \in Texts, NEW delivery \in Deliveries, sent < MaxSent, sent' = sent + 1,
         UNCHANGED waiters
  PROVE  /\ Homeless(Typed(text, delivery))
         /\ sent' \in 0 .. MaxSent
         /\ waiters' \subseteq [prompt : Prompts, on : Turns \cup {NoTurn}]
  <1> DEFINE new == Typed(text, delivery)
  <1>1. MaxSent \in Nat /\ sent \in 0 .. MaxSent
    BY MaxSentAssumption DEF IInv, HostTypes, FlagTypes
  <1>2. new \in Prompts /\ new.id = sent + 1
    BY <1>1 DEF Typed, Prompts, Entries, PromptIds
  <1> HIDE DEF new
  <1>3. 1 .. sent' = 1 .. sent \cup {sent + 1} /\ sent + 1 \notin 1 .. sent /\ sent' \in 0 .. MaxSent
    BY <1>1
  <1>4. live => Ids(queue) \cup Waiting \cup taken \cup gone \cup again \subseteq 1 .. sent
    BY DEF IInv, LedgerInv, Placed
  <1>5. Waiting' = Waiting
    BY DEF Waiting
  <1>6. live => \A v, w \in waiters' : v.prompt.id = w.prompt.id => v = w
    BY DEF IInv, LedgerInv
  <1>7. Homeless(new)
    BY <1>2, <1>3, <1>4, <1>5, <1>6 DEF Homeless
  <1> QED
    BY <1>3, <1>7 DEF new, IInv, HostTypes, PromptTypes, Prompts, PromptIds

LEMMA MayTypeLeaves == IInv /\ MayType => sent < MaxSent
  BY MaxSentAssumption DEF MayType, IInv, HostTypes, FlagTypes

LEMMA SendInv == ASSUME IInv, NEW text \in Texts, Send(text), UNCHANGED interactive PROVE IInv'
  <1> DEFINE new == Typed(text, "queue")
  <1>1. live /\ sent < MaxSent /\ sent' = sent + 1 /\ "queue" \in Deliveries
    BY MayTypeLeaves DEF Send, Deliveries
  <1>2. CASE Submit(new) /\ UNCHANGED waiters
    BY <1>1, <1>2, TypedIsNew, SubmitInv
  <1>3. CASE /\ aborting
             /\ waiters' = waiters \cup {[prompt |-> new, on |-> active]}
             /\ UNCHANGED <<session, hold, prompts, active, turn, closing, starting, taken, gone,
                            again, crossed, agent>>
    <2>1. /\ UNCHANGED <<live, persisted, status, lastFinish, aborting, paused, queue, draining,
                         drainDue, active, turn, closing, starting, taken, gone, again, crossed,
                         agent>>
          /\ aborting
      BY <1>3 DEF session, hold, prompts
    <2>2. MaxSent \in Nat /\ sent \in 0 .. MaxSent
      BY MaxSentAssumption DEF IInv, HostTypes, FlagTypes
    <2>3. new \in Prompts /\ new.id = sent + 1 /\ sent' \in 0 .. MaxSent
      BY <1>1, <2>2 DEF Typed, Prompts, Entries, PromptIds
    <2> DEFINE w == [prompt |-> new, on |-> active]
    <2>4. w \in [prompt : Prompts, on : Turns \cup {NoTurn}] /\ w.prompt.id = sent + 1
      BY <2>3 DEF IInv, HostTypes, FlagTypes
    <2>5. waiters' = waiters \cup {w}
      BY <1>3
    <2> HIDE DEF new, w
    <2>6. HostTypes'
      <3>1. FlagTypes'
        BY <2>1, <2>3 DEF IInv, HostTypes, FlagTypes
      <3>2. TurnTypes'
        BY <2>1 DEF IInv, HostTypes, TurnTypes, Busy, Prompts, PromptIds
      <3>3. PromptTypes'
        BY <2>1, <2>4, <2>5 DEF IInv, HostTypes, PromptTypes, Prompts, PromptIds
      <3> QED
        BY <3>1, <3>2, <3>3 DEF HostTypes
    <2>7. RunInv'
      BY <2>1, QuietAgent, RunFrame DEF AtRun, IInv
    <2>8. ActiveInv' /\ PhaseInv' /\ NoStrandedPrompt'
      BY <2>1 DEF IInv, ActiveInv, PhaseInv, PhaseFacts, Busy, NoStrandedPrompt, Drainable
    <2>9. LedgerInv'
      <3>1. Ids(queue) \cup Waiting \cup taken \cup gone \cup again \subseteq 1 .. sent
        BY <1>1 DEF IInv, LedgerInv, Placed
      <3>2. Waiting' = Waiting \cup {sent + 1}
        BY <2>4, <2>5 DEF Waiting
      <3>3. 1 .. sent' = 1 .. sent \cup {sent + 1} /\ sent + 1 \notin 1 .. sent
        BY <1>1, <2>2
      <3>4. Placed'
        BY <1>1, <2>1, <3>1, <3>2, <3>3 DEF IInv, LedgerInv, Placed, OnePlace
      <3>5. \A v \in waiters : v.prompt.id # w.prompt.id
        BY <2>4, <3>1, <3>3 DEF Waiting
      <3>6. \A u, v \in waiters' : u.prompt.id = v.prompt.id => u = v
        BY <1>1, <2>5, <3>5 DEF IInv, LedgerInv
      <3> QED
        BY <1>1, <2>1, <3>1, <3>2, <3>3, <3>4, <3>6 DEF IInv, LedgerInv, Owned, Busy
    <2>10. AgentInv'
      BY <2>1, AgentKeepsInv DEF AgentMoves, IInv
    <2> QED
      BY <2>6, <2>7, <2>8, <2>9, <2>10 DEF IInv
  <1> QED
    BY <1>2, <1>3 DEF Send

LEMMA SendToInv ==
  ASSUME IInv, NEW text \in Texts, NEW delivery \in Deliveries, SendTo(text, delivery),
         UNCHANGED interactive
  PROVE  IInv'
  BY TypedIsNew, JoinInv, MayTypeLeaves DEF SendTo

LEMMA ResumeInv == ASSUME IInv, NEW w \in waiters, Resume(w), UNCHANGED interactive PROVE IInv'
  <1>1. waiters' = waiters \ {w} /\ sent' = sent /\ Submit(w.prompt)
    BY DEF Resume
  <1>2. w.prompt \in Prompts /\ waiters \subseteq [prompt : Prompts, on : Turns \cup {NoTurn}]
    BY DEF IInv, HostTypes, PromptTypes
  <1>3. Homeless(w.prompt)
    <2> SUFFICES ASSUME live
                 PROVE  /\ w.prompt.id \notin Ids(queue)
                        /\ w.prompt.id \notin taken
                        /\ w.prompt.id \notin gone
                        /\ w.prompt.id \notin again
                        /\ w.prompt.id \in 1 .. sent'
                        /\ w.prompt.id \notin Waiting'
                        /\ Waiting' \cup {w.prompt.id} = Waiting \cup {w.prompt.id}
                        /\ 1 .. sent' = 1 .. sent \cup {w.prompt.id}
                        /\ \A u, v \in waiters' : u.prompt.id = v.prompt.id => u = v
      BY <1>2 DEF Homeless
    <2>1. \A u, v \in waiters : u.prompt.id = v.prompt.id => u = v
      BY DEF IInv, LedgerInv
    <2>2. /\ w.prompt.id \in Waiting /\ w.prompt.id \in 1 .. sent
          /\ w.prompt.id \notin again /\ OnePlace(w.prompt.id)
      <3>1. w.prompt.id \in Waiting
        BY DEF Waiting
      <3> QED
        BY <3>1 DEF IInv, LedgerInv, Placed
    <2>3. Waiting' = Waiting \ {w.prompt.id}
      BY <1>1, <2>1 DEF Waiting
    <2> QED
      BY <1>1, <2>1, <2>2, <2>3 DEF OnePlace
  <1>4. waiters' \subseteq [prompt : Prompts, on : Turns \cup {NoTurn}] /\ waiters' \subseteq waiters
    BY <1>1, <1>2
  <1>5. sent' \in 0 .. MaxSent
    BY <1>1 DEF IInv, HostTypes, FlagTypes
  <1> QED
    BY <1>1, <1>3, <1>4, <1>5, SubmitInv

LEMMA StartFirstInv ==
  ASSUME IInv, NEW text \in Texts, StartFirst(text), UNCHANGED interactive
  PROVE  IInv'
  <1> DEFINE new == Typed(text, "queue")
  <1>1. /\ sent < MaxSent /\ sent' = sent + 1 /\ "queue" \in Deliveries
        /\ UNCHANGED <<queue, draining, drainDue, waiters>>
        /\ starting' \in StartPhases
        /\ crossed' = (crossed \/ \E t \in Turns : turn[t].at # "none")
        /\ StartTurn(new, FALSE)
    BY DEF StartFirst, Deliveries, prompts, StartPhases
  <1>2. /\ Homeless(new)
        /\ sent' \in 0 .. MaxSent
        /\ waiters' \subseteq [prompt : Prompts, on : Turns \cup {NoTurn}]
    BY <1>1, TypedIsNew
  <1> HIDE DEF new
  <1>3. /\ crossed' \in BOOLEAN /\ (crossed => crossed')
        /\ (interactive /\ ~crossed') => \A u \in Turns : ~Busy(u)
    BY <1>1 DEF IInv, HostTypes, FlagTypes, Busy
  <1>4. /\ draining' \in BOOLEAN /\ drainDue' \in BOOLEAN
        /\ queue' \in Seq(Prompts)
    BY <1>1 DEF IInv, HostTypes, FlagTypes, PromptTypes, Prompts, PromptIds
  <1>5. live => /\ \A u \in Turns : Busy(u) => /\ turn[u].prompt.id # new.id
                                               /\ turn[u].prompt.id \notin Ids(queue')
                                               /\ turn[u].prompt.id \notin Waiting'
                /\ new.id \notin Ids(queue') /\ new.id \notin Waiting'
                /\ Distinct(queue')
                /\ \A v, w \in waiters' : v.prompt.id = w.prompt.id => v = w
                /\ Placed'
    BY <1>1, <1>2, HomelessStarts
  <1>6. new \in Prompts
    BY <1>2 DEF Homeless
  <1> QED
    BY <1>1, <1>2, <1>3, <1>4, <1>5, <1>6, StartTurnInv

\* The row of a seeded session is written while it starts.
LEMMA SeededInv == ASSUME IInv, Seeded, UNCHANGED interactive PROVE IInv'
  <1>1. /\ persisted' = TRUE /\ starting' \in StartPhases
        /\ UNCHANGED <<live, status, lastFinish, hold, prompts, turns, closing, ledger, agent>>
    BY DEF Seeded, StartPhases
  <1>2. FlagTypes'
    BY <1>1 DEF IInv, HostTypes, FlagTypes, hold, prompts, ledger, turns
  <1>3. RunInv'
    BY <1>1, QuietAgent, RunFrame DEF turns, AtRun, IInv
  <1>4. NoStrandedPrompt'
    <2>1. RT!CanStartRun' <=> RT!CanStartRun
      BY <1>1 DEF RT!CanStartRun, agent
    <2> QED
      BY <1>1, <2>1 DEF IInv, NoStrandedPrompt, Drainable, hold, prompts, turns, ledger
  <1>5. AgentInv'
    BY <1>1, AgentKeepsInv DEF AgentMoves, IInv
  <1> QED
    BY <1>1, <1>2, <1>3, <1>4, <1>5, HostQuiet DEF hold, IInv, HostTypes, TurnTypes

LEMMA DrainInv == ASSUME IInv, Drain, UNCHANGED interactive PROVE IInv'
  <1>1. drainDue /\ drainDue' = FALSE /\ UNCHANGED <<waiters, starting, sent, crossed>>
    BY DEF Drain
  <1>2. CASE /\ Drainable
             /\ queue' = Tail(queue)
             /\ draining' = TRUE
             /\ StartTurn(Head(queue), TRUE)
    <2>1. live /\ active = NoTurn /\ queue # <<>>
      BY <1>2 DEF Drainable
    <2>2. /\ Tail(queue) \in Seq(Prompts) /\ Distinct(Tail(queue))
          /\ Head(queue) \in Prompts /\ Head(queue).id \in Ids(queue)
          /\ Ids(Tail(queue)) = Ids(queue) \ {Head(queue).id}
      BY <2>1, QueueKnown, TailIds DEF Prompts
    <2> DEFINE new == Head(queue)
    <2> HIDE DEF new
    <2>3. /\ queue' \in Seq(Prompts) /\ Distinct(queue')
          /\ new \in Prompts /\ new.id \in Ids(queue)
          /\ Ids(queue') = Ids(queue) \ {new.id}
      BY <1>2, <2>2 DEF new
    <2>4. taken' = taken \cup {new.id} /\ gone' = gone /\ again' = again
      BY <1>2 DEF StartTurn, new
    <2>5. Waiting' = Waiting /\ new.id \notin Waiting
      <3>1. new.id \in again \/ OnePlace(new.id)
        BY <2>1, <2>3 DEF IInv, LedgerInv, Placed
      <3>2. again \cap Waiting = {}
        BY <2>1 DEF IInv, LedgerInv, Placed
      <3> QED
        BY <1>1, <2>3, <3>1, <3>2 DEF OnePlace, Waiting
    <2>6. Placed'
      <3>1. Placed
        BY <2>1 DEF IInv, LedgerInv
      <3> QED
        BY <1>1, <2>3, <2>4, <2>5, <3>1 DEF Placed, OnePlace
    <2>7. \A v, w \in waiters' : v.prompt.id = w.prompt.id => v = w
      BY <1>1, <2>1 DEF IInv, LedgerInv
    <2>8. /\ waiters' \subseteq [prompt : Prompts, on : Turns \cup {NoTurn}]
          /\ sent' \in 0 .. MaxSent /\ draining' \in BOOLEAN /\ drainDue' \in BOOLEAN
          /\ starting' \in StartPhases /\ crossed' \in BOOLEAN
      BY <1>1, <1>2 DEF IInv, HostTypes, FlagTypes, PromptTypes, Prompts, PromptIds
    <2>9. StartTurn(new, TRUE)
      BY <1>2 DEF new
    <2>10. (interactive /\ ~crossed') => \A u \in Turns : ~Busy(u)
      BY <1>1, <2>1, NoTurnAssumption DEF IInv, ActiveInv
    <2>11. \A u \in Turns : Busy(u) => /\ turn[u].prompt.id # new.id
                                      /\ turn[u].prompt.id \notin Ids(queue')
                                      /\ turn[u].prompt.id \notin Waiting'
      BY <2>1, <2>3, <2>5 DEF IInv, LedgerInv, Owned
    <2>12. new.id \notin Ids(queue')
      BY <2>3
    <2> QED
      BY <1>1, <2>1, <2>3, <2>5, <2>6, <2>7, <2>8, <2>9, <2>10, <2>11, <2>12, StartTurnInv
  <1>3. CASE /\ ~Drainable
             /\ UNCHANGED <<session, hold, queue, draining, active, turn, closing, taken, gone,
                            again, agent>>
    <2>1. UNCHANGED <<live, persisted, status, lastFinish, aborting, paused, queue, draining,
                      active, turn, closing, waiters, starting, sent, taken, gone, again,
                      crossed, agent>>
      BY <1>1, <1>3 DEF session, hold
    <2>2. HostTypes'
      BY <1>1, <2>1 DEF IInv, HostTypes, FlagTypes, TurnTypes, PromptTypes, Busy, Prompts, PromptIds
    <2>3. RunInv'
      BY <2>1, QuietAgent, RunFrame DEF AtRun, IInv
    <2>4. ActiveInv' /\ PhaseInv'
      BY <1>1, <2>1 DEF IInv, ActiveInv, PhaseInv, PhaseFacts, Busy
    <2>5. LedgerInv'
      BY <2>1 DEF IInv, LedgerInv, Placed, OnePlace, Waiting, Owned, Busy
    <2>6. AgentInv'
      BY <2>1, AgentKeepsInv DEF AgentMoves, IInv
    <2>7. NoStrandedPrompt'
      <3>1. RT!CanStartRun' <=> RT!CanStartRun
        BY <2>1 DEF RT!CanStartRun, agent
      <3> QED
        BY <1>3, <2>1, <3>1 DEF NoStrandedPrompt, Drainable
    <2> QED
      BY <2>2, <2>3, <2>4, <2>5, <2>6, <2>7 DEF IInv
  <1> QED
    BY <1>2, <1>3 DEF Drain

-----------------------------------------------------------------------------
\* A turn settles.
LEMMA SettleInv ==
  ASSUME IInv, NEW t \in Turns, NEW r \in Finishes \cup {"rejected"}, Busy(t), ~AtRun(t),
         Settle(t, r), UNCHANGED <<interactive, live, persisted, lastFinish, paused, closing,
                                   starting, sent, crossed, agent>>,
         again \subseteq again', again' \subseteq again \cup {turn[t].prompt.id},
         (live /\ GivenBack(t, r) /\ turn[t].ran) => turn[t].prompt.id \in again',
         aborting' \in BOOLEAN, status' \in Statuses,
         live => interactive,
         GoesOn(r) \/ lastFinish = "error" \/ aborting' \/ ~live \/ crossed
  PROVE  IInv'
  <1> DEFINE left == IF GivenBack(t, r) THEN RequeueFront(queue, turn[t].prompt) ELSE queue
             unrun == {id \in {turn[t].prompt.id} : r = "rejected" /\ ~turn[t].ran}
             p == turn[t].prompt
  <1>1. /\ turn' = [u \in Turns |->
                       IF u = t THEN IdleTurn
                       ELSE IF turn[u].abort = t THEN [turn[u] EXCEPT !.abort = NoTurn]
                       ELSE turn[u]]
        /\ active' = IF active = t THEN NoTurn ELSE active
        /\ waiters' = {IF w.on = t THEN [w EXCEPT !.on = NoTurn] ELSE w : w \in waiters}
        /\ queue' = left
        /\ draining' = (draining /\ ~turn[t].queued)
        /\ taken' = taken \ unrun
        /\ gone' = IF turn[t].queued THEN gone ELSE gone \cup unrun
    BY DEF Settle
  <1>2. /\ turn' \in [Turns -> TurnRecords]
        /\ turn'[t].at = "none" /\ ~turn'[t].queued
        /\ \A u \in Turns \ {t} : /\ turn'[u].at = turn[u].at
                                  /\ turn'[u].prompt = turn[u].prompt
                                  /\ turn'[u].finish = turn[u].finish
                                  /\ turn'[u].cancelled = turn[u].cancelled
    <2>1. IdleTurn \in TurnRecords /\ IdleTurn.at = "none" /\ ~IdleTurn.queued
      BY DEF IdleTurn, TurnRecords, TurnPhases, Finishes
    <2>2. turn \in [Turns -> TurnRecords]
      BY DEF IInv, HostTypes, TurnTypes
    <2>3. \A u \in Turns \ {t} :
             turn'[u] = IF turn[u].abort = t THEN [turn[u] EXCEPT !.abort = NoTurn] ELSE turn[u]
      BY <1>1
    <2>4. \A u \in Turns \ {t} : /\ turn'[u] \in TurnRecords
                                 /\ turn'[u].at = turn[u].at
                                 /\ turn'[u].prompt = turn[u].prompt
                                 /\ turn'[u].finish = turn[u].finish
                                 /\ turn'[u].cancelled = turn[u].cancelled
      <3> SUFFICES ASSUME NEW u \in Turns \ {t}
                   PROVE  /\ turn'[u] \in TurnRecords
                          /\ turn'[u].at = turn[u].at
                          /\ turn'[u].prompt = turn[u].prompt
                          /\ turn'[u].finish = turn[u].finish
                          /\ turn'[u].cancelled = turn[u].cancelled
        OBVIOUS
      <3>1. turn[u] \in TurnRecords /\ turn'[u] \in {turn[u], [turn[u] EXCEPT !.abort = NoTurn]}
        BY <2>2, <2>3
      <3> QED
        BY <3>1 DEF TurnRecords
    <2>5. turn'[t] = IdleTurn
      BY <1>1
    <2>6. turn' \in [Turns -> TurnRecords]
      <3>1. \A u \in Turns : turn'[u] \in TurnRecords
        BY <2>1, <2>4, <2>5
      <3> QED
        BY <1>1, <3>1
    <2> QED
      BY <2>1, <2>4, <2>5, <2>6
  <1>3. ~Busy(t)' /\ \A u \in Turns : Busy(u)' => Busy(u) /\ u # t
    BY <1>2 DEF Busy
  <1>4. p \in Prompts /\ p.id \in PromptIds /\ turn[t].queued \in BOOLEAN
    BY DEF IInv, HostTypes, TurnTypes, TurnRecords, Prompts, Entries
  <1>5. queue' \in Seq(Prompts)
    <2>1. queue \in Seq(Prompts)
      BY DEF IInv, HostTypes, PromptTypes
    <2> QED
      BY <1>1, <1>4, <2>1, ConsElements DEF RequeueFront
  <1>6. waiters' \subseteq [prompt : Prompts, on : Turns \cup {NoTurn}]
    BY <1>1 DEF IInv, HostTypes, PromptTypes
  <1>7. HostTypes'
    <2>1. FlagTypes'
      BY <1>1, <1>4 DEF IInv, HostTypes, FlagTypes, Settle
    <2>2. TurnTypes'
      BY <1>2, <1>3 DEF IInv, HostTypes, TurnTypes, Prompts, PromptIds
    <2>3. PromptTypes'
      BY <1>1, <1>4, <1>5, <1>6 DEF IInv, HostTypes, PromptTypes, Prompts, PromptIds
    <2> QED
      BY <2>1, <2>2, <2>3 DEF HostTypes
  <1>8. RunInv'
    BY <1>2, QuietAgent, RunFrame DEF AtRun, IInv
  <1>9. (interactive /\ ~crossed) => active = t /\ \A u \in Turns : ~Busy(u)'
    BY <1>3 DEF IInv, ActiveInv
  <1>10. ActiveInv'
    BY <1>9 DEF ActiveInv
  <1>11. PhaseInv'
    <2> SUFFICES ASSUME NEW u \in Turns PROVE PhaseFacts(u)'
      BY DEF PhaseInv
    <2>1. CASE (interactive /\ ~crossed) \/ u = t
      BY <1>2, <1>9, <2>1 DEF PhaseFacts, Busy
    <2>2. CASE (~interactive \/ crossed) /\ u # t
      BY <1>2, <2>2 DEF IInv, PhaseInv, PhaseFacts
    <2> QED
      BY <2>1, <2>2
  <1>12. LedgerInv'
    <2> SUFFICES ASSUME live PROVE /\ Distinct(queue')
                                   /\ \A v, w \in waiters' : v.prompt.id = w.prompt.id => v = w
                                   /\ Placed' /\ Owned'
      BY DEF LedgerInv
    <2>1. /\ Distinct(queue) /\ Placed /\ Owned
          /\ \A v, w \in waiters : v.prompt.id = w.prompt.id => v = w
      BY DEF IInv, LedgerInv
    <2>2. /\ p.id \in taken /\ p.id \in 1 .. sent /\ p.id \notin Ids(queue) /\ p.id \notin Waiting
          /\ p.id \in again \/ p.id \notin gone
      BY <2>1 DEF Owned, Placed, OnePlace
    <2>3. \A w \in waiters : (IF w.on = t THEN [w EXCEPT !.on = NoTurn] ELSE w).prompt = w.prompt
      BY DEF IInv, HostTypes, PromptTypes
    <2>4. Waiting' = Waiting
      <3>1. waiters' = {IF w.on = t THEN [w EXCEPT !.on = NoTurn] ELSE w : w \in waiters}
        BY <1>1
      <3>2. Waiting' \subseteq Waiting
        BY <2>3, <3>1 DEF Waiting
      <3>3. Waiting \subseteq Waiting'
        BY <2>3, <3>1 DEF Waiting
      <3> QED
        BY <3>2, <3>3
    <2>5. \A v, w \in waiters' : v.prompt.id = w.prompt.id => v = w
      <3> DEFINE f(w) == IF w.on = t THEN [w EXCEPT !.on = NoTurn] ELSE w
      <3> SUFFICES ASSUME NEW v \in waiters', NEW w \in waiters', v.prompt.id = w.prompt.id
                   PROVE  v = w
        OBVIOUS
      <3>1. PICK a \in waiters : v = f(a)
        BY <1>1
      <3>2. PICK b \in waiters : w = f(b)
        BY <1>1
      <3>3. v.prompt = a.prompt /\ w.prompt = b.prompt
        BY <2>3, <3>1, <3>2
      <3>4. a = b
        BY <2>1, <3>3
      <3> QED
        BY <3>1, <3>2, <3>4
    <2>6. \A u \in Turns : Busy(u)' => /\ turn'[u].prompt.id # p.id
                                      /\ turn'[u].prompt.id \in taken
                                      /\ turn'[u].prompt.id \notin Ids(queue)
                                      /\ turn'[u].prompt.id \notin Waiting
      BY <1>2, <1>3, <2>1 DEF Owned
    <2>7. \A u, v \in Turns : (Busy(u)' /\ Busy(v)' /\ turn'[u].prompt.id = turn'[v].prompt.id)
                                  => u = v
      BY <1>2, <1>3, <2>1 DEF Owned
    <2>8. /\ taken' \subseteq taken /\ taken \subseteq taken' \cup {p.id}
          /\ gone \subseteq gone' /\ gone' \subseteq gone \cup {p.id}
      BY <1>1
    <2>9. Ids(queue') \in {Ids(queue), Ids(queue) \cup {p.id}} /\ Distinct(queue')
      <3>1. CASE GivenBack(t, r)
        <4>1. queue' = Cons(p, queue)
          BY <1>1, <3>1 DEF RequeueFront
        <4>2. queue \in Seq(Prompts)
          BY DEF IInv, HostTypes, PromptTypes
        <4> HIDE DEF p
        <4> QED
          BY <1>4, <2>1, <2>2, <4>1, <4>2, ConsIds
      <3>2. CASE ~GivenBack(t, r)
        BY <1>1, <2>1, <3>2
      <3> QED
        BY <3>1, <3>2
    <2>10. Owned'
      BY <2>4, <2>6, <2>7, <2>8, <2>9 DEF Owned
    <2>11. \A id \in (1 .. sent) \ {p.id} : id \notin again' => OnePlace(id)'
      BY <2>1, <2>4, <2>8, <2>9 DEF Placed, OnePlace
    <2>12. ASSUME NEW id, id = p.id, id \notin again' PROVE OnePlace(id)'
      <3>1. p.id \notin gone /\ (GivenBack(t, r) => ~turn[t].ran)
        BY <2>2, <2>12
      <3>2. CASE GivenBack(t, r)
        <4>1. turn[t].queued /\ r = "rejected" /\ queue' = Cons(p, queue)
          BY <1>1, <3>2 DEF RequeueFront, GivenBack
        <4>2. taken' = taken \ {p.id} /\ gone' = gone
          BY <1>1, <3>1, <3>2, <4>1
        <4>3. queue \in Seq(Prompts)
          BY DEF IInv, HostTypes, PromptTypes
        <4> HIDE DEF p
        <4>4. Ids(queue') = Ids(queue) \cup {p.id}
          BY <1>4, <2>1, <2>2, <4>1, <4>3, ConsIds
        <4> QED
          BY <2>2, <2>4, <2>12, <3>1, <4>2, <4>4 DEF OnePlace
      <3>3. CASE ~GivenBack(t, r)
        <4>1. queue' = queue
          BY <1>1, <3>3
        <4>2. \/ taken' = taken \ {p.id} /\ gone' = gone \cup {p.id}
              \/ taken' = taken /\ gone' = gone
          BY <1>1, <3>3 DEF GivenBack
        <4> HIDE DEF p
        <4> QED
          BY <2>2, <2>4, <2>12, <3>1, <4>1, <4>2 DEF OnePlace
      <3> QED
        BY <3>2, <3>3
    <2>13. Placed'
      <3>1. Ids(queue') \cup Waiting' \cup taken' \cup gone' \cup again' \subseteq 1 .. sent
        BY <2>1, <2>2, <2>4, <2>8, <2>9 DEF Placed
      <3>2. again' \cap Waiting' = {}
        BY <2>1, <2>2, <2>4 DEF Placed
      <3>3. \A id \in (1 .. sent) \ again' : OnePlace(id)'
        BY <2>11, <2>12
      <3> QED
        BY <3>1, <3>2, <3>3 DEF Placed
    <2> QED
      BY <2>5, <2>9, <2>10, <2>13
  <1>13. AgentInv'
    BY AgentKeepsInv DEF AgentMoves, IInv
  <1>14. NoStrandedPrompt'
    <2> SUFFICES ASSUME Drainable', ~crossed, lastFinish # "error", status' \notin {"failed", "cancelled"}
                 PROVE  drainDue'
      BY DEF NoStrandedPrompt
    <2>1. live /\ ~aborting' /\ ~paused /\ ~draining' /\ queue' # <<>> /\ active' = NoTurn
      BY DEF Drainable
    <2>2. RT!CanStartRun
      BY DEF Drainable, RT!CanStartRun, agent
    <2>3. GoesOn(r) /\ left # <<>>
      BY <1>1, <2>1
    <2>4. turn[t].queued \/ (~turn[t].queued /\ ~draining /\ active \in {t, NoTurn})
      BY <1>1, <1>4, <1>9, <2>1
    <2> HIDE DEF left
    <2> QED
      BY <2>1, <2>2, <2>3, <2>4 DEF Settle, left
  <1> QED
    BY <1>7, <1>8, <1>10, <1>11, <1>12, <1>13, <1>14 DEF IInv

LEMMA IdledInv == ASSUME IInv, NEW t \in Turns, Idled(t), UNCHANGED interactive PROVE IInv'
  <1>1. /\ Busy(t) /\ ~AtRun(t) /\ interactive
        /\ turn[t].at = "idling" \/ turn[t].finish = "aborted"
        /\ (turn[t].at = "idling" /\ ~crossed) => lastFinish = turn[t].finish
        /\ turn[t].finish \in Finishes
    BY DEF Idled, Busy, AtRun, IInv, PhaseInv, PhaseFacts, Finishes
  <1>2. GoesOn(turn[t].finish) \/ lastFinish = "error" \/ crossed
    BY <1>1 DEF GoesOn, Finishes
  <1>3. status' \in Statuses /\ aborting' \in BOOLEAN
    BY DEF Idled, WriteStatus, Statuses, IInv, HostTypes, FlagTypes
  <1>4. ~GivenBack(t, turn[t].finish)
    BY <1>1 DEF GivenBack, Finishes
  <1> QED
    BY <1>1, <1>2, <1>3, <1>4, SettleInv DEF Idled

LEMMA TidyFailsInv == ASSUME IInv, NEW t \in Turns, TidyFails(t), UNCHANGED interactive PROVE IInv'
  <1>1. Busy(t) /\ ~AtRun(t) /\ interactive /\ (aborting \/ crossed)
    BY DEF TidyFails, Busy, AtRun, IInv, PhaseInv, PhaseFacts
  <1>2. (aborting' \/ crossed) /\ status' \in Statuses /\ aborting' \in BOOLEAN
    BY <1>1 DEF TidyFails, IInv, HostTypes, FlagTypes
  <1>3. /\ again \subseteq again' /\ again' \subseteq again \cup {turn[t].prompt.id}
        /\ (GivenBack(t, "rejected") /\ turn[t].ran) => turn[t].prompt.id \in again'
    BY DEF TidyFails, GivenBack
  <1> QED
    BY <1>1, <1>2, <1>3, SettleInv DEF TidyFails

LEMMA ClosedInv == ASSUME IInv, NEW t \in Turns, Closed(t), UNCHANGED interactive PROVE IInv'
  <1>1. Busy(t) /\ ~AtRun(t) /\ ~live /\ turn[t] \in TurnRecords
    BY DEF Closed, Busy, AtRun, IInv, PhaseInv, PhaseFacts, HostTypes, TurnTypes
  <1>2. CASE Settle(t, turn[t].finish)
    <2>1. turn[t].finish \in Finishes \cup {"rejected"}
      BY <1>1 DEF TurnRecords
    <2>2. status' \in Statuses /\ aborting' \in BOOLEAN
      BY DEF Closed, IInv, HostTypes, FlagTypes
    <2> QED
      BY <1>1, <1>2, <2>1, <2>2, SettleInv DEF Closed
  <1>3. CASE Goes(t, "throwing") /\ UNCHANGED <<prompts, active, waiters, taken, gone>>
    <2> DEFINE x == [turn[t] EXCEPT !.at = "throwing"]
    <2>1. /\ x \in TurnRecords /\ x.at = "throwing" /\ x.prompt = turn[t].prompt
          /\ turn' = [turn EXCEPT ![t] = x]
      BY <1>1, <1>3, TurnMoves DEF TurnPhases
    <2> HIDE DEF x
    <2>2. turn'[t] = x /\ \A u \in Turns \ {t} : turn'[u] = turn[u]
      BY <2>1 DEF IInv, HostTypes, TurnTypes
    <2>3. PhaseFacts(t)'
      BY <2>1, <2>2 DEF PhaseFacts
    <2>4. RunInv'
      BY <2>1, <2>2, QuietAgent, RunFrame DEF Closed, AtRun, IInv
    <2>5. FlagTypes'
      BY <1>3 DEF Closed, IInv, HostTypes, FlagTypes, prompts
    <2>6. AgentInv'
      BY AgentKeepsInv DEF Closed, AgentMoves, IInv
    <2>7. UNCHANGED <<ledger, closing, live, starting>>
      BY <1>3 DEF Closed, ledger
    <2> QED
      BY <1>1, <1>3, <2>1, <2>3, <2>4, <2>5, <2>6, <2>7, TurnGoesOn
         DEF IInv, HostTypes, TurnTypes
  <1> QED
    BY <1>2, <1>3 DEF Closed

\* Nothing happens, or nothing of the session is left.
LEMMA StutterInv == ASSUME IInv, UNCHANGED vars PROVE IInv'
  <1>1. UNCHANGED <<interactive, live, persisted, status, lastFinish, aborting, paused, queue,
                    draining, drainDue, active, turn, closing, waiters, starting, sent, taken,
                    gone, again, crossed, agent>>
    BY DEF vars, session, hold, prompts, turns, ledger
  <1>2. HostTypes'
    BY <1>1 DEF IInv, HostTypes, FlagTypes, TurnTypes, PromptTypes, Busy, Prompts, PromptIds
  <1>3. RunInv'
    BY <1>1, QuietAgent, RunFrame DEF AtRun, IInv
  <1>4. ActiveInv' /\ PhaseInv'
    BY <1>1 DEF IInv, ActiveInv, PhaseInv, PhaseFacts, Busy
  <1>5. LedgerInv'
    BY <1>1 DEF IInv, LedgerInv, Placed, OnePlace, Waiting, Owned, Busy
  <1>6. AgentInv'
    BY <1>1, AgentKeepsInv DEF AgentMoves, IInv
  <1>7. NoStrandedPrompt'
    <2>1. RT!CanStartRun' <=> RT!CanStartRun
      BY <1>1 DEF RT!CanStartRun, agent
    <2> QED
      BY <1>1, <2>1 DEF IInv, NoStrandedPrompt, Drainable
  <1> QED
    BY <1>2, <1>3, <1>4, <1>5, <1>6, <1>7 DEF IInv

-----------------------------------------------------------------------------
\* A session as startResolvedSession leaves it satisfies the invariant.
LEMMA InitInv == Init => IInv
  <1> SUFFICES ASSUME Init PROVE IInv
    OBVIOUS
  <1>1. FlagTypes
    <2>1. status \in Statuses
      BY DEF Init, Statuses
    <2>2. sent \in 0 .. MaxSent
      BY MaxSentAssumption DEF Init
    <2>3. interactive \in BOOLEAN
      BY KindsAssumption DEF Init
    <2> QED
      BY <2>1, <2>2, <2>3 DEF Init, FlagTypes
  <1>2. TurnTypes
    <2>1. IdleTurn \in TurnRecords /\ NotClosing \in ClosingRecords
      BY DEF IdleTurn, NotClosing, TurnRecords, ClosingRecords, TurnPhases, Finishes, Terminal
    <2>2. \A t \in Turns : turn[t] = IdleTurn
      BY DEF Init
    <2> QED
      BY <2>1, <2>2 DEF Init, TurnTypes, Busy, IdleTurn
  <1>3. PromptTypes
    BY DEF Init, PromptTypes
  <1>4. \A t \in Turns : turn[t].at = "none"
    BY DEF Init, IdleTurn
  <1>5. RunInv /\ ActiveInv /\ PhaseInv
    BY <1>4 DEF Init, RunInv, AtRun, ActiveInv, PhaseInv, PhaseFacts, Busy
  <1>6. LedgerInv
    <2>1. Ids(queue) = {} /\ Waiting = {} /\ 1 .. sent = {} /\ Distinct(queue)
      BY DEF Init, Ids, ToSet, Waiting, Distinct
    <2> QED
      BY <1>4, <2>1 DEF Init, LedgerInv, Placed, OnePlace, Owned, Busy
  <1>7. NoStrandedPrompt
    BY DEF Init, NoStrandedPrompt, Drainable
  <1>8. AgentInv
    BY AgentInit DEF Init
  <1> QED
    BY <1>1, <1>2, <1>3, <1>5, <1>6, <1>7, <1>8 DEF IInv, HostTypes

\* Every step keeps the invariant.
LEMMA StepInv == IInv /\ [Next]_vars => IInv'
  <1> SUFFICES ASSUME IInv, [Next]_vars PROVE IInv'
    OBVIOUS
  <1>1. CASE User /\ UNCHANGED interactive
    <2>1. ASSUME NEW text \in Texts, Send(text) PROVE IInv'
      BY <1>1, <2>1, SendInv
    <2>2. ASSUME NEW text \in Texts, NEW d \in Deliveries, SendTo(text, d) PROVE IInv'
      BY <1>1, <2>2, SendToInv
    <2>3. ASSUME NEW text \in Texts, NEW d \in Deliveries, NEW id \in PromptIds, Edit(id, text, d)
          PROVE  IInv'
      BY <1>1, <2>3, EditInv DEF Edit
    <2>4. CASE SteerFirst
      BY <1>1, <2>4, SteerFirstInv
    <2>5. ASSUME NEW id \in PromptIds, Withdraw(id) PROVE IInv'
      BY <1>1, <2>5, WithdrawInv
    <2>6. CASE Abort
      BY <1>1, <2>6, AbortInv
    <2>7. ASSUME NEW c \in Stoppers, NEW m \in BOOLEAN, StopOrDispose(c, m) PROVE IInv'
      BY <1>1, <2>7, StopOrDisposeInv
    <2> QED
      BY <1>1, <2>1, <2>2, <2>3, <2>4, <2>5, <2>6, <2>7 DEF User
  <1>2. CASE Internal /\ UNCHANGED interactive
    <2>1. ASSUME NEW text \in Texts, StartFirst(text) PROVE IInv'
      BY <1>2, <2>1, StartFirstInv
    <2>2. ASSUME NEW w \in waiters, Resume(w) PROVE IInv'
      BY <1>2, <2>2, ResumeInv
    <2>3. CASE Drain
      BY <1>2, <2>3, DrainInv
    <2>4. CASE AgentStep
      BY <1>2, <2>4, AgentStepInv
    <2>5. ASSUME NEW t \in Turns,
                 \/ Prepare(t) \/ Mark(t) \/ Refreshed(t) \/ Saved(t) \/ Caught(t)
                 \/ Idled(t) \/ Tidied(t) \/ Closed(t)
          PROVE  IInv'
      BY <1>2, <2>5, PrepareInv, MarkInv, RefreshedInv, SavedInv, CaughtInv, IdledInv, TidiedInv,
         ClosedInv
    <2>6. ASSUME NEW c \in Closers, CloseStatus(c) \/ Teardown(c) PROVE IInv'
      BY <1>2, <2>6, CloseStatusInv, TeardownInv
    <2> QED
      BY <1>2, <2>1, <2>2, <2>3, <2>4, <2>5, <2>6 DEF Internal
  <1>3. CASE Chance /\ UNCHANGED interactive
    BY <1>3, SeededInv, SteerInv, ThrowsInv, TidyFailsInv DEF Chance
  <1>4. CASE Over \/ UNCHANGED vars
    BY <1>4, StutterInv DEF Over
  <1> QED
    BY <1>1, <1>2, <1>3, <1>4 DEF Next

-----------------------------------------------------------------------------
\* The variables of the session and of its agent keep their types.
THEOREM TypeCorrect == Spec => []TypeOK
  BY InitInv, StepInv, Types, PTL DEF Spec

\* An interactive session runs one turn at a time, whatever the order of sends, drains and
\* resumed sends, while it starts and afterwards, for any number of turns that could be in
\* flight (runTurn, startTurn): only startResolvedSession, which hands the first prompt over
\* without a look at the session, can start a turn beside another.
THEOREM OneTurn == Spec => []OneTurnAtATime
  <1>1. IInv => OneTurnAtATime
    BY DEF IInv, ActiveInv, OneTurnAtATime
  <1> QED
    BY InitInv, StepInv, <1>1, PTL DEF Spec

\* No wakeup of the queue is lost: a prompt nothing holds back has a drain on its way
\* (pending-prompt-service.ts, scheduleDrain and drain).
THEOREM NoneStranded == Spec => []NoStrandedPrompt
  <1>1. IInv => NoStrandedPrompt
    BY DEF IInv
  <1> QED
    BY InitInv, StepInv, <1>1, PTL DEF Spec

\* While the session lives every prompt typed is in exactly one place, whatever is edited,
\* merged, withdrawn, steered, given back or cancelled, and in whatever order.  The prompts
\* that ran and are put back in the queue are those of cancelled turns whose tidying up
\* failed (completeAbortedInteractiveTurn, then drain's catch), and no others.
THEOREM EachPromptOnce == Spec => []EveryPromptOnce
  <1>1. IInv => EveryPromptOnce
    <2> SUFFICES ASSUME IInv, live, NEW id \in (1 .. sent) \ again
                 PROVE  LET places == <<id \in Ids(queue), id \in {w.prompt.id : w \in waiters},
                                        id \in taken, id \in gone>>
                        IN  \E i \in 1 .. 4 : \A j \in 1 .. 4 : places[j] <=> (i = j)
      BY DEF EveryPromptOnce
    <2> DEFINE places == <<id \in Ids(queue), id \in {w.prompt.id : w \in waiters},
                           id \in taken, id \in gone>>
    <2>1. OnePlace(id)
      BY DEF IInv, LedgerInv, Placed
    <2>2. /\ places[1] <=> id \in Ids(queue)
          /\ places[2] <=> id \in Waiting
          /\ places[3] <=> id \in taken
          /\ places[4] <=> id \in gone
      BY DEF Waiting
    <2> HIDE DEF places
    <2>3. \E i \in 1 .. 4 : /\ places[1] <=> (i = 1)
                            /\ places[2] <=> (i = 2)
                            /\ places[3] <=> (i = 3)
                            /\ places[4] <=> (i = 4)
      BY <2>1, <2>2 DEF OnePlace
    <2>4. \A j \in 1 .. 4 : j = 1 \/ j = 2 \/ j = 3 \/ j = 4
      OBVIOUS
    <2>5. \E i \in 1 .. 4 : \A j \in 1 .. 4 : places[j] <=> (i = j)
      BY <2>3, <2>4
    <2> QED
      BY <2>5 DEF places
  <1> QED
    BY InitInv, StepInv, <1>1, PTL DEF Spec

\* A cancel received anywhere in a turn has reached its run before the model is asked again
\* (turn-execution.ts lines 239-240), an auth retry and every recovery attempt included.
THEOREM CancelsReachTheRun == Spec => []CancelReachesRun
  <1>1. IInv => CancelReachesRun
    <2> SUFFICES ASSUME IInv, NEW t \in Turns, AtRun(t), turn[t].cancelled, pc = "looping"
                 PROVE  loopAborted
      BY DEF CancelReachesRun, AtRun
    <2>1. abortRequested
      BY DEF IInv, RunInv, CancelKept
    <2> QED
      BY <2>1, AgentFacts DEF IInv
  <1> QED
    BY InitInv, StepInv, <1>1, PTL DEF Spec

\* Only a turn that is started explicitly releases the hold a cancel put on the queue
\* (abort, lines 1022-1023).
THEOREM HoldReleased == Spec => HoldReleasedByUser
  <1>1. IInv /\ [Next]_vars
          => [(paused /\ ~paused') => \E t \in Turns : ~Busy(t) /\ turn'[t].at = "prepare"
                                                       /\ ~turn'[t].queued]_vars
    <2> SUFFICES ASSUME IInv, Next, paused, ~paused'
                 PROVE  \E t \in Turns : ~Busy(t) /\ turn'[t].at = "prepare" /\ ~turn'[t].queued
      OBVIOUS
    <2>1. ASSUME NEW prompt, StartTurn(prompt, FALSE)
          PROVE  \E t \in Turns : ~Busy(t) /\ turn'[t].at = "prepare" /\ ~turn'[t].queued
      BY <2>1 DEF StartTurn, Busy, IdleTurn, IInv, HostTypes, TurnTypes
    <2>2. \E prompt : StartTurn(prompt, FALSE)
      <3>1. CASE User
        BY <3>1 DEF User, Send, Submit, SendTo, Join, Edit, SteerFirst, Withdraw, ChangeQueue,
           Abort, StopOrDispose, hold
      <3>2. CASE Internal
        BY <3>2 DEF Internal, StartFirst, Resume, Submit, Join, ChangeQueue, Drain, Drainable,
           AgentStep, Prepare, Mark, Refreshed, Saved, Caught, Idled, Tidied, Closed,
           CloseStatus, Teardown, hold
      <3>3. CASE Chance \/ Over
        BY <3>3 DEF Chance, Seeded, Steer, Throws, TidyFails, Over, vars, hold
      <3> QED
        BY <3>1, <3>2, <3>3 DEF Next
    <2> QED
      BY <2>1, <2>2
  <1> QED
    BY InitInv, StepInv, <1>1, PTL DEF Spec, HoldReleasedByUser

\* Whatever the host does, it uses its agent as SessionRuntime describes: every step of the
\* host is an operation of the runtime, a step of its run, or leaves the agent alone.
THEOREM AgentIsRuntime == Spec => RT!Spec
  <1>1. Init => RT!Init
    BY DEF Init
  <1>2. IInv /\ [Next]_vars => [RT!Next]_(RT!vars)
    <2>1. AgentMoves => [RT!Next]_(RT!vars)
      BY DEF AgentMoves, RT!Next, RT!vars, agent
    <2>2. UNCHANGED vars => UNCHANGED RT!vars
      BY DEF vars, agent, RT!vars
    <2> QED
      BY <2>1, <2>2, NextMovesAgent
  <1> QED
    BY InitInv, StepInv, <1>1, <1>2, PTL DEF Spec, RT!Spec
=============================================================================
