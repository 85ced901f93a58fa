# PlinyCode: specification and verification of the session engine

PlinyCode is a VS Code extension (`apps/vscode`) around an agent engine
(`sdk/packages/core`, with `shared` and `llms`). A user types prompts into a
session; the engine runs an agent that asks a model, executes the tools it calls
and writes a transcript, while the user may queue prompts, steer, cancel, resume,
switch the mode, stop or delete at any moment. Extension and engine run on event
loops, so their hard behaviour is in what can happen between two `await`s, and where
several processes share a file, between any two of their steps. This directory
models that behaviour in TLA+, checks it with TLC and proves the central results
with TLAPS.

Paths below are relative to `src/sdk/packages/core/src/` unless they start with
`apps/`.

1. [The system](#1-the-system)
2. [The modules](#2-the-modules)
3. [What the runs check](#3-what-the-runs-check)
4. [Bounds](#4-bounds)
5. [Fairness](#5-fairness)
6. [Disagreements found](#6-disagreements-found)
7. [What is proved](#7-what-is-proved)
8. [What is only model-checked](#8-what-is-only-model-checked)
9. [What is not modelled](#9-what-is-not-modelled)
10. [Plan](#10-plan)

## 1. The system

### Parts of the engine

**Turn host of a session** (`runtime/host/local-runtime-host.ts`,
`runtime/host/local/turn-execution.ts`).
State: the map of live sessions; per session its status, `aborting`,
`pendingPromptsPaused`, `activeTurn`, `turnAbortController`, artifacts.
Operations: `startSession`, `runTurn`, `abort`, `stopSession`, `dispose`,
`deleteSession`, the execution of a turn (prepare, mark running, run the agent,
retry once with fresh credentials, save, mark idle) and the shutdown of the
session. It calls the orchestrator for runs, the queue for prompts and the
persistence service for records and transcripts. Hard: every one of these awaits,
and a send, a drain, a cancel and a stop may land in any of them. Correct if an
interactive session runs one turn at a time, a cancel reaches the run wherever it
lands, no prompt is lost or run twice, a held queue stays held, cancelled turns
settle, and nothing is torn down under a run.

**Pending-prompt queue** (`runtime/turn-queue/pending-prompt-service.ts`).
State: the session's list of prompts (queued, or steering ones, which come
first), `drainingPendingPrompts`. Operations: enqueue, update, delete, steer,
requeue, and `drain`, which runs as a microtask and starts turns through the
host. Hard: lost wakeups, a drain that runs when the state it was scheduled for is
gone, a prompt given back after a failure. Correct if each prompt is in exactly
one place and a prompt that nothing holds has a drain on its way.

**Session runtime orchestrator** (`runtime/orchestration/session-runtime-orchestrator.ts`,
`session-run-recovery.ts`).
State: `running`, `activeRunPromise`, `abortRequested`, `shutdownCalled`, the live
`AgentRuntime`, a held-back failure event. Operations: `run`, `continue`, `abort`,
`shutdown`, the recovery of failed runs. Hard: aborts before there is anything to
abort, shutdowns in the gap between two attempts, failures reported twice or
never. Correct if a shutdown takes effect only when no run is active, an abort is
neither lost nor outlived, and listeners see a failure once.

**Agent loop** (`runtime/agent/agent-runtime.ts`, `model-turn.ts`,
`retry-policy.ts`, `tool-execution.ts`).
State: iteration, abort and steering controllers, retries, the transcript and its
open tool calls. Operations: turns, model requests, provider retries, overflow
recovery, tool calls in parallel and sequential groups, steering, abort. Hard: two
nested retry mechanisms, streams cut short by steering, parallel tools of which
one throws, aborts between an announcement and an execution. Correct if no request
leaves a tool call open, sequential tools are alone, the requests of a turn are
bounded, nothing starts after an abort and the run ends.

**Transcript writes** (`session/stores/session-manifest-store.ts`,
`atomic-file.ts`).
State: per session the write in flight and the newest transcript waiting, the
transcript file. Operations: `persistSessionMessages`, `writeFileAtomic`. Hard:
overlapping callers share one promise, writes fail, processes die, sessions are
deleted meanwhile. Correct if a caller told "done" has its transcript or a newer
one on disk, the file never goes back, and every caller is answered.

**Session record and manifest** (`session/services/persistence-service.ts`,
`session-service.ts`, `file-session-service.ts`).
State: the row (with an optimistic lock), the manifest file, the live copy.
Operations: status updates, metadata and title updates through the manifest's
mutation queue, deletion, child sessions. Hard: three copies
written in different orders, writers outside the queue. Correct if a status or a
field written by one writer is not reverted by another's stale copy.

**OAuth tokens of a session** (`runtime/orchestration/runtime-oauth-token-manager.ts`,
`oauth-refresh-lock.ts`).
State: the credentials in the settings file, the lock of a SQLite file shared by all
processes, per manager the resolution in flight. Operations: resolve a token (join,
or lock, read again, refresh, check again, save), sign in, sign out. Hard: refresh
tokens are good for one use, the file belongs to every process, answers get lost and
processes die. Correct if no refresh token is presented twice, a caller gets a token
that was current during its call, replaced credentials stay replaced and the lock is
given back.

**Run tracker, mistake and loop detection**
(`runtime/orchestration/session-run-tracker.ts`). Counters and drained promises of
one run; sequential.

**Context compaction and message building** (`session/services/message-builder.ts`,
`extensions/context/`). Functions from messages to messages.

**Plugin sandbox** (`runtime/tools/subprocess-sandbox.ts`,
`extensions/plugin/plugin-sandbox.ts`).
State: the child process, the requests pending with it, its idle timer, the children
on their way out, the promise of a re-initialization. Operations: a call (start the
child if need be, send, wait, time out), the replies, exits and errors of children,
the idle shutdown, `shutdown()`. Hard: a child is reclaimed or dies between two
calls, its events arrive after it was replaced, several calls find the new child
without plugins. Correct if no process is left behind, an idle child is always timed,
a replacement is initialized once and silently, and every call is answered.

**Hooks** (`hooks/`). Shell commands and checkpoints in git refs.

**Sub-agents and team tools** (`runtime/host/local/spawn-tool.ts`,
`extensions/tools/team/`). A sub-agent is an agent loop of its own; results go
back as a tool result.

**Shared and LLM packages** (`sdk/packages/shared`, `sdk/packages/llms`).
Schemas, provider adapters, stream decoding.

### Parts of the extension (`apps/vscode/src`)

**Control of the displayed session** (`sdk/sdk-session-lifecycle.ts`,
`sdk-session-rebuild-scheduler.ts`, `sdk-mode-coordinator.ts`,
`sdk-mcp-coordinator.ts`, `sdk-followup-coordinator.ts`,
`sdk-task-control-coordinator.ts`, `sdk-session-event-coordinator.ts`).
State: the active session object with its running flag and send versions, the mode
setting, the exclusive section and pending rebuilds of the scheduler, stops under
way, the chain of outbound sends, the words not yet sent, the cancellation version.
Operations: toggle the mode (with a plan to execute), rebuild for changed MCP tools,
send, resume, cancel, and what the host's events and settled promises do. Hard: all
session objects of a conversation share one session id, each operation has several
awaits, every one of them may fail, and a cancel may land in any. Correct if no
session starts under a pending stop, mode and session agree, no rebuild is stranded,
a late completion spares the turn of another message, and a message is sent once
and not after its cancel.

**Router, task history, session factory** (`sdk/`). Model routing with a failover
budget, the index of tasks (read-modify-write), the wiring of a session's tools.

**CI board, CI watch, auto-runner** (`services/devops-mcp/`). Pollers, stores and
watchers of pipelines. Hard: overlapping polls, a run started twice for a failure.

**MCP hub and reconnection** (`services/mcp/`). Connections with back-off and
OAuth. Hard: a reconnect racing a disconnect, late callbacks of a replaced server.

**State, worktrees, terminal, auto-update** (`core/storage`, `services/git`,
`hosts/vscode/terminal`). Mostly calls into VS Code, git and the shell.

**Webview** (`apps/vscode/webview-ui`). Renders state and sends commands.

### How the modelled parts interact

    user --> TurnHost --(run, abort, shutdown)--> SessionRuntime --(attempt)--> AgentLoop
               | ^                                                                 |
     enqueue,  | | drain (microtask)                              assistant-message|
     steer     v |                                                                 v
           PendingPrompts                  TranscriptWrites <--(persistSessionMessages)

    user --> SessionControl (extension) --(start, send, abort, stop)--> TurnHost
             TurnHost --(token for a run, forced after a 401)--> OAuthRefresh --> settings file
             AgentLoop --(tools and hooks of plugins)--> PluginSandbox --> child process

The extension replaces sessions of the host and is told of turns that end; of the
host `SessionControl` keeps the turn, the length of the queue and the hold. The host
starts runs and forwards cancels; the orchestrator starts one agent loop
per attempt and hides failures it recovers from; the loop asks the host for
steering prompts and emits events, on some of which the transcript is written,
partly without anyone awaiting the write.

## 2. The modules

| Module | Models | Composed with |
|---|---|---|
| `SessionRuntime` | `session-runtime-orchestrator.ts`, `session-run-recovery.ts` | the machine `TurnHost` drives |
| `PendingPrompts` | the list operations of `PendingPromptService` | extended by `TurnHost` |
| `TurnHost` | the session in `local-runtime-host.ts`, `turn-execution.ts`, `PendingPromptsController` | `RT == INSTANCE SessionRuntime` |
| `AgentLoop` | one run of `AgentRuntime` | stands alone; `SessionRuntime` keeps the status a run ends with |
| `DurableTranscript` | abstract: what `persistSessionMessages` promises | implemented by `TranscriptWrites` |
| `TranscriptWrites` | the coalescer, `writeFileAtomic`, `deleteSession`'s order | `Promise == INSTANCE DurableTranscript WITH durable <- stored` |
| `OAuthRefresh` | `runtime-oauth-token-manager.ts`, `oauth-refresh-lock.ts` | stands alone; `TurnHost` keeps the one retry with a forced refresh |
| `PluginSandbox` | `subprocess-sandbox.ts`, the calls of `plugin-sandbox.ts` | stands alone |
| `SessionControl` | the coordinators of the displayed session | keeps of `TurnHost` the turn, the queue's length and the hold |
| `MC...` | constants, bounds and symmetry for TLC; two kinds of instance side by side | |
| `...Proofs` | invariants and theorems | |

Three `MC` modules run two instances in one state graph, told apart by a variable
that never changes: `MCAgents` (`agent`: a lead's run or a sub-agent's),
`MCOAuthRefresh` (`sharing`: two processes or one) and `MCPluginSandbox` (`failing`:
faults or idle reclaim only). The type invariants (`TypeOK`) of all modules hold in
these instances. Those of all modules but `SessionControl` are part of the proofs, which
for that one keep what they need of the types.

An action is what the code does from one `await` to the next, with everything it
changes on the way: settling a run and answering those who wait in `shutdown()`
are one action because they are in one microtask chain without I/O between.

**SessionRuntime.** `pc` is where the active run is: `preparing` (extension setup,
user content, system prompt), `built` (the `AgentRuntime` exists, its beforeRun hooks are
awaited), `looping`, `draining`, `ended` (decide about recovery), `recovering`
(the host's hook is awaited). `running` and `activeRun` are the two flags of the
code, which differ in the gap of a recovery: `running` is reset by the attempt,
the promise is not settled. `closer` follows each caller of `shutdown()`.
`surfaced` counts the failures listeners have seen, `deferred` is the held-back
one. The loop is reduced to the status it ends with.

**PendingPrompts.** Pure operators on the queue, translated from the service:
steering prompts go before queued ones, an identical text merges, an update moves
its entry when the delivery changes.

**TurnHost.** The session's fields, the turns in flight with their phase and the
abort controller they are bound to, the explicit sends that wait for a cancelled
turn, the shutdowns in flight, and the agent's variables, which change only by
actions of `SessionRuntime`. A turn goes `prepare`, `mark`, `running`, then
`refresh` and `rerunning` for the auth retry, `saving`, `idling`; `throwing`,
`tidying`, `retiring` and `closing` are the ways a failed, cancelled or single-run
turn ends. A microtask that drains the queue is `drainDue`. `starting` is how far
`startResolvedSession` is once the session is in the map: `new` (nothing is awaited
before the first prompt's turn), `turn` or `seed` (git metadata of a resumed session, or
row and messages of a seeded one, `Seeded`, with or without a first prompt to come) and
`done`. Users may act in all of these but `new`; `StartFirst` then starts the first
turn without looking at the session, as the code does. History are `taken` and `gone`
(which prompts are with the agent, and which were withdrawn, merged or answered by an
error), `ran` of a turn (its run was started), `again` (prompts that ran and were queued
again, section 6) and `crossed` (the first turn was started beside another, section 6).
A prompt leaves `taken` when its turn rejects before it ran, not when it ran and rejected.
The status "pending" of a session that waits for an approval is left out, and with it
the approvals.

**AgentLoop.** Of a message only its open tool calls are kept. `answer` is what a
model's answer is to the loop: text, tools, cut short by steering with or without
content, a transient error, an overflow, another error. Each call goes `ready`,
`announced`, `executing`, `executed`, `answered`, or `dropped`. Awaited hooks and
listeners may take their time, stop the run or throw. A run without a bound on
its turns is not modelled; no property here is about the number of turns.

**TranscriptWrites.** Each call hands over the whole transcript, so a transcript is
its position in the order of the calls. `inflight` is the one being written,
`latest` the newest one requested meanwhile, `answer` what each caller's promise
did. `writeFileAtomic` is four steps: directory, temporary file, rename, directory
fsync. Up to the rename a step may throw; the fsync swallows its errors.
`deleteSession` deletes the row, deletes it again with its children, unlinks the
transcript and at last removes manifest and directory, with awaits in between;
between the first and the last of these a write finds the manifest and puts the row
back, as `resolveSessionRow` does.

**DurableTranscript.** What a caller may rely on, without stages, files or
coalescing: a transcript is handed over or refused; any newer one whose caller
still waits may become the stored one; the waiting callers are told "done" only if
what is stored covers them, or "failed"; a dying process answers nobody and keeps
what is stored.

**OAuthRefresh.** Credentials are numbered in the order they are issued; 0 is
"signed out". `flight` is the resolution of a manager: `begin`, `polling` (the lock is
busy), `entered`, `asking`, `replied` or `rejected`, `saving`. `turn` is the manager in
the middle of a synchronous stretch, per process: within one process nothing comes
between the check after a refresh and the save, between processes anything may.
A save may fail (`SaveFails`: the directory, the write or the rename throws), which leaves
the spent token in the file. `spent`, `lost` and `reused` are what the server knows and a
reader wants to know of refresh tokens, `lost` being the spent ones whose successor never
reached the file; `seen` of a call is every token that was stored during it. `Die` kills
a process at any point: the operating system frees the lock, a request may still reach
the server.

**PluginSandbox.** `process` and `shutdowns` are the current child and those told to
go, `toChild` and `toParent` the two directions of the IPC channel, `loaded` whether a
child has the plugins. A call is sent, answered, refused by a child that does not know
the plugin, re-initializes and retries once. What a settled promise's continuation
does comes before the next callback (`Quiet`). A payload that cannot be serialized is
refused at once: tools and hooks repeat the call with a safe one (`CallSanitized`), for any
other contribution it is over. A child that is gone may be used again
as a new one, so runs have no bound on restarts.

**SessionControl.** A `thread` is one operation of the user (or the drain of the
scheduler) and where it waits: `rebuilds`, `lock`, `posting`, `aborting`, `loading`,
`stopping`, `starting`, `settling`, `preparing`, `mentions`, `leaving`. `lock` is the
exclusive section, `pending` the rebuild the scheduler remembers, `stops` the session
objects being stopped, `send` how far the send of each message is. A send that waits in
the host for an aborted turn keeps the host's session it came to (`on`): when that was
replaced meanwhile, it goes on at once and is queued by its id in the one that is there
(`HostResumes`). `SetIdle` is
`setRunning(false)` with everything it sets off: the scheduler looks for a pending
reload in the same microtask. Session objects are numbered; the code tells them apart
by reference while their ids are equal, and so does the module. `unseen` (the mode
was set while an operation had no session) and `strays` (messages on their way when the
session was made idle, those that wait in the host for an aborted turn included) are
history for two known exceptions, section 6. The window
between a turn's `done` event and the moment the host frees the turn is one step.

## 3. What the runs check

Every property has a mutant of the code it breaks under (a dropped guard, a swapped
order, an off-by-one); the mutated operators stand before the ones they replace.

`session_runtime` - `SessionRuntime` with three recoveries and two callers of `shutdown()`.
- `ShutdownOnlyWhenIdle`: a shutdown never takes effect under a run or in the gap of
  a recovery, where `running` is already false.
- `AbortReachesLoop`: an abort before the loop can take it is kept for it.
- `FailureReportedOnce`: a failed run is reported once, a recovered one never.
- `NoAttemptAfterAbort`: no attempt starts after an abort, also when it lands
  during the recovery hook.
- `ShutdownAnswered`: a shutdown that waits for an aborted run is answered.

`agent_loop` - a lead agent's run with two parallel tools and one sequential tool that
completes the run, one steering message, all retries; and a sub-agent's run, without
`prepareTurn` and steering, where an overflow has no recovery.
- `NoRequestWithOpenCalls`: providers reject a transcript with an open call; cut
  streams, refused calls and failed tools close theirs.
- `SequentialAlone`: a sequential tool overlaps with no other.
- `RequestsBounded`: the nested retry and overflow recovery do not multiply.
- `SteerNotPassedOver`: a message that arrives while a request is prepared cuts it
  short.
- `NothingStartsAfterAbort`, `RunEnds`.

`turn_host` - an interactive session from its start on, two prompts of two texts, two
turns, a stop; and one that is not interactive, where `runTurn` does not queue and turns
may overlap.
- `OneTurnAtATime`: sends, drains and sends that waited for a cancelled turn never
  start two turns in an interactive session, also while it starts, and none joins a turn
  of theirs. Two turn slots are there to be violated. What is excused is the first
  prompt's turn when it was started beside another (`crossed`, set by `StartFirst` only),
  which the code does not prevent (section 6).
- `NoStrandedPrompt`: a prompt that nothing holds has a drain microtask on its way, under
  the same excuse.
- `CancelReachesRun`: a cancel anywhere in a turn has stopped its run before the
  model is asked again, the run after an auth retry included.
- `EveryPromptOnce`: each prompt is in exactly one place while the session lives, so that
  none is lost and none that ran is queued, but those in `again`: prompts from the queue
  whose cancelled turn rejects while it is tidied up (section 6).
- `HoldReleasedByUser`: only an explicit turn resumes a cancelled session.

`turn_host_fair` - the liveness of an interactive session. `QueueServed`: a queued
prompt is taken unless the queue is held, the prompt withdrawn, the session has
failed or ended, or its first turn was started beside another. `CancelSettles`: a
cancelled turn settles, so that `abort()` returns and the sends that wait go on.

`transcript_writes` - four transcripts.
- `DoneMeansStored`: also for a caller whose own transcript was coalesced away.
- `NeverGoesBack`: no write puts an older or partial transcript in place.
- `KeepsPromise`: every behaviour is one of `DurableTranscript`.
- `CallersAnswered`: no promise stays pending.

`oauth_refresh` - two managers with two calls: in two processes, one of which may die,
or in one process in which the user signs in and out.
- `SpentOnlyAfterLoss`: a refresh token is presented twice only after its successor
  was lost on the wire, with a process or by a write that failed.
- `AnswerWasStored`: who joins a resolution of somebody else gets a token that was
  current during its own call.
- `NeverResurrects`: a save replaces what was refreshed and nothing else.
- `NoNeedlessRefresh`: who waited for the lock with a refused token does not spend the
  token another holder brought meanwhile.
- `LockGivenBack`, also by a holder that dies.

`plugin_sandbox` - two calls with every fault, or three with idle reclaim only.
- `NoOrphan`: a child that runs is the current one or has been told to go.
- `IdleIsTimed`: whichever way the last request ended, the idle timer is armed.
- `OneInitialize`, `ReplacedSilently`: calls that meet a new child together initialize
  it once, and a call fails for it only after a fault.
- `RequestsReachLiving`: no request goes to a child told to go, though its deadline
  and its replacement may come in one tick.
- `CallsAnswered`: whatever the child does.

`session_control` - three operations of the user, or two with a reload of the tools,
and a cancel, on one conversation; every load, start, mention and turn may fail.
- `StopBeforeStart`: the host cleans up by session id; a session that started under a
  late stop would be taken down by it.
- `ModeMatchesSession`: through refusals, failures and rollbacks at four awaits.
- `NoStrandedReload`: whoever makes the session idle or leaves the section looks for
  the pending reload.
- `SettleSparesOthers`: the late completion of a send never marks idle a session in
  which another message has its turn, unless one of the two is a stray.
- `CancelledStaysHome`: a message cancelled while it waited for the section, an
  abort, its mentions, a start or the editor state is not sent.
- `HandedOnce`: a bare Resume that takes over unsent words and the send that held
  them do not both deliver them, unless a stray carried them.

`session_runtime` also checks the type invariant, which carries the bound on attempts.

The four runs `session_runtime_wedged`, `agent_loop_pending`, `turn_host_teardown` and
`transcript_writes_orphan` each end in a counterexample: section 6.

## 4. Bounds

| Run | Bounds | Why they are enough |
|---|---|---|
| `session_runtime` | 3 recoveries, 2 closers | 3 is `MAX_RUN_RECOVERY_ATTEMPTS`; two closers are a waiting and a refused shutdown; the theorems hold for any number |
| `agent_loop` | 3 turns, 3 retries, 1 steer, answers of 1-3 calls | 3 is `PROVIDER_ERROR_MAX_RETRIES`; the answers put a sequential call before and after parallel ones; three turns are a first, a middle and a last one, which the code treats differently; two for the sub-agent, where the difference is in one request; the theorems hold for any bounds |
| `agent_loop_pending` | 1 turn, no retries | the shortest run with two parallel calls |
| `turn_host` | 2 prompts, 2 turns, 1 stopper | the races are between one turn, one queued or resumed prompt and one stop; the second turn is the one that must not start; where turns overlap, or may as the first is still to come, there is one text, and once they do there is no stop (`OverlapBound`); the session that is not interactive is followed from its creation; the theorems hold for any number, overlapping turns with a stop included |
| `turn_host_fair` | 2 prompts, 1 turn slot | with one slot the behaviours are those in which no turns overlap (`OneTurnAtATime` says when they do): liveness of a session whose first turn was started beside another is not checked |
| `turn_host_teardown` | 2 prompts, 2 turns, 1 stopper | one turn is enough for the counterexample |
| `transcript_writes` | 4 transcripts | one in flight, one waiting, one that replaces it and one that comes after a failure or a crash; the theorems hold for any number |
| `oauth_refresh` | 2 managers, 2 of 3 calls, 3 credentials | a holder and one who waits for it, or one who joins; a first token, its successor and one of a sign-in or of a second refresh; the theorems hold for any number |
| `plugin_sandbox` | with faults 2 calls and 3 children, without them 3 calls and 2 children | two calls meet in one initialization; one child that goes, one that is current, and one for the retry; the theorems hold for any number |
| `session_control` | 3 flows, 3 session objects, 1 cancel, 1 reload | a rebuild, a message that waits for it and one sent before; with a reload two flows (`FlowBound`); objects are the one replaced, its replacement and one more; 1.7 million states; the theorems, one for each property, hold for any number |

`MaxSent`, `MaxSteers`, `MaxContents`, `MaxIssued`, `MaxSessions`, `MaxCancels` and
`MaxReloads` bound prompts, steering messages,
transcripts, credentials, session objects, cancels and changes of the tools in the guards of the actions that create them. Symmetry is used for
turns, texts and flows in safety runs only. Deadlock is checked except in
`oauth_refresh` and `plugin_sandbox`, where all calls may have been made and the
processes be gone; `SessionControl` says with `Quiet` when it may stop. `SessionRuntime` is unbounded in the
number of runs: its state returns to idle.

## 5. Fairness

Where fairness is assumed, it is of what goes on by itself and never of users, aborts
and closers; it is weak everywhere but in `OAuthRefresh`.

- `SessionRuntime`: `WF(Progress)`: an active run is worked on. Its awaits are the
  model's (requests time out), the trackers' and the recovery hook's.
- `AgentLoop`: `WF(Progress)`: the model answers or times out, hooks, listeners and
  tools return. A tool that ignores its abort signal and never returns would make
  the run hang in the code too; that is an assumption about tools.
- `TurnHost`: `WF(Internal)`: microtasks run, awaits complete. Failing awaits
  (`Chance`) are possible and never required.
- `TranscriptWrites`: `WF(WriteStep)`: a file system call returns or throws.
- `OAuthRefresh`: `SF(Resolve(m))` for each manager: the event loop of its process
  serves callbacks in turn, so what is due between other stretches again and again is
  not passed over for ever; the server answers or the request times out. A holder in
  a process that dies needs none.
- `PluginSandbox`: `WF` of each continuation, of the timer of each request, of the end
  of the grace time and of the exit of a killed child. A child owes no answer when
  `failing`: the timeouts alone answer the calls. With idle reclaim only, the child
  answers.
- `SessionControl`: none; its properties are safety. Its pending reload is never
  stranded, which needs no fairness to state.

For the first four it is fairness of the disjunction, not of every action, because in
one event loop nothing else than the queue of microtasks and completed I/O decides what
comes next, and the properties do not need more.

## 6. Disagreements found

**A run that throws before its `try` wedges the session** (`session_runtime_wedged`).
`executeRunInternal` sets `running` at line 636 of the orchestrator and awaits extension
setup, user content and the system prompt; the `try` whose `finally` resets it begins
at line 814. After a throw in between `canStartRun` is false for good, though its
comment says "True when no run is currently active and the session is not shut down."

**A first prompt does not look whether a turn is in flight** (`crossed` in `TurnHost`).
`startResolvedSession` puts the session in the map at line 843 of the host, awaits the git
metadata of a resumed session or the row and the messages of a seeded one, and hands the
first prompt to `startTurn` at line 872 without the check `runTurn` makes. A send of that
time has started a turn by then: there are two, and `activeTurn`, which "Includes input
preparation, recovery and persistence, not just model execution"
(`types/session.ts:30`), is only the later one, so that neither cancel nor stop sees the
other. The agent refuses the second of the two that calls it, and the catch of
`runSessionTurn` then fails the whole session. In the same way `startTurn` clears
`aborting` and `pendingPromptsPaused`: an abort in that time is forgotten. `turn_host`
ends in this counterexample, three states long, when `~crossed` is taken out of
`OneTurnAtATime`.

**A prompt that ran can be queued again** (`again` in `TurnHost`). `drain` gives a prompt
back whenever its turn rejects. A cancelled turn that ran rejects when the status write at
the end of `completeAbortedInteractiveTurn` (`turn-execution.ts:197`) fails: the prompt is
in the transcript and in front of the queue. The comment at
`pending-prompt-service.ts:356` says of a turn that ran that "the prompt is in the
conversation [...], so the entry is not requeued", which the code does for turns that
resolve. `turn_host` ends in this counterexample, ten states long, when `again` is taken
out of `EveryPromptOnce`.

**A stop can tear down under a run** (`turn_host_teardown`). `shutdownSession`
aborts the agent only if it has a run when line 1546 of the host looks. A turn that is
still being prepared has none; its run starts while the shutdown refreshes the git
metadata and writes the status, `agent.shutdown` refuses, the refusal is recorded
as a cleanup error, and tools and sandbox go. The comment at line 1539 says "Drain
an in-flight run before tearing anything down."

**A run can end with a tool at work** (`agent_loop_pending`). `Promise.all` over a
group of parallel calls rejects with the first that throws. A test of the host
(`local-runtime-host.test.ts`, line 6573) relies on "the sandbox is only killed once
no tool call can be pending."

**A deleted session's transcript can come back** (`transcript_writes_orphan`). The
check for a row or a manifest precedes the coalescer and the write; a write that has
passed it creates the directory again after `deleteSession` removed it. The comment
of `resolveSessionRow` says "Sessions with neither a row nor a manifest throw so
message writes cannot silently recreate orphaned session files."

The following have no run of their own. Each was met in a counterexample of an earlier
form of a property, which now names the exception, or while translating the code.

- *OAuth.* A caller that was refused with a token joins an unforced resolution in flight
  (`runtime-oauth-token-manager.ts:83`) and may be given the refused token again
  (`Join`). A sign-out of another process between the check after the refresh and the
  save is overwritten, though the comment at line 158 says "Never resurrect/overwrite
  credentials it replaced."; `NeverResurrects` holds with the user in the only process,
  and the theorem says so with `OneUserProcess`.
- *A completion ends the turn after it.* The host drains its queue before the promise of
  the previous turn's send settles; its completion then marks the session idle while
  the queued turn runs (the comment at `sdk-session-event-coordinator.ts:141` admits the
  flag), and a pending reload replaces the session under the turn, though the scheduler
  says it drains rebuilds "only while the session is idle". `SettleSparesOthers` speaks
  of turns of messages.
- *A mode toggled behind an operation's back.* While a rebuild or a resume has no active
  session, a toggle only changes the setting (`sdk-mode-coordinator.ts:218`); the
  session that starts keeps the other mode until the next toggle (`unseen`).
- *An executed plan ignores a cancel.* With typed text `sdk-mode-coordinator.ts:354`
  resolves mentions and sends without looking at the cancellation again.
- *The abort of a mode switch lets messages go on.* It marks the session idle
  (lines 423-433) but cancels no prepared or outbound send: such a message starts a
  turn in the session that is about to be replaced, or in its replacement. A send that
  waits in the host for the aborted turn to end goes on too when the end of that turn
  makes the session idle. The late completion of such a message's send may mark another
  message's turn idle, and with a
  bare Resume its words may be delivered twice, though the follow-up coordinator says
  "A bare Resume must deliver it once" (`strays`).
- *Navigation.* `fireAndForgetSend` and the end of a rebuild look at whatever session is
  displayed by then; opening another task meanwhile is not modelled.

Two more concern the records: a write between the deletion of row and manifest puts the row back (a
session without files in the history), and the file-backed store never removes the
rows of child sessions, because the cascading delete returns early when the parent's
row is gone, and it always is.

## 7. What is proved

Every safety property of the runs that pass is a theorem. The theorems hold for every
value of the constants that satisfies the named assumptions of the module. Each invariant
was checked by TLC before it was proved.

**`SessionRuntimeProofs`** (`MaxRecovery` a positive natural, `HasRecovery` Boolean,
any set of closers). `IInv` is the type invariant, the two checked invariants and
- `PhaseInv`: the promise exists exactly while `pc` is not idle; `running` is set
  while an attempt lives and reset in the gaps. Without it `ShutdownOnlyWhenIdle`
  is not inductive: `Busy` looks at the flags, the property at the run.
- `FailureInv`: while a failed attempt is undecided its report is held back (with
  recovery) or made (without); in every other phase nothing was reported.
Theorems: `TypeCorrect`, `ShutdownWaits`, `AbortsReachTheLoop`,
`FailuresReportedOnce`, `NoAttemptAfterAnAbort`.

**`AgentLoopProofs`** (any tools, any answers whose calls have distinct ids, any
bounds). `IInv` is the type invariant with
- `OpenInv`: calls are open only while they are prepared or executed, or after the
  run has failed;
- `SteerInv`: no more steering messages wait than were sent;
- `RequestInv`: each request was paid for by the turn, a retry or the one recovery;
- `OrderInv`: calls are taken up in the order of the answer, and those active
  together are parallel. `SequentialAlone` speaks only of executing calls; a call
  that is announced will execute, so the invariant covers it too.
Theorems: `TypeCorrect`, `TranscriptsClosed`, `SequentialToolsAlone`,
`RequestsAreBounded`, `AbortedRunsStartNothing`. `SteerReachesModel` adds `SteerCuts`: a
message that still waits while a later turn's request is under way has notified it. That
holds as long as one message was sent, which is the bound of the run too: the service keeps
no count of its notifications, and the theorem says `steered <= 1`.

**`PendingPromptsProofs`** (queues of any length over any ids and texts). What each
operation does to the ids of a queue without duplicates: `DeleteIds` removes the one id and
no other, `UpdateIds` keeps them all, `ConsumeIds` removes the entry it hands out,
`EnqueueIds` adds the new id or, when the text merges, keeps the ids. In each case the
result has no duplicates. The ledger of `TurnHostProofs` rests on these four.

**`TurnHostProofs`** (any number of prompts, texts, turns and stops; the agent under
`RecoveryAssumption`, which is what `SessionRuntime` assumes of its constants). `IInv` is
the typing of the host and
- `AgentInv`, the invariant of `SessionRuntimeProofs`. Every step of the host is an operation
  of the agent, a step of its run or leaves the agent alone (`AgentMoves`), so that
  invariant is inherited and not proved again. `AgentIsRuntime` states the same as a
  refinement: `Spec => RT!Spec`;
- `RunInv`: a run belongs to one turn, and a cancel that reached the turn is with the agent
  or with the signal the agent has yet to attach. `CancelReachesRun` looks at `looping`
  only and is not inductive without it;
- `ActiveInv` and `PhaseInv`: what `activeTurn` and the phase of a turn say about the session,
  until `crossed`;
- `LedgerInv`: ids are unique in the queue and among the waiting sends, each is in one place
  but those in `again`, and two turns in flight never hold the same;
- `NoStrandedPrompt` itself.
Theorems: `TypeCorrect`, `OneTurn`, `NoneStranded`, `EachPromptOnce`, `CancelsReachTheRun`,
`HoldReleased`, `AgentIsRuntime`. Only `OneTurn` and `NoneStranded` are excused by `crossed`;
the others hold for overlapping turns as well. That `StartFirst` alone sets `crossed` and
`TidyFails` alone adds to `again` is plain from the module: no other action changes them.

**`PluginSandboxProofs`** (any number of calls and children). The invariant has two parts.
`Base` holds whatever fails: callers and `reinitPromise` wait for one request each
(`Requested`), those told to go still run (`DismissedRun`), the current child was not
killed, a child without requests is timed also while a continuation is due (`Timed`). `Calm`
holds until the first timeout, crash or shutdown: `Transport` (requests on their way are
pending with the current child and at one place only), `Answers` (an "unknown plugin" comes
before the answer to initialize and only to first calls) and `Sequel` (who is told so joins
an initialization, who retries has a child that is ready, nobody failed).
`ReplacedSilently` says what nobody is told; `Calm` says why. Theorems:
`SandboxInvariant`, `NoChildLeft`, `IdleChildrenTimed`, `InitializedOnce`,
`ReclaimsUnnoticed`, `RequestsToTheLiving`.

**`TranscriptWritesProofs`** (any number of transcripts). `IInv` says that nobody
waits and nothing is left to write without a pending write (`NoneForgotten`), that
the transcript in flight is newer than the stored one until it is renamed
(`InflightNewer`), that `latest` is newer than what is in flight (`LatestNewer`)
and that everyone who waits is covered by one of them (`WaitersCovered`). The last
is what makes "done" true: when the loop ends, `latest` is empty, so all who wait
are covered by the write that was just renamed. Theorems: `TypeCorrect`,
`Durability`, `Monotonicity` and `Refinement`: the initial states map to the initial
state of `DurableTranscript`, `Rename` to `Store`, `AllWritten` and `WriteFails` to
`Settle`, the calls to `Hand` and `Refuse`, `Crash` to `Crash`, and the rest to
stutters.

**`SessionControlProofs`** (any set of flows, any number of session objects, cancels and
reloads). `IInv` is the typing of what matters with
- `Section`: a thread where the section is needed has it (`Holds`); what it may count
  on there (`Counts`): between the stop and the start nothing is active, at the start no
  stop is under way, until the replacement the active object is the one it found and
  the previous mode is that object's; and mode and session agree unless a switch in the
  section has set the one and not yet replaced the other (`Agreed`);
- `StopsInv`: while a session is active no stop is under way, and there is one at most;
- `NoStrandedReload` itself.
`Counts` is what the awaits of the code rely on without saying so; without it
`ModeMatchesSession` is not inductive, as a refused switch restores the mode it
remembers. Theorems: `ControlInvariant`, `StopsComeFirst`, `ModesAgree`,
`NoReloadStranded`, and `SectionExclusive`: no two operations replace, start or resume
a session at once.

The messages need a second invariant beside it, `MInv` (`MessagesInOrder`). Of messages that
are not strays it says
- `WayInv` and `OneBusy`: at most one is on its way or has the turn, and the session runs;
- `SettlingInv`, `AbortPending`, `ResumeQuiet`: whoever found the session idle, aborted a
  turn or resumes a conversation is alone with it;
- `OverInv`: while a send is over and still to settle, the host has no turn of another and
  none waits there, unless it has lost the session;
- `WordsInv`: the words of a flow are its own until it sent them, and once handed over they
  are neither remembered nor carried by another that is still to send;
- `CancelsInv`: a send whose session has seen no cancel since belongs to a message that
  has seen none either, unless it is of an executed plan;
and of all of them what their operation and stage imply (`ThreadShapes`, `SendsInv`).
Theorems: `SettlesSpareOthers`, `CancelledAreNotSent`, `WordsHandedOnce`.

The proof corrected the model. `SettleSparesOthers` and `HandedOnce` passed the run with
three operations, but their step did not go through, and TLC found counterexamples with four
and five: a send that waited for an aborted turn while a mode switch made the session idle.
Such a send is a stray like those being prepared, and is now counted as one (section 6).

**`OAuthRefreshProofs`** (any processes, managers and calls, any of which may die). `IInv`
is the type invariant, which says that the manager past the lock's entry is the one
that holds it, with
- `IssuedInv`: nobody holds credentials that are not issued, so a new one is unspent;
- `RotatedInv`: what was rotated is spent, its successor is not, and only that is saved;
- `StoredInv`: stored credentials are good, or their successor is lost (a failed save
  included) or about to be saved by the holder; so whoever enters next presents nothing spent.
Theorems: `RefreshInvariant`, `NoTokenSpentTwice`, `AnswersWereStored`. Under
`OneUserProcess` (the user signs in and out in the only process, or not at all)
`StretchInv` (what a stretch saw of the file still holds) and `ForcedInv` (a forced
resolution has a caller that was refused with the token it found) are added, which
gives `NothingResurrected` and `NothingNeedless`. The assumption is needed: section 6.

## 8. What is only model-checked

- Every liveness property: `ShutdownAnswered`, `RunEnds`, `QueueServed`,
  `CancelSettles`, `CallersAnswered`, `LockGivenBack`, `CallsAnswered`. Liveness under
  fairness needs ENABLED, which the prover does not handle.
- What recursive definitions compute for all inputs would need induction over data,
  which is out of the prover's reach; no module here declares a RECURSIVE operator.

## 9. What is not modelled

- Message contents, usage, cost, titles, formatting, logging, telemetry: data that
  no property tells apart.
- `startSession` and `restore` up to the moment the session is in the map, history
  queries, sub-agent bookkeeping, approvals.
- Power loss. `writeFileAtomic` syncs the temporary file and, best-effort, the
  directory; where the directory cannot be synced a rename may be undone by a power
  failure after its caller was told "done".
- Two processes writing one session's transcript: the coalescer is per process.
- Opening and clearing tasks, background sessions, checkpoint restore, approvals and
  side questions of the displayed session; the passive rebuilds for terminal mode,
  credentials and tuning, which take the path of the MCP reload. The resolver of
  mentions catches its errors, so a failing one is not modelled. One conversation is
  displayed throughout.
- Login flows (browser, device code) and providers whose refresh token does not rotate;
  the bytes of the settings file.
- What plugins do and the events they emit; the import of plugin modules and the first
  initialization with its conflict checks.
- A caller that never stops handing over transcripts delays the answer of all: the
  shared promise settles when `latest` is empty. The bound on transcripts excludes it.
- The parts of section 1 whose status in `PROJECT.json` is `not_modelled`: pure
  transformations (compaction, message building, provider adapters), the interface,
  and what lies behind calls of VS Code, git and the shell. The protocols among them
  (MCP reconnect, CI watch, router) are in the plan.

## 10. Plan

Done: `SessionRuntime`, `PendingPrompts`, `TurnHost`, `AgentLoop`,
`TranscriptWrites` with `DurableTranscript`, `OAuthRefresh`, `PluginSandbox`,
`SessionControl`, and their runs; proofs of every safety property they check.

Next, in this order:

1. `SessionRecord`: the status of a session in row (optimistic lock with retries),
   manifest (the mutation queue and the writers outside it) and memory, with the
   approvals that set it to "pending". Properties: the copies agree when nothing is
   in flight; a field written by one writer survives the others.
2. `AgentAttempt`: the contract `SessionRuntime` assumes of a loop (begins, takes an
   abort, ends once with a status) as an abstract specification, implemented by
   `AgentLoop` under a refinement mapping; and `SessionControl`'s view of the host as
   one implemented by `TurnHost`.
3. `ChildSessions`: the cascade of a deletion, status of children after their parent's
   end.
4. Navigation between tasks, background sessions and restore in `SessionControl`;
   `McpReconnect`, `CiWatch` with its auto-runner, the router's failover budget.
