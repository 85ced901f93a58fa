---------------------------- MODULE SessionControl ----------------------------
(***************************************************************************)
(* The VS Code extension's control of one displayed conversation: the      *)
(* active session object (sdk-session-lifecycle.ts), the scheduler that    *)
(* lets one operation at a time replace it                                 *)
(* (sdk-session-rebuild-scheduler.ts), the mode switch                     *)
(* (sdk-mode-coordinator.ts), the silent reload of MCP tools               *)
(* (sdk-mcp-coordinator.ts), follow-ups (sdk-followup-coordinator.ts) and  *)
(* the cancel (sdk-task-control-coordinator.ts).                           *)
(*                                                                         *)
(* Every session object started for the conversation has its session id:   *)
(* the host keeps one session under it, and a stop that is still under way *)
(* takes down whatever is there.  Of the host only that is kept, the turn  *)
(* that runs and the number of prompts in its queue.                       *)
(*                                                                         *)
(* A step is what JavaScript does between two awaits; awaits in a row with *)
(* nothing decided in between are one.  Opening or clearing another task,  *)
(* which does not go through the scheduler, is left out.                   *)
(***************************************************************************)
EXTENDS Naturals, Sequences

CONSTANTS
    Flows,          \* what the user does: a mode switch or a message each
    Reloader,       \* the drain of the scheduler
    Drained,        \* the host, answering a prompt of its queue
    Nobody,
    MaxSessions,    \* bound: session objects
    MaxCancels,     \* bound: cancels
    MaxReloads      \* bound: changes of the MCP tools

ASSUME ControlAssumption ==
    /\ Reloader \notin Flows /\ {Drained, Nobody} \cap (Flows \cup {Reloader}) = {}
    /\ MaxSessions \in Nat \ {0} /\ MaxCancels \in Nat /\ MaxReloads \in Nat

VARIABLES
    mode,           \* the mode setting
    phase,          \* the turn phase: "streaming", "resumable" or another
    active,         \* activeSession: the number of a session object, or 0
    session,        \* the session objects: mode, isRunning, sendVersions
    made,           \* session objects so far
    cancelVersion,  \* cancellationVersion
    cancelling,     \* pendingCancellations has the conversation
    pendingStop,    \* pendingStops: the session of the latest stop, or 0
    unsent,         \* unsentRequests: whose message, or Nobody
    outbound,       \* outboundSends: flows whose sends wait for the editor state
    send,           \* how far the send of a flow is
    handed,         \* history: the messages handed to the host
    thread,         \* how far a flow, or the drain of the scheduler, is
    lock,           \* drainInFlight: who is in the exclusive section, or Nobody
    pending,        \* a reload is pending in the scheduler
    rebuilding,     \* rebuildInFlight: the mode switch others wait for, or Nobody
    reloads,        \* changes of the MCP tools so far
    hosted,         \* the session object the host serves, or 0
    stops,          \* session objects whose stop is under way
    turn,           \* whose message the host's turn answers, Drained, or Nobody
    queue,          \* prompts in the host's queue
    held,           \* an abort holds the queue
    unseen,         \* history: the mode was set behind the back of an operation
    strays          \* history: messages on their way when the session became idle

Objects == 1 .. MaxSessions
Threads == Flows \cup {Reloader}
Modes   == {"plan", "act"}

setting == <<mode, phase, unseen>>
objects == <<active, session, made>>
cancels == <<cancelVersion, cancelling>>
sends   == <<unsent, outbound, send, handed, strays>>
section == <<lock, pending>>
host    == <<hosted, stops, turn, queue, held>>
vars == <<setting, objects, cancels, pendingStop, sends, thread, section, rebuilding,
          reloads, host>>

\* Where a thread waits: "rebuilds" for a mode switch in flight, "lock" for the
\* section, "posting" and "aborting" for the turn a mode switch cancels, "loading"
\* for what a replacement needs, "stopping" and "starting" in startNewSession,
\* "settling" for a cancelled turn, "preparing" for what a resume needs,
\* "mentions" for the text of a message, "leaving" for the last post.
Stages == {"new", "rebuilds", "lock", "posting", "aborting", "loading", "stopping",
           "starting", "settling", "preparing", "mentions", "leaving", "done"}

\* "auto" is autoContinue, "bare" a message without text, "early" one submitted
\* during an active turn, "joins" one that joins the running turn; "carries" is
\* the flow whose words it takes to the host.  The "cv" of a mode switch is there
\* for the properties: the code does not look at it.
NoThread == [op |-> "none", at |-> "new", of |-> 0, mode |-> "act", prev |-> "act", cv |-> 0,
             auto |-> FALSE, bare |-> FALSE, early |-> FALSE, joins |-> FALSE,
             carries |-> Nobody]
\* "on" is the session of the host that took the send.
NoSend == [at |-> "none", of |-> 0, version |-> 0, joins |-> FALSE, carries |-> Nobody,
           on |-> 0]

TypeOK ==
    /\ mode \in Modes
    /\ phase \in {"streaming", "resumable", "other"}
    /\ {cancelling, pending, held, unseen} \subseteq BOOLEAN
    /\ made \in 0 .. MaxSessions /\ {active, hosted, pendingStop} \subseteq 0 .. made
    /\ stops \subseteq 1 .. made
    /\ session \in [Objects -> [mode : Modes, running : BOOLEAN, version : 0 .. MaxCancels]]
    /\ cancelVersion \in 0 .. MaxCancels /\ reloads \in 0 .. MaxReloads
    /\ unsent \in Flows \cup {Nobody} /\ outbound \in Seq(Flows)
    /\ {handed, strays} \subseteq SUBSET Flows
    /\ send \in [Flows -> [at : {"none", "outbound", "waiting", "turn", "ended", "failed",
                                 "aborted", "settled"},
                           of : 0 .. made, version : 0 .. MaxCancels, joins : BOOLEAN,
                           carries : Flows \cup {Nobody}, on : 0 .. made]]
    /\ thread \in [Threads -> [op : {"none", "switch", "follow", "resume", "reload"},
                               at : Stages, of : 0 .. made, mode : Modes, prev : Modes,
                               cv : 0 .. MaxCancels, auto : BOOLEAN, bare : BOOLEAN,
                               early : BOOLEAN, joins : BOOLEAN,
                               carries : Flows \cup {Nobody}]]
    /\ lock \in Threads \cup {Nobody} /\ rebuilding \in Flows \cup {Nobody}
    /\ turn \in Flows \cup {Drained, Nobody} /\ queue \in Nat

\* The conversation has an idle session, or was opened from the history.
Init ==
    /\ mode \in Modes /\ unseen = FALSE /\ strays = {}
    /\ made \in {0, 1} /\ active = made /\ hosted = made
    /\ phase = IF made = 0 THEN "resumable" ELSE "other"
    /\ session = [o \in Objects |-> [mode |-> mode, running |-> FALSE, version |-> 0]]
    /\ cancelVersion = 0 /\ cancelling = FALSE /\ pendingStop = 0
    /\ unsent = Nobody /\ outbound = <<>> /\ handed = {}
    /\ send = [f \in Flows |-> NoSend]
    /\ thread = [t \in Threads |-> NoThread]
    /\ lock = Nobody /\ pending = FALSE /\ rebuilding = Nobody /\ reloads = 0
    /\ stops = {} /\ turn = Nobody /\ queue = 0 /\ held = FALSE

-----------------------------------------------------------------------------
(***************************************************************************)
(* The running flag and the scheduler.                                     *)
(***************************************************************************)
Running == active # 0 /\ session[active].running
Idle    == active # 0 /\ ~session[active].running

Flagged(on) == IF active = 0 THEN session ELSE [session EXCEPT ![active].running = on]

\* drain() takes the pending reload.  Its mode is read before the session is
\* built; no mode switch is in the section by then.
Reload(o) == [NoThread EXCEPT !.op = "reload", !.at = "loading", !.of = o, !.mode = mode]

\* drainIfIdle, in a free section, with the other threads as in th.
Drain(th, due) ==
    /\ thread' = IF due THEN [th EXCEPT ![Reloader] = Reload(active)] ELSE th
    /\ lock' = IF due THEN Reloader ELSE lock
    /\ pending' = (pending /\ ~due)

\* Messages that go on when a cancel, the end of a turn or something else makes the
\* session idle: cancelActiveTurn stops the turn, the sends for the session and the
\* prepared messages, but not the plan that is executed, nor a message that waits in
\* the host for an aborted turn to end.
Astray(by) ==
    strays' = strays \cup IF ~Running THEN {} ELSE
        {f \in Flows :
            \/ send[f].at = "waiting"
            \/ send[f].at = "outbound" /\ ~(by = "cancel" /\ send[f].of = active)
            \/ send[f].at = "turn" /\ by = "other" /\ ~held
            \/ thread[f].at = "mentions" /\ (by = "cancel" => thread[f].op = "switch")}

\* Bug to be caught: the scheduler does not hear of it.
SetIdle_Unreported(th, by) ==
    /\ session' = Flagged(FALSE)
    /\ Drain(th, FALSE)
    /\ Astray(by)

\* setRunning(false): the scheduler hears of a running session that becomes idle.
SetIdle(th, by) ==
    /\ session' = Flagged(FALSE)
    /\ Drain(th, Running /\ pending /\ lock = Nobody)
    /\ Astray(by)

Goes(t, stage) == [thread EXCEPT ![t].at = stage]
Leaves(t) == Goes(t, IF lock = t THEN "leaving" ELSE "done")

\* The finally of runExclusive, or of a drain: a reload that became pending
\* meanwhile goes first.  A drain forgets it when there is no session.
Leave(t) ==
    LET th  == IF t = Reloader THEN [thread EXCEPT ![t] = NoThread] ELSE Goes(t, "done")
        due == pending /\ Idle
    IN  /\ thread[t].at = "leaving"
        /\ thread' = IF due THEN [th EXCEPT ![Reloader] = Reload(active)] ELSE th
        /\ lock' = IF due THEN Reloader ELSE Nobody
        /\ pending' = (pending /\ ~due /\ ~(t = Reloader /\ active = 0))
        /\ rebuilding' = IF rebuilding = t THEN Nobody ELSE rebuilding
        /\ UNCHANGED <<setting, objects, cancels, pendingStop, sends, reloads, host>>

\* Who waits for the section has it before the user or the host's tools do more.
Awake == lock = Nobody /\ \E f \in Flows : thread[f].at = "lock"

\* handleToolListChanged: without a session the next start picks the tools up.
NewTools ==
    LET due == Idle /\ lock = Nobody IN
    /\ reloads < MaxReloads /\ ~Awake
    /\ reloads' = reloads + 1
    /\ thread' = IF due THEN [thread EXCEPT ![Reloader] = Reload(active)] ELSE thread
    /\ lock' = IF due THEN Reloader ELSE lock
    /\ pending' = (pending \/ (active # 0 /\ ~due))
    /\ UNCHANGED <<setting, objects, cancels, pendingStop, sends, rebuilding, host>>

\* fireAndForgetSend, for the session object o of that version: the words of a
\* turn of its own are remembered until they leave.
Sent(f, o, version, joins, carries) ==
    /\ send' = [send EXCEPT ![f] = [at |-> "outbound", of |-> o, version |-> version,
                                    joins |-> joins, carries |-> carries, on |-> 0]]
    /\ outbound' = Append(outbound, f)
    /\ unsent' = IF joins \/ carries = Nobody THEN unsent ELSE carries
    /\ UNCHANGED <<handed, strays>>

-----------------------------------------------------------------------------
(***************************************************************************)
(* A mode switch.                                                          *)
(***************************************************************************)
\* performRebuildSessionForMode up to its first await, for a thread r of flow f.
Rebuild(f, r) ==
    /\ lock' = f
    /\ mode' = r.mode
    /\ thread' = [thread EXCEPT ![f] =
         IF active = 0 THEN [r EXCEPT !.at = "leaving"]
         ELSE [r EXCEPT !.prev = mode, !.of = active,
                        !.at = IF Running THEN "posting" ELSE "loading"]]

\* togglePlanActMode: a presented plan is executed from an idle session only,
\* with the user's words or with the canned prompt.
Switch(f, m, auto, bare) ==
    LET r == [NoThread EXCEPT !.op = "switch", !.at = "lock", !.mode = m, !.auto = auto,
                              !.cv = cancelVersion, !.bare = bare,
                              !.carries = IF auto /\ ~bare THEN f ELSE Nobody]
    IN
    /\ thread[f].at = "new" /\ m # mode /\ ~Awake
    /\ (auto => m = "act" /\ Idle /\ phase = "other") /\ (bare => auto)
    /\ IF active = 0
       THEN /\ mode' = m
            /\ unseen' = (unseen \/ lock # Nobody)
            /\ thread' = Goes(f, "done")
            /\ UNCHANGED <<lock, rebuilding>>
       ELSE /\ rebuilding' = f
            /\ IF lock = Nobody THEN Rebuild(f, r)
               ELSE thread' = [thread EXCEPT ![f] = r] /\ UNCHANGED <<mode, lock>>
            /\ UNCHANGED unseen
    /\ UNCHANGED <<phase, objects, cancels, pendingStop, sends, pending, reloads, host>>

EnterSwitch(f) ==
    /\ thread[f].op = "switch" /\ thread[f].at = "lock" /\ lock = Nobody
    /\ Rebuild(f, thread[f])
    /\ UNCHANGED <<phase, unseen, objects, cancels, pendingStop, sends, pending,
                   rebuilding, reloads, host>>

\* The turn that ran is aborted, and the session is idle when that is answered.
AbortForSwitch(f) ==
    /\ thread[f].at = "posting"
    /\ thread' = Goes(f, "aborting")
    /\ held' = (held \/ hosted # 0)
    /\ UNCHANGED <<setting, objects, cancels, pendingStop, sends, section, rebuilding,
                   reloads, hosted, stops, turn, queue>>

Unwinding == held /\ turn # Nobody

Aborted(f) ==
    /\ thread[f].at = "aborting" /\ ~Unwinding
    /\ SetIdle(Goes(f, "loading"), "other")
    /\ phase' = "resumable"
    /\ UNCHANGED <<mode, unseen, active, made, cancels, pendingStop, unsent, outbound,
                   send, handed, rebuilding, reloads, host>>

-----------------------------------------------------------------------------
(***************************************************************************)
(* Replacing the session, for a mode switch or a reload, and starting one. *)
(***************************************************************************)
Replacers == {"switch", "reload"}

\* Its messages or its configuration cannot be loaded.
LoadFails(t) ==
    /\ thread[t].op \in Replacers /\ thread[t].at = "loading"
    /\ mode' = IF thread[t].op = "switch" THEN thread[t].prev ELSE mode
    /\ thread' = Goes(t, "leaving")
    /\ UNCHANGED <<phase, unseen, objects, cancels, pendingStop, sends, section,
                   rebuilding, reloads, host>>

\* Bug to be caught: a refused switch keeps its mode.
Refused_ModeKept(t) ==
    /\ thread[t].op \in Replacers /\ thread[t].at = "loading"
    /\ active # thread[t].of \/ Running
    /\ thread' = Goes(t, "leaving")
    /\ UNCHANGED <<setting, objects, cancels, pendingStop, sends, section, rebuilding,
                   reloads, host>>

\* replaceActiveSession refuses: a turn runs again, or another session is there.
\* A mode switch whose session is still there goes back to its mode.
Refused(t) ==
    /\ thread[t].op \in Replacers /\ thread[t].at = "loading"
    /\ active # thread[t].of \/ Running
    /\ mode' = IF thread[t].op = "switch" /\ active = thread[t].of THEN thread[t].prev ELSE mode
    /\ thread' = Goes(t, "leaving")
    /\ UNCHANGED <<phase, unseen, objects, cancels, pendingStop, sends, section,
                   rebuilding, reloads, host>>

\* endActiveSession: the object goes, its stop is on its way.
EndActive ==
    /\ active' = 0
    /\ unsent' = Nobody
    /\ stops' = stops \cup {active}
    /\ pendingStop' = active
    /\ held' = (held \/ turn # Nobody)

Replace(t) ==
    /\ thread[t].op \in Replacers /\ thread[t].at = "loading"
    /\ active = thread[t].of /\ Idle
    /\ EndActive
    /\ thread' = Goes(t, "stopping")
    /\ UNCHANGED <<setting, session, made, cancels, outbound, send, handed, strays,
                   section, rebuilding, reloads, hosted, turn, queue>>

\* Bug to be caught: it does not wait.
Stopped_Unawaited(t) ==
    /\ thread[t].at = "stopping"
    /\ thread' = Goes(t, "starting")
    /\ UNCHANGED <<setting, objects, cancels, pendingStop, sends, section, rebuilding,
                   reloads, host>>

\* startNewSession: a start under the same id waits for the stop.
Stopped(t) ==
    /\ thread[t].at = "stopping" /\ pendingStop = 0
    /\ thread' = Goes(t, "starting")
    /\ UNCHANGED <<setting, objects, cancels, pendingStop, sends, section, rebuilding,
                   reloads, host>>

\* The host has the session.  A replaced one is idle, unless the presented plan is
\* executed, at once when the prompt is the canned one; a resumed one runs unless
\* the user has cancelled.
Started(t) ==
    LET r    == thread[t]
        new  == made + 1
        runs == IF r.op = "resume" THEN r.cv = cancelVersion ELSE r.auto
    IN
    /\ r.at = "starting" /\ made < MaxSessions
    /\ made' = new /\ active' = new /\ hosted' = new
    /\ session' = [session EXCEPT ![new] = [mode |-> r.mode, running |-> runs, version |-> 0]]
    /\ turn' = Nobody /\ queue' = 0 /\ held' = FALSE
    /\ phase' = IF r.auto THEN "streaming" ELSE phase
    /\ thread' = [thread EXCEPT ![t].of = new,
                                ![t].at = IF runs /\ ~(r.auto /\ r.bare) THEN "mentions"
                                          ELSE "leaving"]
    /\ IF r.auto /\ r.bare THEN Sent(t, new, 0, FALSE, Nobody) ELSE UNCHANGED sends
    /\ UNCHANGED <<mode, unseen, cancels, pendingStop, section, rebuilding, reloads,
                   stops>>

\* No session is left; the setting of a mode switch goes back.
StartFails(t) ==
    /\ thread[t].at = "starting"
    /\ mode' = IF thread[t].op = "switch" THEN thread[t].prev ELSE mode
    /\ phase' = IF thread[t].op = "resume" THEN "other" ELSE phase
    /\ thread' = Goes(t, "leaving")
    /\ UNCHANGED <<unseen, objects, cancels, pendingStop, sends, section, rebuilding,
                   reloads, host>>

-----------------------------------------------------------------------------
(***************************************************************************)
(* A message of the user.                                                  *)
(***************************************************************************)
Cancelled(f) == thread[f].cv # cancelVersion

Message(f, bare) ==
    [NoThread EXCEPT !.op = "follow", !.cv = cancelVersion, !.bare = bare,
                     !.carries = IF bare THEN Nobody ELSE f]

\* askResponse of the controller and of the coordinator: the phase is "streaming"
\* at once, and a message for a running turn joins it.  Only a resumable conversation
\* offers the bare Resume.
Follow(f, bare) ==
    LET joins == active # 0 /\ (Running \/ phase = "streaming") IN
    /\ thread[f].at = "new" /\ ~Awake
    /\ bare => phase = "resumable"
    /\ phase' = "streaming"
    /\ session' = IF joins THEN Flagged(TRUE) ELSE session
    /\ thread' = [thread EXCEPT ![f] = [Message(f, bare) EXCEPT
                    !.at = IF joins THEN "mentions" ELSE "rebuilds",
                    !.joins = joins, !.early = (phase = "streaming")]]
    /\ UNCHANGED <<mode, unseen, active, made, cancels, pendingStop, sends, section,
                   rebuilding, reloads, host>>

Waited(f) ==
    /\ thread[f].at = "rebuilds" /\ rebuilding = Nobody /\ lock = Nobody
    /\ thread' = Goes(f, IF Cancelled(f) THEN "done" ELSE "lock")
    /\ UNCHANGED <<setting, objects, cancels, pendingStop, sends, section, rebuilding,
                   reloads, host>>

\* In the section: a turn that runs is joined, an idle session goes on, and without
\* one the conversation is resumed, in the mode of the setting.
EnterFollow(f) ==
    LET joins == active # 0 /\ (Running \/ thread[f].early)
        at    == CASE Cancelled(f) -> "leaving"
                   [] ~Cancelled(f) /\ joins -> "mentions"
                   [] ~Cancelled(f) /\ ~joins /\ active # 0 -> "settling"
                   [] OTHER -> "preparing"
    IN
    /\ thread[f].op = "follow" /\ thread[f].at = "lock" /\ lock = Nobody
    /\ lock' = f
    /\ session' = IF at = "mentions" THEN Flagged(TRUE) ELSE session
    /\ thread' = [thread EXCEPT ![f].at = at, ![f].of = active, ![f].joins = joins,
                                ![f].op = IF at = "preparing" THEN "resume" ELSE "follow"]
    /\ UNCHANGED <<setting, active, made, cancels, pendingStop, sends, pending,
                   rebuilding, reloads, host>>

\* continueIdleSession: a bare Resume takes the words that never left.
Settled(f) ==
    /\ thread[f].at = "settling" /\ ~cancelling
    /\ IF Cancelled(f) \/ active # thread[f].of
       THEN thread' = Goes(f, "leaving") /\ UNCHANGED session
       ELSE /\ session' = Flagged(TRUE)
            /\ thread' = [thread EXCEPT ![f].at = "mentions",
                 ![f].carries = IF thread[f].bare THEN unsent ELSE f]
    /\ UNCHANGED <<setting, active, made, cancels, pendingStop, sends, section,
                   rebuilding, reloads, host>>

\* resumeSessionFromTask, up to the start: a cancel abandons it.
Prepared(f) ==
    /\ thread[f].at = "preparing"
    /\ thread' = [thread EXCEPT ![f].at = IF Cancelled(f) THEN "leaving" ELSE "stopping",
                                ![f].mode = mode]
    /\ phase' = IF Cancelled(f) /\ phase = "streaming" THEN "other" ELSE phase
    /\ UNCHANGED <<mode, unseen, objects, cancels, pendingStop, sends, section,
                   rebuilding, reloads, host>>

\* What it needs cannot be read.
PrepareFails(f) ==
    /\ thread[f].at = "preparing"
    /\ thread' = Goes(f, "leaving")
    /\ phase' = "other"
    /\ UNCHANGED <<mode, unseen, objects, cancels, pendingStop, sends, section,
                   rebuilding, reloads, host>>

Submit(f) ==
    /\ thread' = Leaves(f)
    /\ Sent(f, active, IF active = 0 THEN 0 ELSE session[active].version,
            thread[f].joins, thread[f].carries)
    /\ UNCHANGED <<setting, objects, cancels, pendingStop, section, rebuilding, reloads,
                   host>>

\* Bug to be caught: a cancel while the text was prepared goes unnoticed.
TextReady_Unchecked(f) ==
    /\ thread[f].at = "mentions"
    /\ Submit(f)

\* The text is ready.  Only the plan that is executed does not look for a cancel.
TextReady(f) ==
    /\ thread[f].at = "mentions"
    /\ thread[f].op = "switch" \/ ~Cancelled(f)
    /\ Submit(f)

TextCancelled(f) ==
    /\ thread[f].at = "mentions" /\ thread[f].op # "switch" /\ Cancelled(f)
    /\ IF thread[f].op = "resume" THEN SetIdle(Leaves(f), "other")
       ELSE thread' = Leaves(f) /\ UNCHANGED <<session, section, strays>>
    /\ UNCHANGED <<setting, active, made, cancels, pendingStop, unsent, outbound, send,
                   handed, rebuilding, reloads, host>>

\* The history of a resumed conversation cannot be updated: its session is ended.
ResumeFails(f) ==
    /\ thread[f].at = "mentions" /\ thread[f].op = "resume"
    /\ EndActive
    /\ thread' = Goes(f, "leaving")
    /\ phase' = "other"
    /\ UNCHANGED <<mode, unseen, session, made, cancels, outbound, send, handed, strays,
                   section, rebuilding, reloads, hosted, turn, queue>>

-----------------------------------------------------------------------------
(***************************************************************************)
(* Sends leave one at a time, and the host answers them.                   *)
(***************************************************************************)
SendCancelled(f) ==
    send[f].of # 0 /\ session[send[f].of].version # send[f].version

\* The host's promise is answered, rejected, or rejected because of an abort.
Over == {"ended", "failed", "aborted"}

Given(f) == handed' = handed \cup ({send[f].carries} \ {Nobody})

\* The host's answer to a send that starts a turn.
Answered(f) ==
    /\ send' = [send EXCEPT ![f].at =
         CASE hosted = 0 -> "failed"
           [] hosted # 0 /\ turn = Nobody -> "turn"
           [] hosted # 0 /\ Unwinding -> "waiting"
           [] OTHER -> "ended", ![f].on = hosted]
    /\ IF hosted # 0 /\ turn = Nobody THEN turn' = f /\ held' = FALSE
       ELSE UNCHANGED <<turn, held>>
    /\ queue' = IF hosted # 0 /\ turn # Nobody /\ ~Unwinding THEN queue + 1 ELSE queue

\* The answer to one that joins the host's queue.
Joined(f) ==
    /\ send' = [send EXCEPT ![f].at = IF hosted = 0 THEN "failed" ELSE "settled"]
    /\ queue' = IF hosted = 0 THEN queue ELSE queue + 1
    /\ UNCHANGED <<turn, held>>

\* Bug to be caught: the words that leave are still remembered as unsent.
SendLeaves_Remembered ==
    LET f == Head(outbound) IN
    /\ outbound # <<>>
    /\ \A g \in Flows : send[g].at \in Over => SendCancelled(g) \/ send[g].of # active
    /\ outbound' = Tail(outbound)
    /\ IF SendCancelled(f)
       THEN /\ send' = [send EXCEPT ![f].at = "settled"]
            /\ UNCHANGED <<handed, turn, queue, held>>
       ELSE Given(f) /\ IF send[f].joins THEN Joined(f) ELSE Answered(f)
    /\ UNCHANGED <<setting, objects, cancels, pendingStop, unsent, strays, thread,
                   section, rebuilding, reloads, hosted, stops>>

\* The editor state is read for the first send of the chain.  The callbacks of a
\* send that is over have run by then, but those of a cancelled or replaced one may
\* be late.
SendLeaves ==
    LET f == Head(outbound) IN
    /\ outbound # <<>>
    /\ \A g \in Flows : send[g].at \in Over => SendCancelled(g) \/ send[g].of # active
    /\ outbound' = Tail(outbound)
    /\ IF SendCancelled(f)
       THEN /\ send' = [send EXCEPT ![f].at = "settled"]
            /\ UNCHANGED <<unsent, handed, turn, queue, held>>
       ELSE /\ unsent' = IF send[f].joins THEN unsent ELSE Nobody
            /\ Given(f)
            /\ IF send[f].joins THEN Joined(f) ELSE Answered(f)
    /\ UNCHANGED <<setting, objects, cancels, pendingStop, strays, thread, section,
                   rebuilding, reloads, hosted, stops>>

\* A send that waited for an aborted turn to end goes on with the session it had:
\* when that was stopped meanwhile it is queued by its id, in the one that is there.
HostResumes(f) ==
    /\ send[f].at = "waiting"
    /\ \/ send[f].on = hosted /\ ~Unwinding /\ Answered(f)
       \/ /\ send[f].on # hosted
          /\ send' = [send EXCEPT ![f].at = "ended"]
          /\ queue' = IF hosted = 0 THEN queue ELSE queue + 1
          /\ UNCHANGED <<turn, held>>
    /\ UNCHANGED <<setting, objects, cancels, pendingStop, unsent, outbound, handed,
                   strays, thread, section, rebuilding, reloads, hosted, stops>>

\* The host's turn ends, and the extension hears of it, unless it is cancelling.
TurnOver(outcome) ==
    /\ turn' = Nobody
    /\ send' = IF turn \in Flows THEN [send EXCEPT ![turn].at = outcome] ELSE send
    /\ IF active # 0 /\ ~cancelling
       THEN /\ SetIdle(thread, "turn")
            /\ phase' = IF ~Running /\ phase = "resumable" THEN phase ELSE "other"
       ELSE UNCHANGED <<session, thread, section, phase, strays>>
    /\ UNCHANGED <<mode, unseen, active, made, cancels, pendingStop, unsent, outbound,
                   handed, rebuilding, reloads, stops>>

TurnEnds ==
    /\ turn # Nobody
    /\ \E outcome \in IF held THEN {"ended", "aborted"} ELSE {"ended"} : TurnOver(outcome)
    /\ UNCHANGED <<hosted, queue, held>>

\* A turn that throws takes the session of the host down.
TurnFails ==
    /\ turn # Nobody /\ ~held
    /\ TurnOver("failed")
    /\ hosted' = 0 /\ queue' = 0 /\ held' = FALSE

\* The host turns to its queue: pending_prompt_submitted.
DrainQueue ==
    /\ hosted # 0 /\ turn = Nobody /\ queue > 0 /\ ~held
    /\ turn' = Drained /\ queue' = queue - 1
    /\ session' = Flagged(TRUE)
    /\ phase' = IF active = 0 THEN phase ELSE "streaming"
    /\ UNCHANGED <<mode, unseen, active, made, cancels, pendingStop, sends, thread,
                   section, rebuilding, reloads, hosted, stops, held>>

\* The stop of the session object o: whatever the host has is taken down.
StopDone(o) ==
    /\ o \in stops
    /\ stops' = stops \ {o}
    /\ pendingStop' = IF pendingStop = o THEN 0 ELSE pendingStop
    /\ hosted' = 0 /\ turn' = Nobody /\ queue' = 0 /\ held' = FALSE
    /\ \E outcome \in {"ended", "aborted"} :
         send' = IF turn \in Flows THEN [send EXCEPT ![turn].at = outcome] ELSE send
    /\ UNCHANGED <<setting, objects, cancels, unsent, outbound, handed, strays, thread,
                   section, rebuilding, reloads>>

\* Bug to be caught: sessions are compared by their id, which all of them have.
Superseded_ById(f) == SendCancelled(f)

Superseded(f) == SendCancelled(f) \/ active # send[f].of

\* The promise of a send settles: unless it was superseded or aborted, the session
\* is idle, and a failure is the phase.
SendSettles(f) ==
    /\ send[f].at \in Over
    /\ send' = [send EXCEPT ![f].at = "settled"]
    /\ IF send[f].at = "aborted" \/ Superseded(f)
       THEN UNCHANGED <<session, thread, section, phase, strays>>
       ELSE /\ SetIdle(thread, "other")
            /\ phase' = IF send[f].at = "failed" THEN "other" ELSE phase
    /\ UNCHANGED <<mode, unseen, active, made, cancels, pendingStop, unsent, outbound,
                   handed, rebuilding, reloads, host>>

-----------------------------------------------------------------------------
(***************************************************************************)
(* The cancel.                                                             *)
(***************************************************************************)
Cancel ==
    /\ cancelVersion < MaxCancels /\ ~Awake
    /\ cancelVersion' = cancelVersion + 1
    /\ cancelling' = (cancelling \/ active # 0)
    /\ held' = (held \/ (active # 0 /\ hosted # 0))
    /\ session' = IF active = 0 THEN session
                  ELSE [session EXCEPT ![active].version = @ + 1, ![active].running = FALSE]
    /\ Drain(thread, Running /\ pending /\ lock = Nobody)
    /\ Astray("cancel")
    /\ phase' = "resumable"
    /\ UNCHANGED <<mode, unseen, active, made, pendingStop, unsent, outbound, send,
                   handed, rebuilding, reloads, hosted, stops, turn, queue>>

CancelDone ==
    /\ cancelling /\ ~Unwinding
    /\ cancelling' = FALSE
    /\ UNCHANGED <<setting, objects, cancelVersion, pendingStop, sends, thread, section,
                   rebuilding, reloads, host>>

-----------------------------------------------------------------------------
Quiet ==
    /\ \A f \in Flows : thread[f].at = "done" /\ send[f].at \in {"none", "settled"}
    /\ lock = Nobody /\ stops = {} /\ turn = Nobody /\ ~cancelling

Next ==
    \/ \E f \in Flows :
         \/ \E m \in Modes, auto, bare \in BOOLEAN : Switch(f, m, auto, bare)
         \/ \E bare \in BOOLEAN : Follow(f, bare)
         \/ EnterSwitch(f) \/ AbortForSwitch(f) \/ Aborted(f)
         \/ Waited(f) \/ EnterFollow(f) \/ Settled(f) \/ Prepared(f) \/ PrepareFails(f)
         \/ TextReady(f) \/ TextCancelled(f) \/ ResumeFails(f)
         \/ HostResumes(f) \/ SendSettles(f)
    \/ \E t \in Threads :
         \/ LoadFails(t) \/ Refused(t) \/ Replace(t) \/ Stopped(t) \/ Started(t)
         \/ StartFails(t) \/ Leave(t)
    \/ NewTools \/ SendLeaves \/ TurnEnds \/ TurnFails \/ DrainQueue
    \/ \E o \in Objects : StopDone(o)
    \/ Cancel \/ CancelDone
    \/ Quiet /\ UNCHANGED vars

Spec == Init /\ [][Next]_vars

-----------------------------------------------------------------------------
(***************************************************************************)
(* Properties.                                                             *)
(***************************************************************************)
\* A session is started only when no stop of an earlier one is under way: core
\* cleans up by session id, and a late stop would take the new session down
\* (sdk-session-lifecycle.ts, pendingStops and startNewSession).
StopBeforeStart ==
    \A t \in Threads : thread[t].at = "starting" => stops = {}

\* A send that settles never marks idle a session in which another message sent
\* for it has its turn (fireAndForgetSend, isSuperseded).  It holds of messages that
\* are not strays: the abort of a mode switch, a cancel while an executed plan is
\* prepared, and the end of a turn another message waits for make the session idle
\* and let a message on its way go on; and not of a prompt drained from the queue,
\* as the send of the turn before it settles late.
SettleSparesOthers ==
    [][\A f \in Flows :
         send'[f].at = "settled" /\ send[f].at # "settled" /\ Running
             /\ active' # 0 /\ ~session'[active'].running
             /\ turn \in Flows \ {f} /\ send[turn].of = active
         => {f, turn} \cap strays # {}]_vars

\* What the user sent before a cancel does not reach the host after it, as long
\* as the session object it was sent for was the active one at the cancel
\* (cancelActiveTurn, wasCancelled).  The executed plan is the exception: its
\* text is prepared without a look at the cancel.
CancelledStaysHome ==
    [][\A f \in Flows :
         send[f].at = "outbound" /\ send'[f].at \notin {"outbound", "settled"}
             /\ thread[f].op # "switch" /\ active # 0 /\ send[f].of = active
         => ~Cancelled(f)]_vars

\* The words of a message go to the host at most once, though a bare Resume may
\* take over what a cancelled send still held (unsentRequests, "A bare Resume must
\* deliver it once"), unless one of the messages that carried them is a stray.
HandedOnce ==
    [][\A f \in Flows :
         send[f].at = "outbound" /\ send'[f].at \notin {"outbound", "settled"}
             /\ send[f].carries \in handed
         => \E g \in strays : thread[g].carries = send[f].carries]_vars

\* When no operation is in the section, the session works in the mode the setting
\* shows (performRebuildSessionForMode rolls back; resumeSessionFromTask), unless
\* the mode was set while a session was being replaced or started.
ModeMatchesSession ==
    lock = Nobody /\ active # 0 /\ ~unseen => session[active].mode = mode

\* A reload is never left pending beside an idle session with a free section:
\* nothing would look for it again (sessionBecameIdle, runExclusive, drainIfIdle).
NoStrandedReload ==
    ~(pending /\ lock = Nobody /\ Idle)
=============================================================================
