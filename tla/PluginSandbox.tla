---------------------------- MODULE PluginSandbox ----------------------------
(***************************************************************************)
(* The plugins of a session run in a child process.  SubprocessSandbox     *)
(* starts it for the first call that needs it, matches replies to requests *)
(* over the IPC channel, shuts it down when a call times out or when it    *)
(* has been idle, and starts a fresh one for the next call.  A fresh child *)
(* has no plugins loaded: it answers "Unknown sandbox plugin id", and      *)
(* plugin-sandbox.ts then has it initialize (one request for all calls     *)
(* that ask) and repeats the call once.                                    *)
(*                                                                         *)
(* A contribution call is made once, by a caller of its own.  What a       *)
(* promise's continuation does happens before the next callback of the     *)
(* event loop: "Quiet" holds those back while a continuation is due.       *)
(***************************************************************************)
EXTENDS Integers, Sequences, FiniteSets

CONSTANTS
    Calls,          \* calls of tools, hooks, commands, rules and builders
    Children,       \* bound: child processes at a time, dead ones are reused
    MayTimeOut,     \* whether a call may time out
    MayCrash        \* whether a child may die by itself

None == "none"
Initialize == "initialize"
ASSUME SandboxAssumption ==
    /\ IsFiniteSet(Calls) /\ IsFiniteSet(Children)
    /\ None \notin Children /\ Initialize \notin Calls
    /\ MayTimeOut \in BOOLEAN /\ MayCrash \in BOOLEAN

VARIABLES
    process,    \* this.process
    pending,    \* this.pending: who asked which child
    idleTimer,  \* the child the idle timer is armed for, or None
    shutdowns,  \* this.shutdowns: children sent a SIGTERM
    closed,     \* shutdown() was called
    child,      \* what the operating system and the IPC channel know of a child
    toChild,    \* requests on their way to a child
    toParent,   \* replies on their way back
    loaded,     \* whether a child has loaded the plugins
    working,    \* requests a child is at work on
    reinit,     \* reinitPromise is set
    caller,     \* how far a call is
    disturbed   \* a call timed out, a child died by itself or shutdown() was called

parent  == <<process, pending, idleTimer, shutdowns>>
channel == <<toChild, toParent>>
inside  == <<loaded, working>>
callers == <<reinit, caller>>
vars == <<parent, closed, child, channel, inside, callers, disturbed>>

Requesters == Calls \cup {Initialize}
Running == {"up", "closed", "killed"}
Due     == {"sanitized", "unknown", "retry"}
Ended   == {"ok", "failed", "surfaced", "refused"}

\* The types; a request is pending with a child that runs, a timer is armed
\* for the current child.
TypeOK ==
    /\ process \in Children \cup {None}
    /\ pending \subseteq [who : Requesters, child : Children]
    /\ idleTimer \in {process, None}
    /\ shutdowns \subseteq Children \ {process}
    /\ closed \in BOOLEAN
    /\ child \in [Children -> {"gone"} \cup Running]
    /\ toChild \in [Children -> Seq(Requesters)]
    /\ toParent \in [Children -> Seq([who : Requesters, reply : {"ok", "unknown"}])]
    /\ loaded \in [Children -> {"blank", "loading", "ready"}]
    /\ working \in [Children -> SUBSET Requesters]
    /\ reinit \in BOOLEAN
    /\ caller \in [Calls -> {"new", "first", "reinit", "second"} \cup Due \cup Ended]
    /\ disturbed \in BOOLEAN
    /\ \A p \in pending : child[p.child] \in {"up", "closed"}

\* The first initialize of loadSandboxedPlugins may be long past: no child.
Init ==
    /\ process = None /\ pending = {} /\ idleTimer = None /\ shutdowns = {}
    /\ closed = FALSE
    /\ child = [c \in Children |-> "gone"]
    /\ toChild = [c \in Children |-> <<>>] /\ toParent = [c \in Children |-> <<>>]
    /\ loaded = [c \in Children |-> "blank"] /\ working = [c \in Children |-> {}]
    /\ reinit = FALSE
    /\ caller = [k \in Calls |-> "new"]
    /\ disturbed = FALSE

-----------------------------------------------------------------------------

Quiet == \A k \in Calls : caller[k] \notin Due

\* Bound: the current child is retired only if there is room for another.
Room == \E c \in Children : child[c] = "gone"

Available(c) == c # None /\ child[c] = "up"
PendingWith(c) == {p \in pending : p.child = c}

\* The timer once the requests "left" are pending: armIdleTimer(c).
\* Mutant: it is armed by start() only.
Armed_AtStart(c, left) == idleTimer
Armed(c, left) ==
    IF process # c THEN idleTimer
    ELSE IF Available(c) /\ ~\E p \in left : p.child = c THEN c ELSE None

\* clearPendingRequest
Clear(p) ==
    /\ pending' = pending \ {p}
    /\ idleTimer' = Armed(p.child, pending \ {p})

\* A promise settles; with that of initialize, those who wait for it go on.
Settle(who, outcome) ==
    IF who = Initialize
      THEN /\ reinit' = FALSE
           /\ caller' = [k \in Calls |->
                IF caller[k] # "reinit" THEN caller[k]
                ELSE IF outcome = "ok" THEN "retry" ELSE "failed"]
      ELSE /\ caller' = [caller EXCEPT ![who] =
                IF outcome # "unknown" THEN outcome
                ELSE IF @ = "first" THEN "unknown" ELSE "surfaced"]
           /\ UNCHANGED reinit

\* Mutant: only those are told whose request it was.
FailAll_OwnersOnly(c) ==
    /\ pending' = pending \ PendingWith(c)
    /\ caller' = [k \in Calls |->
            IF \E p \in PendingWith(c) : p.who = k THEN "failed" ELSE caller[k]]
    /\ UNCHANGED reinit

\* failPendingForProcess: all requests of a child are rejected.
FailAll(c) ==
    LET lost    == {p.who : p \in PendingWith(c)}
        waiters == IF Initialize \in lost THEN {k \in Calls : caller[k] = "reinit"} ELSE {} IN
    /\ pending' = pending \ PendingWith(c)
    /\ reinit' = (reinit /\ Initialize \notin lost)
    /\ caller' = [k \in Calls |-> IF k \in lost \cup waiters THEN "failed" ELSE caller[k]]

\* Mutant: the child stays the current one until it is gone.
Dismiss_KeepsCurrent(c) ==
    /\ shutdowns' = shutdowns \cup {c}
    /\ UNCHANGED <<process, idleTimer>>

\* shutdownProcess: the child gets a SIGTERM and is no longer the current one.
Dismiss(c) ==
    /\ shutdowns' = shutdowns \cup {c}
    /\ process' = IF process = c THEN None ELSE process
    /\ idleTimer' = IF process = c THEN None ELSE idleTimer

-----------------------------------------------------------------------------
(* start and call                                                          *)

\* Mutant: a child that runs without a channel is forgotten.
Unavailable_Forgotten == {}

\* The current child runs, but its channel is closed: it is shut down.
Unavailable == {c \in Children : c = process /\ child[c] = "closed"}

\* start(): the current child is c already, or c is spawned.
Start(c) ==
    IF Available(process)
      THEN c = process /\ UNCHANGED <<process, shutdowns, child>>
      ELSE /\ child[c] = "gone"
           /\ process' = c
           /\ shutdowns' = shutdowns \cup Unavailable
           /\ child' = [child EXCEPT ![c] = "up"]

Send(who) == \E c \in Children :
    /\ Start(c)
    /\ pending' = pending \cup {[who |-> who, child |-> c]}
    /\ idleTimer' = None
    /\ toChild' = [toChild EXCEPT ![c] = Append(@, who)]
    /\ UNCHANGED <<closed, toParent, inside, disturbed>>

Call(k) ==
    /\ caller[k] = "new" /\ Quiet
    /\ Send(k)
    /\ caller' = [caller EXCEPT ![k] = "first"]
    /\ UNCHANGED reinit

\* send() throws at once: the payload is not serializable.  The entry goes and
\* the timer is armed; a tool or a hook is called again with a safe payload, the
\* call of any other contribution is over.
CallRefused(k) == \E c \in Children :
    /\ caller[k] = "new" /\ Quiet
    /\ Start(c)
    /\ idleTimer' = IF PendingWith(c) = {} THEN c ELSE None
    /\ \E outcome \in {"sanitized", "refused"} : caller' = [caller EXCEPT ![k] = outcome]
    /\ UNCHANGED <<pending, closed, channel, inside, reinit, disturbed>>

CallSanitized(k) ==
    /\ caller[k] = "sanitized"
    /\ Send(k)
    /\ caller' = [caller EXCEPT ![k] = "first"]
    /\ UNCHANGED reinit

\* Mutant: every call that meets a fresh child initializes it.
Reinitialize_Each(k) ==
    /\ caller[k] = "unknown"
    /\ caller' = [caller EXCEPT ![k] = "reinit"]
    /\ reinit' = TRUE
    /\ Send(Initialize)

\* reinitialize(): one request for all.
Reinitialize(k) ==
    /\ caller[k] = "unknown"
    /\ caller' = [caller EXCEPT ![k] = "reinit"]
    /\ reinit' = TRUE
    /\ IF reinit THEN UNCHANGED <<parent, closed, child, channel, inside, disturbed>>
                 ELSE Send(Initialize)

Retry(k) ==
    /\ caller[k] = "retry"
    /\ Send(k)
    /\ caller' = [caller EXCEPT ![k] = "second"]
    /\ UNCHANGED reinit

-----------------------------------------------------------------------------
(* The child                                                               *)

Runs(c) == child[c] \in {"up", "closed"}

\* Mutant: initialize is answered before the plugins are loaded.
Reply_AtOnce(c, who) == who = Initialize \/ loaded[c] # "ready"

\* Without its plugin a call is answered at once.
Reply(c, who) == who # Initialize /\ loaded[c] # "ready"

Receive(c) ==
    /\ Quiet /\ Runs(c) /\ toChild[c] # <<>>
    /\ LET who == Head(toChild[c]) IN
       /\ toChild' = [toChild EXCEPT ![c] = Tail(@)]
       /\ loaded' = IF who = Initialize THEN [loaded EXCEPT ![c] = "loading"] ELSE loaded
       /\ working' = IF who = Initialize \/ loaded[c] = "ready"
                       THEN [working EXCEPT ![c] = @ \cup {who}] ELSE working
       /\ toParent' = IF Reply(c, who)
            THEN [toParent EXCEPT ![c] = Append(@, [who |-> who,
                        reply |-> IF who = Initialize THEN "ok" ELSE "unknown"])]
            ELSE toParent
    /\ UNCHANGED <<parent, closed, child, callers, disturbed>>

\* The plugins are loaded, a handler returns or throws.
Work(c, who) ==
    /\ Quiet /\ Runs(c) /\ who \in working[c]
    /\ working' = [working EXCEPT ![c] = @ \ {who}]
    /\ loaded' = IF who = Initialize THEN [loaded EXCEPT ![c] = "ready"] ELSE loaded
    /\ toParent' = [toParent EXCEPT ![c] = Append(@, [who |-> who, reply |-> "ok"])]
    /\ UNCHANGED <<parent, closed, child, toChild, callers, disturbed>>

\* onMessage: the reply of a pending request of this child, or nothing.
Deliver(c) ==
    /\ Quiet /\ child[c] = "up" /\ toParent[c] # <<>>
    /\ toParent' = [toParent EXCEPT ![c] = Tail(@)]
    /\ LET m == Head(toParent[c])
           p == [who |-> m.who, child |-> c] IN
       IF p \in pending THEN Clear(p) /\ Settle(m.who, m.reply)
                        ELSE UNCHANGED <<pending, idleTimer, callers>>
    /\ UNCHANGED <<process, shutdowns, closed, child, toChild, inside, disturbed>>

-----------------------------------------------------------------------------
(* Ends                                                                    *)

TimeOut(p) ==
    /\ MayTimeOut /\ Quiet /\ Room /\ p \in pending
    /\ pending' = pending \ {p}
    /\ Dismiss(p.child)
    /\ Settle(p.who, "failed")
    /\ disturbed' = TRUE
    /\ UNCHANGED <<closed, child, channel, inside>>

IdleFires ==
    /\ Quiet /\ Room /\ idleTimer # None
    /\ IF Available(idleTimer) /\ PendingWith(idleTimer) = {}
         THEN Dismiss(idleTimer)
         ELSE idleTimer' = None /\ UNCHANGED <<process, shutdowns>>
    /\ UNCHANGED <<pending, closed, child, channel, inside, callers, disturbed>>

\* shutdown() at the end of the session.
Shutdown ==
    /\ Quiet /\ Room /\ ~closed
    /\ closed' = TRUE
    /\ IF process # None /\ child[process] # "gone"
         THEN Dismiss(process) ELSE idleTimer' = None /\ UNCHANGED <<process, shutdowns>>
    /\ disturbed' = TRUE
    /\ UNCHANGED <<pending, child, channel, inside, callers>>

\* The exit event: of a child that was told to go, or by itself.
Exit(c) ==
    /\ Quiet /\ child[c] # "gone"
    /\ c \in shutdowns \/ child[c] = "killed" \/ MayCrash
    /\ child' = [child EXCEPT ![c] = "gone"]
    /\ process' = IF process = c THEN None ELSE process
    /\ idleTimer' = IF process = c THEN None ELSE idleTimer
    /\ shutdowns' = shutdowns \ {c}
    /\ FailAll(c)
    /\ toChild' = [toChild EXCEPT ![c] = <<>>] /\ toParent' = [toParent EXCEPT ![c] = <<>>]
    /\ loaded' = [loaded EXCEPT ![c] = "blank"] /\ working' = [working EXCEPT ![c] = {}]
    /\ disturbed' = (disturbed \/ (c \notin shutdowns /\ child[c] # "killed"))
    /\ UNCHANGED closed

\* The error event of a child that could not be spawned: no exit follows.
SpawnFails(c) ==
    /\ MayCrash /\ Quiet /\ c = process /\ child[c] = "up"
    /\ loaded[c] = "blank" /\ toParent[c] = <<>>
    /\ child' = [child EXCEPT ![c] = "gone"]
    /\ idleTimer' = None
    /\ FailAll(c)
    /\ toChild' = [toChild EXCEPT ![c] = <<>>]
    /\ disturbed' = TRUE
    /\ UNCHANGED <<process, shutdowns, closed, toParent, inside>>

\* The channel closes before the exit event arrives.
ChannelCloses(c) ==
    /\ Quiet /\ Room /\ child[c] = "up"
    /\ c \in shutdowns \/ MayCrash
    /\ child' = [child EXCEPT ![c] = "closed"]
    /\ disturbed' = (disturbed \/ c \notin shutdowns)
    /\ UNCHANGED <<parent, closed, channel, inside, callers>>

\* The callback of send() reports that a request did not get through.
SendFails(p) ==
    /\ Quiet /\ p \in pending /\ child[p.child] = "closed"
    /\ \E i \in 1 .. Len(toChild[p.child]) :
          /\ toChild[p.child][i] = p.who
          /\ toChild' = [toChild EXCEPT ![p.child] =
                             SubSeq(@, 1, i - 1) \o SubSeq(@, i + 1, Len(@))]
    /\ Clear(p)
    /\ Settle(p.who, "failed")
    /\ UNCHANGED <<process, shutdowns, closed, child, toParent, inside, disturbed>>

\* 300 ms after the SIGTERM a SIGKILL follows; the exit is not awaited.
GraceOver(c) ==
    /\ Quiet /\ c \in shutdowns
    /\ child' = [child EXCEPT ![c] = "killed"]
    /\ shutdowns' = shutdowns \ {c}
    /\ FailAll(c)
    /\ UNCHANGED <<process, idleTimer, closed, channel, inside, disturbed>>

Continue(k) == CallSanitized(k) \/ Reinitialize(k) \/ Retry(k)
OfChild(c)  == Receive(c) \/ Deliver(c) \/ (\E who \in Requesters : Work(c, who))

Next ==
    \/ \E k \in Calls : Call(k) \/ CallRefused(k) \/ Continue(k)
    \/ \E c \in Children : OfChild(c) \/ Exit(c) \/ SpawnFails(c) \/ ChannelCloses(c) \/ GraceOver(c)
    \/ \E p \in pending : TimeOut(p) \/ SendFails(p)
    \/ IdleFires \/ Shutdown

Spec == Init /\ [][Next]_vars

\* Continuations and callbacks are run, timers fire, killed children go.
FairSpec ==
    /\ Spec
    /\ \A k \in Calls : WF_vars(Continue(k))
    /\ \A c \in Children : WF_vars(GraceOver(c)) /\ WF_vars(child[c] = "killed" /\ Exit(c))
    /\ \A who \in Requesters : WF_vars(\E p \in pending : p.who = who /\ TimeOut(p))

-----------------------------------------------------------------------------
(* Properties                                                              *)

\* No plugin process is left behind: one that runs is the current one, or has
\* been told to go, or killed.
NoOrphan ==
    \A c \in Children : Runs(c) => c = process \/ c \in shutdowns

\* A child that nobody asks anything has its idle timer armed, whichever of
\* the ways a request can end ended the last one.
IdleIsTimed ==
    Quiet /\ Available(process) /\ PendingWith(process) = {} => idleTimer = process

\* "A matching child-side deadline can ... drop a newly dispatched RPC": no
\* request is sent to a child that has been told to go.
RequestsReachLiving ==
    [][\A p \in pending' \ pending : p.child \notin shutdowns' /\ child'[p.child] = "up"]_vars

\* The comment on reinitPromise: calls that fail together initialize once.
OneInitialize == Cardinality({p \in pending : p.who = Initialize}) <= 1

\* A child reclaimed while idle is replaced without anyone noticing: a call is
\* answered "unknown plugin" only after a timeout, a crash or a shutdown.
ReplacedSilently ==
    disturbed \/ \A k \in Calls : caller[k] \notin {"surfaced", "failed"}

\* Every call is answered, whatever its child does.
CallsAnswered ==
    \A k \in Calls : caller[k] # "new" ~> caller[k] \in Ended
=============================================================================
