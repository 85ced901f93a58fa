------------------------- MODULE PluginSandboxProofs -------------------------
(***************************************************************************)
(* The safety properties of PluginSandbox for any number of calls and      *)
(* children.  The invariant has two parts.  Base holds whatever fails: who *)
(* is pending with whom, which children run, when the timer is armed.      *)
(* Calm holds until the first timeout, crash or shutdown: every request on *)
(* its way is one that is pending with the current child, and an "unknown  *)
(* plugin" answers only a call made before the child was initialized.      *)
(***************************************************************************)
EXTENDS PluginSandbox, FiniteSetTheorems, TLAPS

\* Nobody has two requests open; calls and reinitPromise wait for one each.
AskedOnce == \A p, q \in pending : p.who = q.who => p = q
CallersPend == \A k \in Calls :
    caller[k] \in {"first", "second"} <=> \E p \in pending : p.who = k
ReinitPends == reinit <=> \E p \in pending : p.who = Initialize
Requested == AskedOnce /\ CallersPend /\ ReinitPends
\* A child leaves this.shutdowns when it is killed or gone.
DismissedRun == \A c \in shutdowns : Runs(c)
CurrentNotKilled == process # None => child[process] # "killed"
\* IdleIsTimed also holds while a continuation is due.
Timed == Available(process) /\ PendingWith(process) = {} => idleTimer = process
GoneIsBlank == \A c \in Children : child[c] = "gone" => loaded[c] = "blank"

Base ==
    /\ TypeOK /\ Requested
    /\ DismissedRun /\ CurrentNotKilled /\ NoOrphan /\ Timed /\ GoneIsBlank

-----------------------------------------------------------------------------
(* Base, one lemma for each action.                                        *)

CallerType == {"new", "first", "reinit", "second"} \cup Due \cup Ended

Replies == [who : Requesters, reply : {"ok", "unknown"}]

LEMMA ChannelAppend ==
    ASSUME NEW S, NEW f \in [Children -> Seq(S)], NEW c \in Children, NEW e \in S
    PROVE  [f EXCEPT ![c] = Append(@, e)] \in [Children -> Seq(S)]
OBVIOUS

LEMMA ChannelTail ==
    ASSUME NEW S, NEW f \in [Children -> Seq(S)], NEW c \in Children, f[c] # <<>>
    PROVE  Head(f[c]) \in S /\ [f EXCEPT ![c] = Tail(@)] \in [Children -> Seq(S)]
OBVIOUS

LEMMA ToParentTyped == ASSUME TypeOK PROVE toParent \in [Children -> Seq(Replies)]
BY DEF TypeOK, Replies

\* A settled promise: its caller, or those who wait for initialize, go on.
LEMMA SettleFacts ==
    ASSUME Base, NEW p \in pending, NEW outcome \in {"ok", "unknown", "failed"},
           pending' = pending \ {p}, Settle(p.who, outcome)
    PROVE  /\ caller' \in [Calls -> CallerType] /\ reinit' \in BOOLEAN
           /\ Requested'
<1> USE SandboxAssumption
<1>1. CASE p.who = Initialize
  <2>1. /\ reinit' = FALSE
        /\ caller' = [k \in Calls |->
                IF caller[k] # "reinit" THEN caller[k]
                ELSE IF outcome = "ok" THEN "retry" ELSE "failed"]
    BY <1>1 DEF Settle
  <2>2. caller' \in [Calls -> CallerType]
    BY <2>1 DEF Base, TypeOK, CallerType, Due, Ended
  <2>3. AskedOnce'
    BY DEF Base, Requested, AskedOnce
  <2>4. CallersPend'
    <3>1. \A k \in Calls : caller'[k] \in {"first", "second"} <=> caller[k] \in {"first", "second"}
      <4> SUFFICES ASSUME NEW k \in Calls
                   PROVE  caller'[k] \in {"first", "second"} <=> caller[k] \in {"first", "second"}
        OBVIOUS
      <4>1. CASE caller[k] # "reinit"
        BY <2>1, <4>1
      <4>2. CASE caller[k] = "reinit"
        <5>1. caller'[k] = IF outcome = "ok" THEN "retry" ELSE "failed"
          BY <2>1, <4>2
        <5> QED
          BY <4>2, <5>1
      <4> QED
        BY <4>1, <4>2
    <3>2. \A k \in Calls : k # p.who
      BY <1>1
    <3> QED
      BY <3>1, <3>2 DEF Base, Requested, CallersPend
  <2>5. ReinitPends'
    BY <1>1, <2>1 DEF Base, Requested, ReinitPends, AskedOnce
  <2> QED
    BY <2>1, <2>2, <2>3, <2>4, <2>5 DEF Requested
<1>2. CASE p.who # Initialize
  <2>1. p.who \in Calls
    BY <1>2 DEF Base, TypeOK, Requesters
  <2>2. caller[p.who] \in {"first", "second"}
    BY <2>1 DEF Base, Requested, CallersPend
  <2>3. /\ reinit' = reinit
        /\ caller' = [caller EXCEPT ![p.who] =
                IF outcome # "unknown" THEN outcome
                ELSE IF @ = "first" THEN "unknown" ELSE "surfaced"]
    BY <1>2 DEF Settle
  <2>4. caller'[p.who] \in {"ok", "failed", "unknown", "surfaced"}
    BY <2>1, <2>2, <2>3 DEF Base, TypeOK
  <2>5. \A k \in Calls \ {p.who} : caller'[k] = caller[k]
    BY <2>3 DEF Base, TypeOK
  <2>6. caller' \in [Calls -> CallerType]
    BY <2>1, <2>3, <2>4 DEF Base, TypeOK, CallerType, Due, Ended
  <2>7. AskedOnce'
    BY DEF Base, Requested, AskedOnce
  <2>8. CallersPend'
    BY <2>4, <2>5 DEF Base, TypeOK, Requested, CallersPend, AskedOnce
  <2>9. ReinitPends'
    BY <1>2, <2>3 DEF Base, Requested, ReinitPends, AskedOnce
  <2> QED
    BY <2>3, <2>6, <2>7, <2>8, <2>9 DEF Requested, Base, TypeOK
<1> QED
  BY <1>1, <1>2

\* All requests of a child are rejected, and nobody else's.
LEMMA FailAllFacts ==
    ASSUME Base, NEW c \in Children, FailAll(c)
    PROVE  /\ caller' \in [Calls -> CallerType] /\ reinit' \in BOOLEAN
           /\ pending' \subseteq pending
           /\ \A p \in pending' : p.child # c
           /\ Requested'
<1> USE SandboxAssumption
<1> DEFINE lost == {p.who : p \in PendingWith(c)}
           waiters == IF Initialize \in lost THEN {k \in Calls : caller[k] = "reinit"} ELSE {}
<1>1. /\ pending' = pending \ PendingWith(c)
      /\ reinit' = (reinit /\ Initialize \notin lost)
      /\ caller' = [k \in Calls |-> IF k \in lost \cup waiters THEN "failed" ELSE caller[k]]
  BY DEF FailAll
<1>2. caller' \in [Calls -> CallerType]
  BY <1>1 DEF Base, TypeOK, CallerType, Due, Ended
<1>3. reinit' \in BOOLEAN
  BY <1>1 DEF Base, TypeOK
<1>4. \A p \in pending' : p \in pending /\ p.child # c
  BY <1>1 DEF PendingWith
<1>5. \A p \in pending : p \in pending' <=> p.who \notin lost
  BY <1>1 DEF PendingWith, Base, Requested, AskedOnce
<1>6. AskedOnce'
  BY <1>4 DEF Base, Requested, AskedOnce
<1>7. CallersPend'
  <2> SUFFICES ASSUME NEW k \in Calls
               PROVE  caller'[k] \in {"first", "second"} <=> \E p \in pending' : p.who = k
    BY DEF CallersPend
  <2>1. caller[k] \in {"first", "second"} <=> \E p \in pending : p.who = k
    BY DEF Base, Requested, CallersPend
  <2>2. CASE k \in lost
    BY <1>1, <1>4, <1>5, <2>2
  <2>3. CASE k \in waiters /\ k \notin lost
    BY <1>1, <1>4, <2>1, <2>3
  <2>4. CASE k \notin lost \cup waiters
    BY <1>1, <1>4, <1>5, <2>1, <2>4
  <2> QED
    BY <2>2, <2>3, <2>4
<1>8. ReinitPends'
  BY <1>1, <1>4, <1>5 DEF Base, Requested, ReinitPends
<1> QED
  BY <1>2, <1>3, <1>4, <1>6, <1>7, <1>8 DEF Requested

\* start() leaves the current child running and no other behind.
LEMMA StartFacts ==
    ASSUME Base, NEW c \in Children, Start(c)
    PROVE  /\ process' = c
           /\ shutdowns' \subseteq Children \ {c}
           /\ child' \in [Children -> {"gone"} \cup Running]
           /\ child'[c] = "up"
           /\ \A d \in Children : Runs(d) => child'[d] = child[d]
           /\ \A d \in Children : child'[d] = "gone" => child[d] = "gone"
           /\ DismissedRun' /\ CurrentNotKilled' /\ NoOrphan'
<1> USE SandboxAssumption
<1>1. CASE Available(process)
  BY <1>1 DEF Start, Available, Base, TypeOK, DismissedRun, CurrentNotKilled, NoOrphan, Runs
<1>2. CASE ~Available(process)
  <2>1. /\ child[c] = "gone"
        /\ process' = c
        /\ shutdowns' = shutdowns \cup Unavailable
        /\ child' = [child EXCEPT ![c] = "up"]
    BY <1>2 DEF Start
  <2>2. c \notin shutdowns
    BY <2>1 DEF Base, DismissedRun, Runs
  <2>3. /\ shutdowns' \subseteq Children \ {c}
        /\ child' \in [Children -> {"gone"} \cup Running]
        /\ child'[c] = "up"
        /\ \A d \in Children : Runs(d) => child'[d] = child[d]
        /\ \A d \in Children : child'[d] = "gone" => child[d] = "gone"
    BY <2>1, <2>2 DEF Base, TypeOK, Unavailable, Runs, Running
  <2>4. DismissedRun'
    BY <2>1, <2>2, <2>3 DEF Base, TypeOK, DismissedRun, Runs, Unavailable
  <2>5. CurrentNotKilled'
    BY <2>1, <2>3 DEF CurrentNotKilled
  <2>6. NoOrphan'
    <3> SUFFICES ASSUME NEW d \in Children, Runs(d)'
                 PROVE  d = process' \/ d \in shutdowns'
      BY DEF NoOrphan
    <3>1. CASE d = c
      BY <3>1, <2>1
    <3>2. CASE d # c
      <4>1. Runs(d)
        BY <3>2, <2>1 DEF Runs, Base, TypeOK
      <4>2. d = process \/ d \in shutdowns
        BY <4>1 DEF Base, NoOrphan
      <4>3. d = process => child[d] = "closed"
        BY <4>1, <1>2 DEF Runs, Available, Base, TypeOK
      <4> QED
        BY <4>2, <4>3, <2>1 DEF Unavailable
    <3> QED
      BY <3>1, <3>2
  <2> QED
    BY <2>1, <2>3, <2>4, <2>5, <2>6
<1> QED
  BY <1>1, <1>2
\* A request of somebody who has none open.
LEMMA SendFacts ==
    ASSUME Base, NEW who \in Requesters, Send(who),
           \A p \in pending : p.who # who,
           caller' \in [Calls -> CallerType], reinit' \in BOOLEAN,
           who = Initialize <=> reinit' /\ ~reinit,
           reinit => reinit',
           \A k \in Calls : caller'[k] \in {"first", "second"}
                              <=> k = who \/ caller[k] \in {"first", "second"}
    PROVE  Base'
<1> USE SandboxAssumption
<1>1. PICK c \in Children :
        /\ Start(c)
        /\ pending' = pending \cup {[who |-> who, child |-> c]}
        /\ idleTimer' = None
        /\ toChild' = [toChild EXCEPT ![c] = Append(@, who)]
        /\ UNCHANGED <<closed, toParent, inside, disturbed>>
  BY DEF Send
<1>2. /\ process' = c
      /\ shutdowns' \subseteq Children \ {c}
      /\ child' \in [Children -> {"gone"} \cup Running]
      /\ child'[c] = "up"
      /\ \A d \in Children : Runs(d) => child'[d] = child[d]
      /\ \A d \in Children : child'[d] = "gone" => child[d] = "gone"
      /\ DismissedRun' /\ CurrentNotKilled' /\ NoOrphan'
  BY <1>1, StartFacts
<1>3. TypeOK'
  <2>1. toChild' \in [Children -> Seq(Requesters)]
    BY <1>1 DEF Base, TypeOK
  <2>2. pending' \subseteq [who : Requesters, child : Children]
    BY <1>1 DEF Base, TypeOK
  <2>3. \A p \in pending' : child'[p.child] \in {"up", "closed"}
    BY <1>1, <1>2 DEF Base, TypeOK, Runs
  <2> QED
    BY <1>1, <1>2, <2>1, <2>2, <2>3 DEF Base, TypeOK, inside, CallerType
<1>4. Requested'
  <2>1. AskedOnce'
    BY <1>1 DEF Base, Requested, AskedOnce
  <2>2. \A w : (\E p \in pending' : p.who = w) <=> w = who \/ \E p \in pending : p.who = w
    <3>1. [who |-> who, child |-> c].who = who /\ [who |-> who, child |-> c] \in pending'
      BY <1>1
    <3>2. \A p \in pending' : p \in pending \/ p.who = who
      BY <1>1
    <3>3. pending \subseteq pending'
      BY <1>1
    <3> QED
      BY <3>1, <3>2, <3>3
  <2>3. CallersPend'
    BY <2>2 DEF Base, Requested, CallersPend
  <2>4. ReinitPends'
    <3>1. reinit' <=> who = Initialize \/ reinit
      OBVIOUS
    <3> QED
      BY <2>2, <3>1 DEF Base, Requested, ReinitPends
  <2> QED
    BY <2>1, <2>3, <2>4 DEF Requested
<1>5. Timed'
  <2>1. [who |-> who, child |-> c] \in PendingWith(c)'
    BY <1>1 DEF PendingWith
  <2> QED
    BY <1>2, <2>1 DEF Timed
<1>6. GoneIsBlank'
  BY <1>1, <1>2 DEF Base, GoneIsBlank, inside
<1> QED
  BY <1>2, <1>3, <1>4, <1>5, <1>6 DEF Base

LEMMA CallBase == ASSUME Base, NEW k \in Calls, Call(k) PROVE Base'
<1> USE SandboxAssumption
<1>1. caller[k] = "new" /\ Send(k) /\ caller' = [caller EXCEPT ![k] = "first"] /\ reinit' = reinit
  BY DEF Call
<1>2. k \in Requesters /\ k # Initialize
  BY DEF Requesters
<1>3. \A p \in pending : p.who # k
  BY <1>1 DEF Base, Requested, CallersPend
<1>4. /\ caller' \in [Calls -> CallerType] /\ reinit' \in BOOLEAN
      /\ \A l \in Calls : caller'[l] \in {"first", "second"}
                              <=> l = k \/ caller[l] \in {"first", "second"}
  BY <1>1 DEF Base, TypeOK, CallerType
<1> QED
  BY <1>1, <1>2, <1>3, <1>4, SendFacts

LEMMA CallSanitizedBase == ASSUME Base, NEW k \in Calls, CallSanitized(k) PROVE Base'
<1> USE SandboxAssumption
<1>1. caller[k] = "sanitized" /\ Send(k) /\ caller' = [caller EXCEPT ![k] = "first"] /\ reinit' = reinit
  BY DEF CallSanitized
<1>2. k \in Requesters /\ k # Initialize
  BY DEF Requesters
<1>3. \A p \in pending : p.who # k
  BY <1>1 DEF Base, Requested, CallersPend
<1>4. /\ caller' \in [Calls -> CallerType] /\ reinit' \in BOOLEAN
      /\ \A l \in Calls : caller'[l] \in {"first", "second"}
                              <=> l = k \/ caller[l] \in {"first", "second"}
  BY <1>1 DEF Base, TypeOK, CallerType
<1> QED
  BY <1>1, <1>2, <1>3, <1>4, SendFacts

LEMMA RetryBase == ASSUME Base, NEW k \in Calls, Retry(k) PROVE Base'
<1> USE SandboxAssumption
<1>1. caller[k] = "retry" /\ Send(k) /\ caller' = [caller EXCEPT ![k] = "second"] /\ reinit' = reinit
  BY DEF Retry
<1>2. k \in Requesters /\ k # Initialize
  BY DEF Requesters
<1>3. \A p \in pending : p.who # k
  BY <1>1 DEF Base, Requested, CallersPend
<1>4. /\ caller' \in [Calls -> CallerType] /\ reinit' \in BOOLEAN
      /\ \A l \in Calls : caller'[l] \in {"first", "second"}
                              <=> l = k \/ caller[l] \in {"first", "second"}
  BY <1>1 DEF Base, TypeOK, CallerType
<1> QED
  BY <1>1, <1>2, <1>3, <1>4, SendFacts

LEMMA ReinitializeBase == ASSUME Base, NEW k \in Calls, Reinitialize(k) PROVE Base'
<1> USE SandboxAssumption
<1>1. caller[k] = "unknown" /\ caller' = [caller EXCEPT ![k] = "reinit"] /\ reinit' = TRUE
  BY DEF Reinitialize
<1>2. /\ caller' \in [Calls -> CallerType] /\ reinit' \in BOOLEAN
      /\ \A l \in Calls : caller'[l] \in {"first", "second"} <=> caller[l] \in {"first", "second"}
  BY <1>1 DEF Base, TypeOK, CallerType
<1>3. CASE reinit
  <2>1. UNCHANGED <<parent, closed, child, channel, inside, disturbed>> /\ reinit' = reinit
    BY <1>1, <1>3 DEF Reinitialize, Base, TypeOK
  <2>2. TypeOK'
    BY <1>2, <2>1 DEF Base, TypeOK, parent, channel, inside, CallerType
  <2>3. Requested'
    BY <1>2, <2>1 DEF Base, Requested, AskedOnce, CallersPend, ReinitPends, parent
  <2> QED
    BY <2>1, <2>2, <2>3 DEF Base, DismissedRun, CurrentNotKilled, NoOrphan, Timed, GoneIsBlank,
        Available, PendingWith, Runs, parent, inside
<1>4. CASE ~reinit
  <2>1. Send(Initialize) /\ Initialize \in Requesters
    BY <1>4 DEF Reinitialize, Requesters
  <2>2. \A p \in pending : p.who # Initialize
    BY <1>4 DEF Base, Requested, ReinitPends
  <2> QED
    BY <1>1, <1>2, <1>4, <2>1, <2>2, SendFacts
<1> QED
  BY <1>3, <1>4
LEMMA CallRefusedBase == ASSUME Base, NEW k \in Calls, CallRefused(k) PROVE Base'
<1> USE SandboxAssumption
<1>1. PICK c \in Children, outcome \in {"sanitized", "refused"} :
        /\ caller[k] = "new"
        /\ Start(c)
        /\ idleTimer' = IF PendingWith(c) = {} THEN c ELSE None
        /\ caller' = [caller EXCEPT ![k] = outcome]
        /\ UNCHANGED <<pending, closed, channel, inside, reinit, disturbed>>
  BY DEF CallRefused
<1>2. /\ process' = c
      /\ shutdowns' \subseteq Children \ {c}
      /\ child' \in [Children -> {"gone"} \cup Running]
      /\ child'[c] = "up"
      /\ \A d \in Children : Runs(d) => child'[d] = child[d]
      /\ \A d \in Children : child'[d] = "gone" => child[d] = "gone"
      /\ DismissedRun' /\ CurrentNotKilled' /\ NoOrphan'
  BY <1>1, StartFacts
<1>3. caller' \in [Calls -> CallerType]
  BY <1>1 DEF Base, TypeOK, CallerType, Due, Ended
<1>4. TypeOK'
  <2>1. \A p \in pending' : child'[p.child] \in {"up", "closed"}
    BY <1>1, <1>2 DEF Base, TypeOK, Runs
  <2>2. idleTimer' \in {process', None}
    BY <1>1, <1>2
  <2> QED
    BY <1>1, <1>2, <1>3, <2>1, <2>2 DEF Base, TypeOK, channel, inside, CallerType
<1>5. Requested'
  BY <1>1 DEF Base, TypeOK, Requested, AskedOnce, CallersPend, ReinitPends
<1>6. Timed'
  BY <1>1, <1>2 DEF Timed, PendingWith
<1>7. GoneIsBlank'
  BY <1>1, <1>2 DEF Base, GoneIsBlank, inside
<1> QED
  BY <1>2, <1>4, <1>5, <1>6, <1>7 DEF Base

LEMMA ReceiveBase == ASSUME Base, NEW c \in Children, Receive(c) PROVE Base'
<1> USE SandboxAssumption
<1> DEFINE who == Head(toChild[c])
<1>1. /\ Runs(c) /\ toChild[c] # <<>>
      /\ toChild' = [toChild EXCEPT ![c] = Tail(@)]
      /\ loaded' = IF who = Initialize THEN [loaded EXCEPT ![c] = "loading"] ELSE loaded
      /\ working' = IF who = Initialize \/ loaded[c] = "ready"
                      THEN [working EXCEPT ![c] = @ \cup {who}] ELSE working
      /\ toParent' = IF Reply(c, who)
            THEN [toParent EXCEPT ![c] = Append(@, [who |-> who,
                        reply |-> IF who = Initialize THEN "ok" ELSE "unknown"])]
            ELSE toParent
      /\ UNCHANGED <<parent, closed, child, callers, disturbed>>
  BY DEF Receive
<1>2. who \in Requesters /\ toChild[c] \in Seq(Requesters)
  BY <1>1 DEF Base, TypeOK
<1>3. TypeOK'
  <2>1. toChild' \in [Children -> Seq(Requesters)]
    BY <1>1, <1>2 DEF Base, TypeOK
  <2>2. toParent' \in [Children -> Seq(Replies)]
    <3>1. [who |-> who, reply |-> IF who = Initialize THEN "ok" ELSE "unknown"] \in Replies
      BY <1>2 DEF Replies
    <3> QED
      BY <1>1, <3>1, ToParentTyped, ChannelAppend DEF Base
  <2>3. /\ loaded' \in [Children -> {"blank", "loading", "ready"}]
        /\ working' \in [Children -> SUBSET Requesters]
    BY <1>1, <1>2 DEF Base, TypeOK
  <2> QED
    BY <1>1, <2>1, <2>2, <2>3 DEF Base, TypeOK, parent, callers, Replies
<1>4. GoneIsBlank'
  BY <1>1 DEF Base, TypeOK, GoneIsBlank, Runs
<1> QED
  BY <1>1, <1>3, <1>4 DEF Base, Requested, AskedOnce, CallersPend, ReinitPends,
      DismissedRun, CurrentNotKilled, NoOrphan, Timed, Available, PendingWith, Runs, parent, callers

LEMMA WorkBase == ASSUME Base, NEW c \in Children, NEW who \in Requesters, Work(c, who) PROVE Base'
<1> USE SandboxAssumption
<1>1. /\ Runs(c)
      /\ working' = [working EXCEPT ![c] = @ \ {who}]
      /\ loaded' = IF who = Initialize THEN [loaded EXCEPT ![c] = "ready"] ELSE loaded
      /\ toParent' = [toParent EXCEPT ![c] = Append(@, [who |-> who, reply |-> "ok"])]
      /\ UNCHANGED <<parent, closed, child, toChild, callers, disturbed>>
  BY DEF Work
<1>2. TypeOK'
  <2>1. toParent' \in [Children -> Seq(Replies)]
    <3>1. [who |-> who, reply |-> "ok"] \in Replies
      BY DEF Replies
    <3> QED
      BY <1>1, <3>1, ToParentTyped, ChannelAppend DEF Base
  <2>2. /\ loaded' \in [Children -> {"blank", "loading", "ready"}]
        /\ working' \in [Children -> SUBSET Requesters]
    BY <1>1 DEF Base, TypeOK
  <2> QED
    BY <1>1, <2>1, <2>2 DEF Base, TypeOK, parent, callers, Replies
<1>3. GoneIsBlank'
  BY <1>1 DEF Base, TypeOK, GoneIsBlank, Runs
<1> QED
  BY <1>1, <1>2, <1>3 DEF Base, Requested, AskedOnce, CallersPend, ReinitPends,
      DismissedRun, CurrentNotKilled, NoOrphan, Timed, Available, PendingWith, Runs, parent, callers

\* The end of a request arms the timer of the child it leaves idle.
LEMMA ClearTimed ==
    ASSUME Base, NEW p \in pending, Clear(p), UNCHANGED <<process, child>>
    PROVE  idleTimer' \in {process', None} /\ Timed'
<1>1. CASE process # p.child
  BY <1>1 DEF Clear, Armed, Base, TypeOK, Timed, Available, PendingWith
<1>2. CASE process = p.child
  BY <1>2 DEF Clear, Armed, Base, TypeOK, Timed, Available, PendingWith
<1> QED
  BY <1>1, <1>2

LEMMA DeliverBase == ASSUME Base, NEW c \in Children, Deliver(c) PROVE Base'
<1> USE SandboxAssumption
<1> DEFINE m == Head(toParent[c])
           p == [who |-> m.who, child |-> c]
<1>1. /\ toParent[c] # <<>>
      /\ toParent' = [toParent EXCEPT ![c] = Tail(@)]
      /\ IF p \in pending THEN Clear(p) /\ Settle(m.who, m.reply)
                          ELSE UNCHANGED <<pending, idleTimer, callers>>
      /\ UNCHANGED <<process, shutdowns, closed, child, toChild, inside, disturbed>>
  BY DEF Deliver
<1>2. m \in [who : Requesters, reply : {"ok", "unknown"}]
  BY <1>1, ToParentTyped, ChannelTail DEF Base, Replies
<1>3. toParent' \in [Children -> Seq([who : Requesters, reply : {"ok", "unknown"}])]
  BY <1>1, ToParentTyped, ChannelTail DEF Base, Replies
<1>4. /\ caller' \in [Calls -> CallerType] /\ reinit' \in BOOLEAN
      /\ Requested' /\ pending' \subseteq pending
      /\ idleTimer' \in {process', None} /\ Timed'
  <2>1. CASE p \in pending
    <3>1. Clear(p) /\ Settle(p.who, m.reply) /\ m.reply \in {"ok", "unknown", "failed"}
      BY <1>1, <1>2, <2>1
    <3>2. pending' = pending \ {p}
      BY <3>1 DEF Clear
    <3> QED
      BY <1>1, <2>1, <3>1, <3>2, SettleFacts, ClearTimed
  <2>2. CASE p \notin pending
    BY <1>1, <2>2 DEF Base, TypeOK, Requested, AskedOnce, CallersPend, ReinitPends, callers,
        CallerType, Timed, Available, PendingWith
  <2> QED
    BY <2>1, <2>2
<1>5. TypeOK'
  BY <1>1, <1>3, <1>4 DEF Base, TypeOK, inside, CallerType
<1> QED
  BY <1>1, <1>4, <1>5 DEF Base, DismissedRun, CurrentNotKilled, NoOrphan, GoneIsBlank, Runs, inside
\* A running child that is told to go.
LEMMA DismissFacts ==
    ASSUME Base, NEW c \in Children, Runs(c), Dismiss(c), UNCHANGED child
    PROVE  /\ process' \in Children \cup {None}
           /\ shutdowns' \subseteq Children \ {process'}
           /\ idleTimer' \in {process', None}
           /\ DismissedRun' /\ CurrentNotKilled' /\ NoOrphan'
           /\ process' # None => process' = process /\ idleTimer' = idleTimer /\ process # c
<1> USE SandboxAssumption
<1> QED
  BY DEF Dismiss, Base, TypeOK, DismissedRun, CurrentNotKilled, NoOrphan, Runs

LEMMA TimeOutBase == ASSUME Base, NEW p \in pending, TimeOut(p) PROVE Base'
<1> USE SandboxAssumption
<1>1. /\ pending' = pending \ {p}
      /\ Dismiss(p.child) /\ Settle(p.who, "failed")
      /\ disturbed' = TRUE
      /\ UNCHANGED <<closed, child, channel, inside>>
  BY DEF TimeOut
<1>2. p.child \in Children /\ Runs(p.child)
  BY DEF Base, TypeOK, Runs
<1>3. /\ process' \in Children \cup {None}
      /\ shutdowns' \subseteq Children \ {process'}
      /\ idleTimer' \in {process', None}
      /\ DismissedRun' /\ CurrentNotKilled' /\ NoOrphan'
      /\ process' # None => process' = process /\ idleTimer' = idleTimer /\ process # p.child
  BY <1>1, <1>2, DismissFacts
<1>4. caller' \in [Calls -> CallerType] /\ reinit' \in BOOLEAN /\ Requested'
  BY <1>1, SettleFacts
<1>5. TypeOK'
  BY <1>1, <1>3, <1>4 DEF Base, TypeOK, channel, inside, CallerType
<1>6. Timed'
  BY <1>1, <1>3 DEF Base, Timed, Available, PendingWith
<1>7. GoneIsBlank'
  BY <1>1 DEF Base, GoneIsBlank, inside
<1> QED
  BY <1>3, <1>4, <1>5, <1>6, <1>7 DEF Base

LEMMA DismissBase ==
    ASSUME Base, NEW c \in Children, Runs(c), Dismiss(c), disturbed' \in BOOLEAN, closed' \in BOOLEAN,
           UNCHANGED <<pending, child, channel, inside, callers>>
    PROVE  Base'
<1> USE SandboxAssumption
<1>1. /\ process' \in Children \cup {None}
      /\ shutdowns' \subseteq Children \ {process'}
      /\ idleTimer' \in {process', None}
      /\ DismissedRun' /\ CurrentNotKilled' /\ NoOrphan'
      /\ process' # None => process' = process /\ idleTimer' = idleTimer /\ process # c
  BY DismissFacts
<1>2. TypeOK'
  BY <1>1 DEF Base, TypeOK, channel, inside, callers
<1>3. Timed'
  BY <1>1 DEF Base, Timed, Available, PendingWith
<1> QED
  BY <1>1, <1>2, <1>3 DEF Base, Requested, AskedOnce, CallersPend, ReinitPends, GoneIsBlank,
      callers, inside

LEMMA IdleFiresBase == ASSUME Base, IdleFires PROVE Base'
<1> USE SandboxAssumption
<1>1. /\ idleTimer # None
      /\ IF Available(idleTimer) /\ PendingWith(idleTimer) = {}
            THEN Dismiss(idleTimer)
            ELSE idleTimer' = None /\ UNCHANGED <<process, shutdowns>>
      /\ UNCHANGED <<pending, closed, child, channel, inside, callers, disturbed>>
  BY DEF IdleFires
<1>2. idleTimer = process /\ process \in Children
  BY <1>1 DEF Base, TypeOK
<1>3. CASE Available(idleTimer) /\ PendingWith(idleTimer) = {}
  <2>1. Runs(process) /\ Dismiss(process)
    BY <1>1, <1>2, <1>3 DEF Available, Runs
  <2>2. disturbed' \in BOOLEAN /\ closed' \in BOOLEAN
    BY <1>1 DEF Base, TypeOK
  <2> QED
    BY <1>1, <1>2, <2>1, <2>2, DismissBase
<1>4. CASE ~(Available(idleTimer) /\ PendingWith(idleTimer) = {})
  <2>1. idleTimer' = None /\ UNCHANGED <<process, shutdowns>>
    BY <1>1, <1>4
  <2>2. TypeOK'
    BY <1>1, <2>1 DEF Base, TypeOK, channel, callers, inside
  <2>3. Timed'
    BY <1>1, <1>2, <1>4, <2>1 DEF Timed, Available, PendingWith
  <2> QED
    BY <1>1, <2>1, <2>2, <2>3 DEF Base, Requested, AskedOnce, CallersPend, ReinitPends,
        DismissedRun, CurrentNotKilled, NoOrphan, Runs, GoneIsBlank, callers, inside
<1> QED
  BY <1>3, <1>4

LEMMA ShutdownBase == ASSUME Base, Shutdown PROVE Base'
<1> USE SandboxAssumption
<1>1. /\ closed' = TRUE /\ disturbed' = TRUE
      /\ IF process # None /\ child[process] # "gone"
            THEN Dismiss(process) ELSE idleTimer' = None /\ UNCHANGED <<process, shutdowns>>
      /\ UNCHANGED <<pending, child, channel, inside, callers>>
  BY DEF Shutdown
<1>2. CASE process # None /\ child[process] # "gone"
  <2>1. process \in Children /\ Runs(process) /\ Dismiss(process)
    BY <1>1, <1>2 DEF Base, TypeOK, CurrentNotKilled, Runs, Running
  <2> QED
    BY <1>1, <2>1, DismissBase
<1>3. CASE ~(process # None /\ child[process] # "gone")
  BY <1>1, <1>3 DEF Base, TypeOK, Requested, AskedOnce, CallersPend, ReinitPends,
      DismissedRun, CurrentNotKilled, NoOrphan, Timed, Available, PendingWith, Runs, GoneIsBlank,
      channel, callers, inside
<1> QED
  BY <1>2, <1>3

LEMMA ExitBase == ASSUME Base, NEW c \in Children, Exit(c) PROVE Base'
<1> USE SandboxAssumption
<1>1. /\ child' = [child EXCEPT ![c] = "gone"]
      /\ process' = IF process = c THEN None ELSE process
      /\ idleTimer' = IF process = c THEN None ELSE idleTimer
      /\ shutdowns' = shutdowns \ {c}
      /\ FailAll(c)
      /\ toChild' = [toChild EXCEPT ![c] = <<>>] /\ toParent' = [toParent EXCEPT ![c] = <<>>]
      /\ loaded' = [loaded EXCEPT ![c] = "blank"] /\ working' = [working EXCEPT ![c] = {}]
      /\ disturbed' = (disturbed \/ (c \notin shutdowns /\ child[c] # "killed"))
      /\ UNCHANGED closed
  BY DEF Exit
<1>2. /\ caller' \in [Calls -> CallerType] /\ reinit' \in BOOLEAN
      /\ pending' \subseteq pending
      /\ \A p \in pending' : p.child # c
      /\ Requested'
  BY <1>1, FailAllFacts
<1>3. TypeOK'
  <2>1. toChild' \in [Children -> Seq(Requesters)]
    BY <1>1 DEF Base, TypeOK
  <2>2. toParent' \in [Children -> Seq(Replies)]
    BY <1>1, ToParentTyped DEF Base
  <2>3. /\ pending' \subseteq [who : Requesters, child : Children]
        /\ \A p \in pending' : child'[p.child] \in {"up", "closed"}
    BY <1>1, <1>2 DEF Base, TypeOK
  <2>4. /\ child' \in [Children -> {"gone"} \cup Running]
        /\ loaded' \in [Children -> {"blank", "loading", "ready"}]
        /\ working' \in [Children -> SUBSET Requesters]
        /\ disturbed' \in BOOLEAN /\ closed' \in BOOLEAN
    BY <1>1 DEF Base, TypeOK
  <2>5. /\ process' \in Children \cup {None}
        /\ idleTimer' \in {process', None}
        /\ shutdowns' \subseteq Children \ {process'}
    BY <1>1 DEF Base, TypeOK
  <2> QED
    BY <1>2, <2>1, <2>2, <2>3, <2>4, <2>5 DEF TypeOK, CallerType, Replies
<1>4. DismissedRun' /\ CurrentNotKilled' /\ NoOrphan'
  BY <1>1 DEF Base, TypeOK, DismissedRun, CurrentNotKilled, NoOrphan, Runs
<1>5. Timed'
  <2> SUFFICES ASSUME process # c, process # None, Available(process), (PendingWith(process) = {})'
               PROVE  idleTimer = process
    BY <1>1 DEF Timed, Available, Base, TypeOK
  <2>1. pending' = pending \ PendingWith(c)
    BY <1>1 DEF FailAll
  <2>2. PendingWith(process) = {}
    BY <1>1, <2>1 DEF PendingWith
  <2> QED
    BY <2>2 DEF Base, Timed
<1>6. GoneIsBlank'
  BY <1>1 DEF Base, TypeOK, GoneIsBlank
<1> QED
  BY <1>2, <1>3, <1>4, <1>5, <1>6 DEF Base

LEMMA SpawnFailsBase == ASSUME Base, NEW c \in Children, SpawnFails(c) PROVE Base'
<1> USE SandboxAssumption
<1>1. /\ c = process /\ child[c] = "up" /\ loaded[c] = "blank"
      /\ child' = [child EXCEPT ![c] = "gone"]
      /\ idleTimer' = None
      /\ FailAll(c)
      /\ toChild' = [toChild EXCEPT ![c] = <<>>]
      /\ disturbed' = TRUE
      /\ UNCHANGED <<process, shutdowns, closed, toParent, inside>>
  BY DEF SpawnFails
<1>2. /\ caller' \in [Calls -> CallerType] /\ reinit' \in BOOLEAN
      /\ pending' \subseteq pending
      /\ \A p \in pending' : p.child # c
      /\ Requested'
  BY <1>1, FailAllFacts
<1>3. TypeOK'
  <2>1. toChild' \in [Children -> Seq(Requesters)]
    BY <1>1 DEF Base, TypeOK
  <2>2. /\ pending' \subseteq [who : Requesters, child : Children]
        /\ \A p \in pending' : child'[p.child] \in {"up", "closed"}
    BY <1>1, <1>2 DEF Base, TypeOK
  <2> QED
    BY <1>1, <1>2, <2>1, <2>2 DEF Base, TypeOK, CallerType, inside
<1>4. DismissedRun' /\ CurrentNotKilled' /\ NoOrphan'
  BY <1>1 DEF Base, TypeOK, DismissedRun, CurrentNotKilled, NoOrphan, Runs
<1>5. Timed'
  BY <1>1 DEF Base, TypeOK, Timed, Available
<1>6. GoneIsBlank'
  BY <1>1 DEF Base, TypeOK, GoneIsBlank, inside
<1> QED
  BY <1>2, <1>3, <1>4, <1>5, <1>6 DEF Base

LEMMA ChannelClosesBase == ASSUME Base, NEW c \in Children, ChannelCloses(c) PROVE Base'
<1> USE SandboxAssumption
<1>1. /\ child[c] = "up"
      /\ child' = [child EXCEPT ![c] = "closed"]
      /\ disturbed' = (disturbed \/ c \notin shutdowns)
      /\ UNCHANGED <<parent, closed, channel, inside, callers>>
  BY DEF ChannelCloses
<1>2. TypeOK'
  BY <1>1 DEF Base, TypeOK, parent, channel, inside, callers, Running
<1>3. Timed'
  BY <1>1 DEF Base, TypeOK, Timed, Available, PendingWith, parent
<1>4. DismissedRun' /\ CurrentNotKilled' /\ NoOrphan'
  BY <1>1 DEF Base, TypeOK, DismissedRun, CurrentNotKilled, NoOrphan, Runs, parent
<1>5. Requested' /\ GoneIsBlank'
  BY <1>1 DEF Base, TypeOK, Requested, AskedOnce, CallersPend, ReinitPends, GoneIsBlank,
      parent, callers, inside
<1> QED
  BY <1>2, <1>3, <1>4, <1>5 DEF Base

LEMMA SendFailsBase == ASSUME Base, NEW p \in pending, SendFails(p) PROVE Base'
<1> USE SandboxAssumption
<1>1. /\ \E i \in 1 .. Len(toChild[p.child]) :
            toChild' = [toChild EXCEPT ![p.child] = SubSeq(@, 1, i - 1) \o SubSeq(@, i + 1, Len(@))]
      /\ Clear(p)
      /\ Settle(p.who, "failed")
      /\ UNCHANGED <<process, shutdowns, closed, child, toParent, inside, disturbed>>
  BY DEF SendFails
<1>2. pending' = pending \ {p}
  BY <1>1 DEF Clear
<1>3. caller' \in [Calls -> CallerType] /\ reinit' \in BOOLEAN /\ Requested'
  BY <1>1, <1>2, SettleFacts
<1>4. idleTimer' \in {process', None} /\ Timed'
  BY <1>1, ClearTimed
<1>5. toChild' \in [Children -> Seq(Requesters)]
  <2>1. p.child \in Children /\ toChild[p.child] \in Seq(Requesters)
    BY DEF Base, TypeOK
  <2>2. PICK i \in 1 .. Len(toChild[p.child]) :
            toChild' = [toChild EXCEPT ![p.child] = SubSeq(@, 1, i - 1) \o SubSeq(@, i + 1, Len(@))]
    BY <1>1
  <2>3. SubSeq(toChild[p.child], 1, i - 1) \o SubSeq(toChild[p.child], i + 1, Len(toChild[p.child]))
            \in Seq(Requesters)
    BY <2>1
  <2> QED
    BY <2>1, <2>2, <2>3 DEF Base, TypeOK
<1>6. TypeOK'
  BY <1>1, <1>2, <1>3, <1>4, <1>5 DEF Base, TypeOK, CallerType, inside
<1> QED
  BY <1>1, <1>3, <1>4, <1>6 DEF Base, DismissedRun, CurrentNotKilled, NoOrphan, Runs, GoneIsBlank, inside

LEMMA GraceOverBase == ASSUME Base, NEW c \in Children, GraceOver(c) PROVE Base'
<1> USE SandboxAssumption
<1>1. /\ c \in shutdowns
      /\ child' = [child EXCEPT ![c] = "killed"]
      /\ shutdowns' = shutdowns \ {c}
      /\ FailAll(c)
      /\ UNCHANGED <<process, idleTimer, closed, channel, inside, disturbed>>
  BY DEF GraceOver
<1>2. /\ caller' \in [Calls -> CallerType] /\ reinit' \in BOOLEAN
      /\ pending' \subseteq pending
      /\ \A p \in pending' : p.child # c
      /\ Requested'
  BY <1>1, FailAllFacts
<1>3. TypeOK'
  <2>1. /\ pending' \subseteq [who : Requesters, child : Children]
        /\ \A p \in pending' : child'[p.child] \in {"up", "closed"}
    BY <1>1, <1>2 DEF Base, TypeOK
  <2> QED
    BY <1>1, <1>2, <2>1 DEF Base, TypeOK, CallerType, channel, inside, Running
<1>4. DismissedRun' /\ CurrentNotKilled' /\ NoOrphan'
  BY <1>1 DEF Base, TypeOK, DismissedRun, CurrentNotKilled, NoOrphan, Runs
<1>5. Timed'
  <2>1. pending' = pending \ PendingWith(c)
    BY <1>1 DEF FailAll
  <2>2. process # c /\ (process # None => child'[process] = child[process])
    BY <1>1 DEF Base, TypeOK
  <2>3. PendingWith(process)' = {} => PendingWith(process) = {}
    BY <1>1, <2>1, <2>2 DEF PendingWith
  <2> QED
    BY <1>1, <2>2, <2>3 DEF Base, Timed, Available
<1>6. GoneIsBlank'
  BY <1>1 DEF Base, TypeOK, GoneIsBlank, inside
<1> QED
  BY <1>2, <1>3, <1>4, <1>5, <1>6 DEF Base
-----------------------------------------------------------------------------
(* Lemmas about the sequences on the IPC channel.                          *)

Elems(s) == {s[i] : i \in 1 .. Len(s)}
Whos(s)  == {s[i].who : i \in 1 .. Len(s)}
Distinct(s) == \A i, j \in 1 .. Len(s) : s[i] = s[j] => i = j
DistinctWhos(s) == \A i, j \in 1 .. Len(s) : s[i].who = s[j].who => i = j

LEMMA AppendElems ==
    ASSUME NEW S, NEW s \in Seq(S), NEW e \in S
    PROVE  /\ Elems(Append(s, e)) = Elems(s) \cup {e}
           /\ Distinct(s) /\ e \notin Elems(s) => Distinct(Append(s, e))
<1>1. /\ Len(Append(s, e)) = Len(s) + 1
      /\ \A i \in 1 .. Len(s) : Append(s, e)[i] = s[i]
      /\ Append(s, e)[Len(s) + 1] = e
  OBVIOUS
<1>2. Elems(Append(s, e)) = Elems(s) \cup {e}
  BY <1>1 DEF Elems
<1>3. ASSUME Distinct(s), e \notin Elems(s) PROVE Distinct(Append(s, e))
  BY <1>1, <1>3 DEF Distinct, Elems
<1> QED
  BY <1>2, <1>3

LEMMA TailElems ==
    ASSUME NEW S, NEW s \in Seq(S), s # <<>>
    PROVE  /\ Elems(s) = Elems(Tail(s)) \cup {Head(s)}
           /\ Distinct(s) => Distinct(Tail(s)) /\ Head(s) \notin Elems(Tail(s))
<1>1. /\ Len(s) \in Nat \ {0} /\ Len(Tail(s)) = Len(s) - 1 /\ Head(s) = s[1]
      /\ \A i \in 1 .. Len(s) - 1 : Tail(s)[i] = s[i + 1]
  OBVIOUS
<1>2. \A i \in 2 .. Len(s) : i - 1 \in 1 .. Len(s) - 1 /\ s[i] = Tail(s)[i - 1]
  BY <1>1
<1>3. Elems(s) = Elems(Tail(s)) \cup {Head(s)}
  <2>1. Elems(s) \subseteq Elems(Tail(s)) \cup {Head(s)}
    <3> SUFFICES ASSUME NEW i \in 1 .. Len(s)
                 PROVE  s[i] \in Elems(Tail(s)) \cup {Head(s)}
      BY DEF Elems
    <3>1. i = 1 \/ i \in 2 .. Len(s)
      BY <1>1
    <3> QED
      BY <3>1, <1>1, <1>2 DEF Elems
  <2>2. Elems(Tail(s)) \cup {Head(s)} \subseteq Elems(s)
    BY <1>1 DEF Elems
  <2> QED
    BY <2>1, <2>2
<1>4. ASSUME Distinct(s) PROVE Distinct(Tail(s)) /\ Head(s) \notin Elems(Tail(s))
  BY <1>1, <1>4 DEF Distinct, Elems
<1> QED
  BY <1>3, <1>4

LEMMA TailIndices ==
    ASSUME NEW S, NEW s \in Seq(S), s # <<>>
    PROVE  /\ Len(s) \in Nat \ {0} /\ Len(Tail(s)) = Len(s) - 1
           /\ Head(s) = s[1] /\ Head(s) \in S
           /\ \A i \in 1 .. Len(Tail(s)) : Tail(s)[i] = s[i + 1]
OBVIOUS

LEMMA AppendWhos ==
    ASSUME NEW s \in Seq(Replies), NEW e \in Replies
    PROVE  /\ Whos(Append(s, e)) = Whos(s) \cup {e.who}
           /\ DistinctWhos(s) /\ e.who \notin Whos(s) => DistinctWhos(Append(s, e))
<1>1. /\ Len(Append(s, e)) = Len(s) + 1
      /\ \A i \in 1 .. Len(s) : Append(s, e)[i] = s[i]
      /\ Append(s, e)[Len(s) + 1] = e
  OBVIOUS
<1>2. Whos(Append(s, e)) = Whos(s) \cup {e.who}
  BY <1>1 DEF Whos
<1>3. ASSUME DistinctWhos(s), e.who \notin Whos(s) PROVE DistinctWhos(Append(s, e))
  BY <1>1, <1>3 DEF DistinctWhos, Whos
<1> QED
  BY <1>2, <1>3

LEMMA TailWhos ==
    ASSUME NEW s \in Seq(Replies), s # <<>>
    PROVE  /\ Whos(Tail(s)) \subseteq Whos(s) /\ Head(s).who \in Whos(s)
           /\ DistinctWhos(s) => DistinctWhos(Tail(s)) /\ Head(s).who \notin Whos(Tail(s))
<1>1. /\ Len(s) \in Nat \ {0} /\ Len(Tail(s)) = Len(s) - 1 /\ Head(s) = s[1]
      /\ \A i \in 1 .. Len(s) - 1 : Tail(s)[i] = s[i + 1]
  OBVIOUS
<1> QED
  BY <1>1 DEF DistinctWhos, Whos

-----------------------------------------------------------------------------
(* Calm, one lemma for each action that does not end it.                   *)

Entry(who, c) == [who |-> who, child |-> c]
Asked(c)    == Elems(toChild[c])
Answered(c) == Whos(toParent[c])


\* Requests are with the current child, which runs with its channel open.
PendingCurrent == \A p \in pending : p.child = process
ClosedDismissed == \A c \in Children : child[c] = "closed" => c \in shutdowns
CurrentUp == process # None => child[process] = "up"

\* A request on its way or worked on is pending, and at one place only.
OfPending == \A c \in Children :
    \A who \in Asked(c) \cup working[c] \cup Answered(c) : Entry(who, c) \in pending
Once == \A c \in Children :
    /\ Distinct(toChild[c]) /\ DistinctWhos(toParent[c])
    /\ Asked(c) \cap working[c] = {} /\ Asked(c) \cap Answered(c) = {}
    /\ working[c] \cap Answered(c) = {}

\* Initialize goes to a blank child, is worked on while it loads, and is
\* answered when it is ready.
Loading == \A c \in Children :
    /\ Initialize \in Asked(c) => loaded[c] = "blank"
    /\ Initialize \in working[c] <=> loaded[c] = "loading"
    /\ Initialize \in Answered(c) => loaded[c] = "ready"

\* "Unknown plugin" comes before the answer to initialize, and only to those
\* who call for the first time.
Overtaken(s) == \A i \in 1 .. Len(s) : s[i].reply = "unknown" =>
    \E j \in i + 1 .. Len(s) : s[j].who = Initialize
UnknownFirst == \A c \in Children : loaded[c] = "ready" => Overtaken(toParent[c])
UnknownCaller == \A c \in Children : \A i \in 1 .. Len(toParent[c]) :
    toParent[c][i].reply = "unknown" => /\ toParent[c][i].who \in Calls
                                        /\ caller[toParent[c][i].who] = "first"

\* Who is told so initializes a blank child or joins; who retries or has
\* retried has a child that is ready.
CallerUnknown == \A k \in Calls : caller[k] = "unknown" =>
    process # None /\ (reinit \/ loaded[process] = "blank")
CallerRetries == \A k \in Calls : caller[k] \in {"retry", "second"} =>
    process # None /\ loaded[process] = "ready"
NoneFailed == \A k \in Calls : caller[k] \notin {"surfaced", "failed"}

Transport == PendingCurrent /\ ClosedDismissed /\ CurrentUp /\ OfPending /\ Once
Answers   == Loading /\ UnknownFirst /\ UnknownCaller
Sequel    == CallerUnknown /\ CallerRetries /\ NoneFailed
Calm == Transport /\ Answers /\ Sequel

\* With no current child nothing is on its way, to the new one neither.
LEMMA CalmStart ==
    ASSUME Base, Calm, NEW c \in Children, Start(c)
    PROVE  /\ process # None => c = process
           /\ ClosedDismissed' /\ CurrentUp'
           /\ process = None => pending = {} /\ Asked(c) = {} /\ working[c] = {} /\ Answered(c) = {}
<1> USE SandboxAssumption
<1>1. process # None => c = process
  BY DEF Start, Available, Calm, Transport, CurrentUp
<1>2. process' = c /\ child'[c] = "up" /\ shutdowns \subseteq shutdowns'
      /\ (\A d \in Children : d # c => child'[d] = child[d])
  BY StartFacts DEF Start, Base, TypeOK
<1>3. ClosedDismissed' /\ CurrentUp'
  BY <1>2 DEF Calm, Transport, ClosedDismissed, CurrentUp
<1>4. ASSUME process = None
      PROVE  pending = {} /\ Asked(c) = {} /\ working[c] = {} /\ Answered(c) = {}
  <2>1. pending = {}
    BY <1>4 DEF Calm, Transport, PendingCurrent, Base, TypeOK
  <2> QED
    BY <2>1 DEF Calm, Transport, OfPending
<1> QED
  BY <1>1, <1>3, <1>4

LEMMA CalmSend ==
    ASSUME Base, Calm, NEW who \in Requesters, Send(who),
           \A p \in pending : p.who # who,
           who = Initialize => process # None /\ loaded[process] = "blank",
           reinit => reinit',
           \A k \in Calls :
              /\ caller[k] = "first" => caller'[k] = "first"
              /\ caller'[k] = "unknown" => caller[k] = "unknown"
              /\ caller'[k] \in {"retry", "second"} => caller[k] \in {"retry", "second"}
              /\ caller'[k] \in {"surfaced", "failed"} => caller[k] \in {"surfaced", "failed"}
    PROVE  Calm'
<1> USE SandboxAssumption
<1>1. PICK c \in Children :
        /\ Start(c)
        /\ pending' = pending \cup {[who |-> who, child |-> c]}
        /\ idleTimer' = None
        /\ toChild' = [toChild EXCEPT ![c] = Append(@, who)]
        /\ UNCHANGED <<closed, toParent, inside, disturbed>>
  BY DEF Send
<1>2. /\ process # None => c = process
      /\ ClosedDismissed' /\ CurrentUp'
      /\ process = None => pending = {} /\ Asked(c) = {} /\ working[c] = {} /\ Answered(c) = {}
  BY <1>1, CalmStart
<1>3. process' = c
  BY <1>1, StartFacts
<1>4. PendingCurrent'
  BY <1>1, <1>2, <1>3 DEF Calm, Transport, PendingCurrent
<1>5. /\ Asked(c)' = Asked(c) \cup {who}
      /\ Distinct(toChild[c]) /\ who \notin Asked(c) => Distinct(toChild'[c])
      /\ \A d \in Children : d # c => toChild'[d] = toChild[d]
  <2>1. toChild[c] \in Seq(Requesters) /\ toChild'[c] = Append(toChild[c], who)
    BY <1>1 DEF Base, TypeOK
  <2> QED
    BY <1>1, <2>1, AppendElems DEF Asked, Base, TypeOK
<1>6. \A d \in Children : working'[d] = working[d] /\ Answered(d)' = Answered(d)
                          /\ (d # c => Asked(d)' = Asked(d))
  BY <1>1, <1>5 DEF inside, Answered, Asked
<1>7. OfPending'
  <2>1. Entry(who, c) \in pending' /\ pending \subseteq pending'
    BY <1>1 DEF Entry
  <2> QED
    BY <1>5, <1>6, <2>1 DEF Calm, Transport, OfPending, Entry
<1>8. who \notin Asked(c) \cup working[c] \cup Answered(c)
  <2>1. Entry(who, c).who = who
    BY DEF Entry
  <2> QED
    BY <2>1 DEF Calm, Transport, OfPending
<1>9. Once'
  <2> SUFFICES ASSUME NEW d \in Children
               PROVE  /\ Distinct(toChild'[d]) /\ DistinctWhos(toParent'[d])
                      /\ Asked(d)' \cap working'[d] = {} /\ Asked(d)' \cap Answered(d)' = {}
                      /\ working'[d] \cap Answered(d)' = {}
    BY DEF Once
  <2>1. DistinctWhos(toParent'[d])
    BY <1>1 DEF Calm, Transport, Once
  <2>2. CASE d = c
    BY <1>5, <1>6, <1>8, <2>1, <2>2 DEF Calm, Transport, Once
  <2>3. CASE d # c
    BY <1>5, <1>6, <2>1, <2>3 DEF Calm, Transport, Once
  <2> QED
    BY <2>2, <2>3
<1>10. Loading'
  BY <1>1, <1>2, <1>5, <1>6 DEF Calm, Answers, Loading, inside
<1>11. UnknownFirst' /\ UnknownCaller'
  BY <1>1 DEF Calm, Answers, UnknownFirst, UnknownCaller, inside
<1>12. Sequel'
  BY <1>1, <1>2, <1>3 DEF Calm, Sequel, CallerUnknown, CallerRetries, NoneFailed, inside
<1> QED
  BY <1>2, <1>4, <1>7, <1>9, <1>10, <1>11, <1>12 DEF Calm, Transport, Answers

LEMMA CallCalm == ASSUME Base, Calm, NEW k \in Calls, Call(k) PROVE Calm'
<1> USE SandboxAssumption
<1>1. caller[k] = "new" /\ Send(k) /\ caller' = [caller EXCEPT ![k] = "first"] /\ reinit' = reinit
  BY DEF Call
<1>2. k \in Requesters /\ k # Initialize /\ \A p \in pending : p.who # k
  BY <1>1 DEF Requesters, Base, Requested, CallersPend
<1> QED
  BY <1>1, <1>2, CalmSend DEF Base, TypeOK

LEMMA CallSanitizedCalm == ASSUME Base, Calm, NEW k \in Calls, CallSanitized(k) PROVE Calm'
<1> USE SandboxAssumption
<1>1. caller[k] = "sanitized" /\ Send(k) /\ caller' = [caller EXCEPT ![k] = "first"] /\ reinit' = reinit
  BY DEF CallSanitized
<1>2. k \in Requesters /\ k # Initialize /\ \A p \in pending : p.who # k
  BY <1>1 DEF Requesters, Base, Requested, CallersPend
<1> QED
  BY <1>1, <1>2, CalmSend DEF Base, TypeOK

LEMMA RetryCalm == ASSUME Base, Calm, NEW k \in Calls, Retry(k) PROVE Calm'
<1> USE SandboxAssumption
<1>1. caller[k] = "retry" /\ Send(k) /\ caller' = [caller EXCEPT ![k] = "second"] /\ reinit' = reinit
  BY DEF Retry
<1>2. k \in Requesters /\ k # Initialize /\ \A p \in pending : p.who # k
  BY <1>1 DEF Requesters, Base, Requested, CallersPend
<1> QED
  BY <1>1, <1>2, CalmSend DEF Base, TypeOK

LEMMA ReinitializeCalm == ASSUME Base, Calm, NEW k \in Calls, Reinitialize(k) PROVE Calm'
<1> USE SandboxAssumption
<1>1. caller[k] = "unknown" /\ caller' = [caller EXCEPT ![k] = "reinit"] /\ reinit' = TRUE
  BY DEF Reinitialize
<1>2. \A l \in Calls : caller'[l] = IF l = k THEN "reinit" ELSE caller[l]
  BY <1>1 DEF Base, TypeOK
<1>3. CASE reinit
  <2>1. UNCHANGED <<parent, closed, child, channel, inside, disturbed>>
    BY <1>3 DEF Reinitialize
  <2>2. Transport'
    BY <2>1 DEF Calm, Transport, PendingCurrent, ClosedDismissed, CurrentUp, OfPending, Once,
        Asked, Answered, parent, channel, inside
  <2>3. UnknownCaller'
    BY <1>1, <1>2, <2>1 DEF Calm, Answers, UnknownCaller, channel
  <2>4. Loading' /\ UnknownFirst'
    BY <2>1 DEF Calm, Answers, Loading, UnknownFirst, Asked, Answered, channel, inside
  <2>5. Sequel'
    BY <1>1, <1>2, <1>3, <2>1 DEF Calm, Sequel, CallerUnknown, CallerRetries, NoneFailed,
        parent, inside
  <2> QED
    BY <2>2, <2>3, <2>4, <2>5 DEF Calm, Answers
<1>4. CASE ~reinit
  <2>1. Send(Initialize) /\ Initialize \in Requesters
    BY <1>4 DEF Reinitialize, Requesters
  <2>2. \A p \in pending : p.who # Initialize
    BY <1>4 DEF Base, Requested, ReinitPends
  <2>3. process # None /\ loaded[process] = "blank"
    BY <1>1, <1>4 DEF Calm, Sequel, CallerUnknown
  <2> QED
    BY <1>1, <1>2, <2>1, <2>2, <2>3, CalmSend
<1> QED
  BY <1>3, <1>4

LEMMA CallRefusedCalm == ASSUME Base, Calm, NEW k \in Calls, CallRefused(k) PROVE Calm'
<1> USE SandboxAssumption
<1>1. PICK c \in Children, outcome \in {"sanitized", "refused"} :
        /\ caller[k] = "new"
        /\ Start(c)
        /\ caller' = [caller EXCEPT ![k] = outcome]
        /\ UNCHANGED <<pending, closed, channel, inside, reinit, disturbed>>
  BY DEF CallRefused
<1>2. /\ process # None => c = process
      /\ ClosedDismissed' /\ CurrentUp'
      /\ process = None => pending = {} /\ Asked(c) = {} /\ working[c] = {} /\ Answered(c) = {}
  BY <1>1, CalmStart
<1>3. process' = c
  BY <1>1, StartFacts
<1>4. \A l \in Calls : caller'[l] = IF l = k THEN outcome ELSE caller[l]
  BY <1>1 DEF Base, TypeOK
<1>5. PendingCurrent'
  BY <1>1, <1>2, <1>3 DEF Calm, Transport, PendingCurrent
<1>6. OfPending' /\ Once' /\ Loading' /\ UnknownFirst'
  BY <1>1 DEF Calm, Transport, Answers, OfPending, Once, Loading, UnknownFirst, Asked, Answered,
      channel, inside
<1>7. UnknownCaller'
  BY <1>1, <1>4 DEF Calm, Answers, UnknownCaller, channel
<1>8. Sequel'
  BY <1>1, <1>2, <1>3, <1>4 DEF Calm, Sequel, CallerUnknown, CallerRetries, NoneFailed, inside
<1> QED
  BY <1>2, <1>5, <1>6, <1>7, <1>8 DEF Calm, Transport, Answers

LEMMA QuietCallers == ASSUME Quiet PROVE \A k \in Calls : caller[k] \notin {"unknown", "retry"}
BY DEF Quiet, Due

LEMMA ReceiveCalm == ASSUME Base, Calm, NEW c \in Children, Receive(c) PROVE Calm'
<1> USE SandboxAssumption
<1> DEFINE who == Head(toChild[c])
           reply == [who |-> who, reply |-> IF who = Initialize THEN "ok" ELSE "unknown"]
<1>1. /\ Quiet /\ Runs(c) /\ toChild[c] # <<>>
      /\ toChild' = [toChild EXCEPT ![c] = Tail(@)]
      /\ loaded' = IF who = Initialize THEN [loaded EXCEPT ![c] = "loading"] ELSE loaded
      /\ working' = IF who = Initialize \/ loaded[c] = "ready"
                      THEN [working EXCEPT ![c] = @ \cup {who}] ELSE working
      /\ toParent' = IF Reply(c, who) THEN [toParent EXCEPT ![c] = Append(@, reply)] ELSE toParent
      /\ UNCHANGED <<parent, closed, child, callers, disturbed>>
  BY DEF Receive
<1>2. /\ Asked(c) = Asked(c)' \cup {who}
      /\ Distinct(toChild'[c]) /\ who \notin Asked(c)'
      /\ \A d \in Children : d # c => toChild'[d] = toChild[d]
  <2>1. toChild[c] \in Seq(Requesters) /\ toChild'[c] = Tail(toChild[c])
    BY <1>1 DEF Base, TypeOK
  <2> QED
    BY <1>1, <2>1, TailElems DEF Asked, Calm, Transport, Once, Base, TypeOK
<1>3. who \in Requesters /\ Entry(who, c) \in pending
      /\ who \notin working[c] /\ who \notin Answered(c)
  BY <1>2 DEF Calm, Transport, OfPending, Once, Entry, Base, TypeOK
<1>4. process # None /\ c = process
  BY <1>3 DEF Calm, Transport, PendingCurrent, Entry, Base, TypeOK
<1>5. Reply(c, who) => /\ Answered(c)' = Answered(c) \cup {who}
                       /\ DistinctWhos(toParent'[c])
                       /\ toParent'[c] = Append(toParent[c], reply)
  <2>1. reply \in Replies /\ reply.who = who
    BY <1>3 DEF Replies
  <2>2. toParent[c] \in Seq(Replies) /\ DistinctWhos(toParent[c])
    BY ToParentTyped DEF Base, Calm, Transport, Once
  <2>3. Reply(c, who) => toParent'[c] = Append(toParent[c], reply)
    BY <1>1 DEF Base, TypeOK
  <2> QED
    BY <1>3, <2>1, <2>2, <2>3, AppendWhos DEF Answered
<1>6. ~Reply(c, who) => toParent' = toParent
  BY <1>1
<1>7. \A d \in Children : d # c => /\ toParent'[d] = toParent[d] /\ Asked(d)' = Asked(d)
                                   /\ Answered(d)' = Answered(d) /\ working'[d] = working[d]
                                   /\ loaded'[d] = loaded[d]
  BY <1>1, <1>2 DEF Asked, Answered, Base, TypeOK
<1>8. /\ Reply(c, who) <=> who # Initialize /\ loaded[c] # "ready"
      /\ Reply(c, who) => working'[c] = working[c]
      /\ ~Reply(c, who) => working'[c] = working[c] \cup {who}
      /\ loaded'[c] = IF who = Initialize THEN "loading" ELSE loaded[c]
  BY <1>1 DEF Reply, Base, TypeOK
<1>9. OfPending'
  <2> SUFFICES ASSUME NEW d \in Children, NEW w \in Asked(d)' \cup working'[d] \cup Answered(d)'
               PROVE  Entry(w, d) \in pending
    BY <1>1 DEF OfPending, parent, Entry
  <2>1. CASE d = c
    <3>1. w \in Asked(c) \cup working[c] \cup Answered(c)
      BY <2>1, <1>2, <1>5, <1>6, <1>8 DEF Answered
    <3> QED
      BY <2>1, <3>1 DEF Calm, Transport, OfPending
  <2>2. CASE d # c
    BY <2>2, <1>7 DEF Calm, Transport, OfPending
  <2> QED
    BY <2>1, <2>2
<1>10. Once'
  <2> SUFFICES ASSUME NEW d \in Children
               PROVE  /\ Distinct(toChild'[d]) /\ DistinctWhos(toParent'[d])
                      /\ Asked(d)' \cap working'[d] = {} /\ Asked(d)' \cap Answered(d)' = {}
                      /\ working'[d] \cap Answered(d)' = {}
    BY DEF Once
  <2>1. CASE d = c /\ Reply(c, who)
    BY <2>1, <1>2, <1>3, <1>5, <1>8 DEF Calm, Transport, Once
  <2>2. CASE d = c /\ ~Reply(c, who)
    BY <2>2, <1>2, <1>3, <1>6, <1>8 DEF Calm, Transport, Once, Answered
  <2>3. CASE d # c
    BY <2>3, <1>2, <1>7 DEF Calm, Transport, Once
  <2> QED
    BY <2>1, <2>2, <2>3
<1>11. Loading'
  <2> SUFFICES ASSUME NEW d \in Children
               PROVE  /\ Initialize \in Asked(d)' => loaded'[d] = "blank"
                      /\ Initialize \in working'[d] <=> loaded'[d] = "loading"
                      /\ Initialize \in Answered(d)' => loaded'[d] = "ready"
    BY DEF Loading
  <2>1. CASE d # c
    BY <2>1, <1>7 DEF Calm, Answers, Loading
  <2>2. CASE d = c /\ who = Initialize
    BY <2>2, <1>2, <1>3, <1>6, <1>8 DEF Answered
  <2>3. CASE d = c /\ who # Initialize
    BY <2>3, <1>2, <1>5, <1>6, <1>8 DEF Calm, Answers, Loading, Answered
  <2> QED
    BY <2>1, <2>2, <2>3
<1>12. UnknownFirst'
  <2> SUFFICES ASSUME NEW d \in Children, loaded'[d] = "ready"
               PROVE  Overtaken(toParent'[d])
    BY DEF UnknownFirst
  <2>1. toParent'[d] = toParent[d] /\ loaded[d] = "ready"
    BY <1>6, <1>7, <1>8
  <2> QED
    BY <2>1 DEF Calm, Answers, UnknownFirst
<1>13. UnknownCaller'
  <2>1. CASE ~Reply(c, who)
    BY <2>1, <1>1, <1>6 DEF Calm, Answers, UnknownCaller, callers
  <2>2. CASE Reply(c, who)
    <3>1. who \in Calls /\ loaded[c] # "ready"
      BY <2>2, <1>3, <1>8 DEF Requesters
    <3>2. caller[who] \in {"first", "second"}
      BY <3>1, <1>3 DEF Base, Requested, CallersPend, Entry
    <3>3. caller[who] = "first"
      BY <3>1, <3>2, <1>4 DEF Calm, Sequel, CallerRetries
    <3>4. toParent[c] \in Seq(Replies) /\ reply \in Replies
      BY <1>3, ToParentTyped DEF Base, Replies
    <3>5. \A i \in 1 .. Len(toParent'[c]) : toParent'[c][i] = reply \/
                 (i \in 1 .. Len(toParent[c]) /\ toParent'[c][i] = toParent[c][i])
      BY <2>2, <1>5, <3>4
    <3> QED
      BY <1>1, <1>7, <3>1, <3>3, <3>5 DEF Calm, Answers, UnknownCaller, callers
  <2> QED
    BY <2>1, <2>2
<1>14. Sequel'
  <2>1. \A k \in Calls : caller[k] = "second" => loaded[c] = "ready" /\ who # Initialize
    <3>1. loaded[c] = "ready" => who # Initialize
      BY <1>2 DEF Calm, Answers, Loading
    <3> QED
      BY <3>1, <1>4 DEF Calm, Sequel, CallerRetries
  <2>2. \A k \in Calls : caller[k] \notin {"unknown", "retry"}
    BY <1>1, QuietCallers
  <2> QED
    BY <1>1, <1>4, <1>8, <2>1, <2>2 DEF Calm, Sequel, CallerUnknown, CallerRetries, NoneFailed,
        callers, parent
<1>15. PendingCurrent' /\ ClosedDismissed' /\ CurrentUp'
  BY <1>1 DEF Calm, Transport, PendingCurrent, ClosedDismissed, CurrentUp, parent
<1> QED
  BY <1>9, <1>10, <1>11, <1>12, <1>13, <1>14, <1>15 DEF Calm, Transport, Answers

LEMMA WorkCalm == ASSUME Base, Calm, NEW c \in Children, NEW who \in Requesters, Work(c, who)
                  PROVE  Calm'
<1> USE SandboxAssumption
<1> DEFINE reply == [who |-> who, reply |-> "ok"]
<1>1. /\ Quiet /\ Runs(c) /\ who \in working[c]
      /\ working' = [working EXCEPT ![c] = @ \ {who}]
      /\ loaded' = IF who = Initialize THEN [loaded EXCEPT ![c] = "ready"] ELSE loaded
      /\ toParent' = [toParent EXCEPT ![c] = Append(@, reply)]
      /\ UNCHANGED <<parent, closed, child, toChild, callers, disturbed>>
  BY DEF Work
<1>2. Entry(who, c) \in pending /\ who \notin Asked(c) /\ who \notin Answered(c)
  BY <1>1 DEF Calm, Transport, OfPending, Once
<1>3. process # None /\ c = process
  BY <1>2 DEF Calm, Transport, PendingCurrent, Entry
<1>4. toParent[c] \in Seq(Replies) /\ reply \in Replies /\ reply.who = who
      /\ toParent'[c] = Append(toParent[c], reply)
  BY <1>1, ToParentTyped DEF Base, TypeOK, Replies
<1>5. Answered(c)' = Answered(c) \cup {who} /\ DistinctWhos(toParent'[c])
  BY <1>2, <1>4, AppendWhos DEF Answered, Calm, Transport, Once
<1>6. \A d \in Children : /\ Asked(d)' = Asked(d)
                          /\ d # c => /\ toParent'[d] = toParent[d] /\ Answered(d)' = Answered(d)
                                      /\ working'[d] = working[d] /\ loaded'[d] = loaded[d]
  BY <1>1 DEF Asked, Answered, Base, TypeOK
<1>7. working'[c] = working[c] \ {who}
      /\ loaded'[c] = IF who = Initialize THEN "ready" ELSE loaded[c]
  BY <1>1 DEF Base, TypeOK
<1>8. OfPending'
  <2> SUFFICES ASSUME NEW d \in Children, NEW w \in Asked(d)' \cup working'[d] \cup Answered(d)'
               PROVE  Entry(w, d) \in pending
    BY <1>1 DEF OfPending, parent, Entry
  <2>1. w \in Asked(d) \cup working[d] \cup Answered(d) \/ (d = c /\ w = who)
    BY <1>5, <1>6, <1>7
  <2> QED
    BY <2>1, <1>2 DEF Calm, Transport, OfPending
<1>9. Once'
  <2> SUFFICES ASSUME NEW d \in Children
               PROVE  /\ Distinct(toChild'[d]) /\ DistinctWhos(toParent'[d])
                      /\ Asked(d)' \cap working'[d] = {} /\ Asked(d)' \cap Answered(d)' = {}
                      /\ working'[d] \cap Answered(d)' = {}
    BY DEF Once
  <2>1. Distinct(toChild'[d])
    BY <1>1 DEF Calm, Transport, Once
  <2>2. CASE d = c
    BY <2>1, <2>2, <1>2, <1>5, <1>6, <1>7 DEF Calm, Transport, Once
  <2>3. CASE d # c
    BY <2>1, <2>3, <1>6 DEF Calm, Transport, Once
  <2> QED
    BY <2>2, <2>3
<1>10. Loading'
  <2> SUFFICES ASSUME NEW d \in Children
               PROVE  /\ Initialize \in Asked(d)' => loaded'[d] = "blank"
                      /\ Initialize \in working'[d] <=> loaded'[d] = "loading"
                      /\ Initialize \in Answered(d)' => loaded'[d] = "ready"
    BY DEF Loading
  <2>1. CASE d # c
    BY <2>1, <1>6 DEF Calm, Answers, Loading
  <2>2. CASE d = c /\ who = Initialize
    BY <2>2, <1>2, <1>6, <1>7
  <2>3. CASE d = c /\ who # Initialize
    BY <2>3, <1>5, <1>6, <1>7 DEF Calm, Answers, Loading
  <2> QED
    BY <2>1, <2>2, <2>3
<1>11. \A i \in 1 .. Len(toParent'[c]) :
          \/ i = Len(toParent[c]) + 1 /\ toParent'[c][i] = reply
          \/ i \in 1 .. Len(toParent[c]) /\ toParent'[c][i] = toParent[c][i]
  BY <1>4
<1>12. Len(toParent'[c]) = Len(toParent[c]) + 1 /\ Len(toParent[c]) \in Nat
       /\ \A i \in 1 .. Len(toParent[c]) : toParent'[c][i] = toParent[c][i]
       /\ toParent'[c][Len(toParent[c]) + 1] = reply
  BY <1>4
<1>13. UnknownFirst'
  <2> SUFFICES ASSUME NEW d \in Children, loaded'[d] = "ready"
               PROVE  Overtaken(toParent'[d])
    BY DEF UnknownFirst
  <2>1. CASE d # c
    BY <2>1, <1>6 DEF Calm, Answers, UnknownFirst
  <2>2. CASE d = c /\ who = Initialize
    <3> SUFFICES ASSUME NEW i \in 1 .. Len(toParent'[c]), toParent'[c][i].reply = "unknown"
                 PROVE  \E j \in i + 1 .. Len(toParent'[c]) : toParent'[c][j].who = Initialize
      BY <2>2 DEF Overtaken
    <3>1. i \in 1 .. Len(toParent[c])
      BY <1>11
    <3>2. Len(toParent[c]) + 1 \in i + 1 .. Len(toParent'[c])
      BY <1>12, <3>1
    <3> QED
      BY <2>2, <3>2, <1>12
  <2>3. CASE d = c /\ who # Initialize
    <3>1. Overtaken(toParent[c])
      BY <2>3, <1>7 DEF Calm, Answers, UnknownFirst
    <3> SUFFICES ASSUME NEW i \in 1 .. Len(toParent'[c]), toParent'[c][i].reply = "unknown"
                 PROVE  \E j \in i + 1 .. Len(toParent'[c]) : toParent'[c][j].who = Initialize
      BY <2>3 DEF Overtaken
    <3>2. i \in 1 .. Len(toParent[c]) /\ toParent[c][i].reply = "unknown"
      BY <1>11
    <3>3. PICK j \in i + 1 .. Len(toParent[c]) : toParent[c][j].who = Initialize
      BY <3>1, <3>2 DEF Overtaken
    <3>4. j \in 1 .. Len(toParent[c]) /\ j \in i + 1 .. Len(toParent'[c])
      BY <3>2, <3>3, <1>12
    <3> QED
      BY <3>3, <3>4, <1>12
  <2> QED
    BY <2>1, <2>2, <2>3
<1>14. UnknownCaller'
  BY <1>1, <1>6, <1>11 DEF Calm, Answers, UnknownCaller, callers
<1>15. Sequel'
  <2>1. who = Initialize => reinit
    BY <1>2 DEF Base, Requested, ReinitPends, Entry
  <2>2. \A k \in Calls : caller[k] \notin {"unknown", "retry"}
    BY <1>1, QuietCallers
  <2> QED
    BY <1>1, <1>3, <1>7, <2>2 DEF Calm, Sequel, CallerUnknown, CallerRetries, NoneFailed,
        callers, parent
<1>16. PendingCurrent' /\ ClosedDismissed' /\ CurrentUp'
  BY <1>1 DEF Calm, Transport, PendingCurrent, ClosedDismissed, CurrentUp, parent
<1> QED
  BY <1>8, <1>9, <1>10, <1>13, <1>14, <1>15, <1>16 DEF Calm, Transport, Answers

LEMMA DeliverCalm == ASSUME Base, Calm, NEW c \in Children, Deliver(c) PROVE Calm'
<1> USE SandboxAssumption
<1> DEFINE m == Head(toParent[c])
           p == Entry(m.who, c)
<1>1. /\ Quiet /\ toParent[c] # <<>>
      /\ toParent' = [toParent EXCEPT ![c] = Tail(@)]
      /\ IF p \in pending THEN Clear(p) /\ Settle(m.who, m.reply)
                          ELSE UNCHANGED <<pending, idleTimer, callers>>
      /\ UNCHANGED <<process, shutdowns, closed, child, toChild, inside, disturbed>>
  BY DEF Deliver, Entry
<1>2. toParent[c] \in Seq(Replies) /\ toParent'[c] = Tail(toParent[c])
  BY <1>1, ToParentTyped DEF Base, TypeOK
<1>3. /\ Answered(c)' \subseteq Answered(c) /\ m.who \in Answered(c)
      /\ DistinctWhos(toParent'[c]) /\ m.who \notin Answered(c)'
  BY <1>1, <1>2, TailWhos DEF Answered, Calm, Transport, Once
<1>4. m.who \in Requesters /\ m.reply \in {"ok", "unknown"}
  <2>1. m \in Replies
    BY <1>1, <1>2, TailIndices
  <2> QED
    BY <2>1 DEF Replies
<1>5. p \in pending /\ p.who = m.who /\ p.child = c
  BY <1>3 DEF Calm, Transport, OfPending, Entry
<1>6. pending' = pending \ {p} /\ Settle(m.who, m.reply)
  BY <1>1, <1>5 DEF Clear
<1>7. process # None /\ c = process /\ process' = process
  BY <1>1, <1>5 DEF Calm, Transport, PendingCurrent
<1>8. \A d \in Children : /\ Asked(d)' = Asked(d) /\ working'[d] = working[d]
                          /\ loaded'[d] = loaded[d] /\ toChild'[d] = toChild[d]
                          /\ d # c => toParent'[d] = toParent[d] /\ Answered(d)' = Answered(d)
  BY <1>1 DEF Asked, Answered, inside, Base, TypeOK
<1>9. OfPending'
  <2> SUFFICES ASSUME NEW d \in Children, NEW w \in Asked(d)' \cup working'[d] \cup Answered(d)'
               PROVE  Entry(w, d) \in pending'
    BY DEF OfPending, Entry
  <2>1. Entry(w, d) \in pending
    BY <1>3, <1>8 DEF Calm, Transport, OfPending
  <2>2. d = c => w # m.who
    BY <1>3, <1>8 DEF Calm, Transport, Once
  <2> QED
    BY <2>1, <2>2, <1>6 DEF Entry
<1>10. Once'
  BY <1>3, <1>8 DEF Calm, Transport, Once
<1>11. Loading'
  BY <1>3, <1>8 DEF Calm, Answers, Loading
<1>12. /\ Len(toParent[c]) \in Nat \ {0} /\ Len(toParent'[c]) = Len(toParent[c]) - 1
       /\ m = toParent[c][1]
       /\ \A i \in 1 .. Len(toParent'[c]) : toParent'[c][i] = toParent[c][i + 1]
  <2>1. toParent[c] # <<>>
    BY <1>1
  <2> QED
    BY <2>1, <1>2, TailIndices
<1>13. \A d \in Children : \A i \in 1 .. Len(toParent'[d]) :
          d # c \/ toParent'[d][i].who # m.who
  BY <1>3 DEF Answered, Whos
<1>14. UnknownFirst'
  <2> SUFFICES ASSUME NEW d \in Children, loaded'[d] = "ready"
               PROVE  Overtaken(toParent'[d])
    BY DEF UnknownFirst
  <2>1. CASE d # c
    BY <2>1, <1>8 DEF Calm, Answers, UnknownFirst
  <2>2. CASE d = c
    <3>1. Overtaken(toParent[c])
      BY <2>2, <1>8 DEF Calm, Answers, UnknownFirst
    <3> SUFFICES ASSUME NEW i \in 1 .. Len(toParent'[c]), toParent'[c][i].reply = "unknown"
                 PROVE  \E j \in i + 1 .. Len(toParent'[c]) : toParent'[c][j].who = Initialize
      BY <2>2 DEF Overtaken
    <3>2. i + 1 \in 1 .. Len(toParent[c]) /\ toParent[c][i + 1].reply = "unknown"
      BY <1>12
    <3>3. PICK j \in i + 2 .. Len(toParent[c]) : toParent[c][j].who = Initialize
      BY <3>1, <3>2 DEF Overtaken
    <3>4. j - 1 \in i + 1 .. Len(toParent'[c]) /\ j - 1 \in 1 .. Len(toParent'[c])
          /\ (j - 1) + 1 = j
      BY <3>3, <1>12
    <3> QED
      BY <3>3, <3>4, <1>12
  <2> QED
    BY <2>1, <2>2
<1>15. ASSUME m.who = Initialize PROVE UnknownCaller' /\ Sequel'
  <2>1. m.reply = "ok"
    <3>1. m.who \notin Calls /\ 1 \in 1 .. Len(toParent[c])
      BY <1>12, <1>15
    <3> QED
      BY <1>4, <1>12, <3>1 DEF Calm, Answers, UnknownCaller
  <2>2. /\ reinit' = FALSE
        /\ \A k \in Calls : caller'[k] = IF caller[k] = "reinit" THEN "retry" ELSE caller[k]
    BY <1>6, <1>15, <2>1 DEF Settle
  <2>3. loaded[c] = "ready"
    BY <1>3, <1>15 DEF Calm, Answers, Loading
  <2>4. UnknownCaller'
    <3> SUFFICES ASSUME NEW d \in Children, NEW i \in 1 .. Len(toParent'[d]),
                        toParent'[d][i].reply = "unknown"
                 PROVE  toParent'[d][i].who \in Calls /\ caller'[toParent'[d][i].who] = "first"
      BY DEF UnknownCaller
    <3>1. \E j \in 1 .. Len(toParent[d]) : toParent[d][j] = toParent'[d][i]
      <4>1. CASE d = c
        BY <4>1, <1>12
      <4>2. CASE d # c
        BY <4>2, <1>8
      <4> QED
        BY <4>1, <4>2
    <3>2. toParent'[d][i].who \in Calls /\ caller[toParent'[d][i].who] = "first"
      BY <3>1 DEF Calm, Answers, UnknownCaller
    <3> QED
      BY <3>2, <2>2
  <2>5. Sequel'
    <3>1. \A k \in Calls : caller[k] \notin {"unknown", "retry"}
      BY <1>1, QuietCallers
    <3> QED
      BY <1>7, <1>8, <2>2, <2>3, <3>1 DEF Calm, Sequel, CallerUnknown, CallerRetries, NoneFailed
  <2> QED
    BY <2>4, <2>5
<1>16. ASSUME m.who # Initialize PROVE UnknownCaller' /\ Sequel'
  <2>1. m.who \in Calls
    BY <1>4, <1>16 DEF Requesters
  <2>2. caller[m.who] \in {"first", "second"}
    BY <1>5, <2>1 DEF Base, Requested, CallersPend
  <2>3. /\ reinit' = reinit
        /\ \A k \in Calls : caller'[k] =
              IF k # m.who THEN caller[k]
              ELSE IF m.reply = "ok" THEN "ok"
              ELSE IF caller[k] = "first" THEN "unknown" ELSE "surfaced"
    BY <1>4, <1>6, <1>16, <2>1 DEF Settle, Base, TypeOK
  <2>4. UnknownCaller'
    <3> SUFFICES ASSUME NEW d \in Children, NEW i \in 1 .. Len(toParent'[d]),
                        toParent'[d][i].reply = "unknown"
                 PROVE  toParent'[d][i].who \in Calls /\ caller'[toParent'[d][i].who] = "first"
      BY DEF UnknownCaller
    <3>1. \E j \in 1 .. Len(toParent[d]) : toParent[d][j] = toParent'[d][i]
      <4>1. CASE d = c
        BY <4>1, <1>12
      <4>2. CASE d # c
        BY <4>2, <1>8
      <4> QED
        BY <4>1, <4>2
    <3>2. toParent'[d][i].who \in Calls /\ caller[toParent'[d][i].who] = "first"
      BY <3>1 DEF Calm, Answers, UnknownCaller
    <3>3. Entry(toParent'[d][i].who, d) \in pending
      BY <3>1 DEF Calm, Transport, OfPending, Answered, Whos
    <3>4. toParent'[d][i].who # m.who
      BY <3>3, <1>5, <1>7, <1>13 DEF Calm, Transport, PendingCurrent, Entry
    <3> QED
      BY <3>2, <3>4, <2>3
  <2>5. m.reply = "unknown" => caller[m.who] = "first" /\ (reinit \/ loaded[c] = "blank")
    <3> SUFFICES ASSUME m.reply = "unknown"
                 PROVE  caller[m.who] = "first" /\ (reinit \/ loaded[c] = "blank")
      OBVIOUS
    <3>1. caller[m.who] = "first"
      BY <1>12 DEF Calm, Answers, UnknownCaller
    <3>2. CASE loaded[c] = "ready"
      <4>1. \E j \in 2 .. Len(toParent[c]) : toParent[c][j].who = Initialize
        BY <3>2, <1>12 DEF Calm, Answers, UnknownFirst, Overtaken
      <4>2. Entry(Initialize, c) \in pending
        BY <4>1, <1>12 DEF Calm, Transport, OfPending, Answered, Whos
      <4> QED
        BY <3>1, <4>2 DEF Base, Requested, ReinitPends, Entry
    <3>3. CASE loaded[c] = "loading"
      <4>1. Entry(Initialize, c) \in pending
        BY <3>3 DEF Calm, Transport, OfPending, Answers, Loading
      <4> QED
        BY <3>1, <4>1 DEF Base, Requested, ReinitPends, Entry
    <3> QED
      BY <3>1, <3>2, <3>3 DEF Base, TypeOK
  <2>6. Sequel'
    <3>1. \A k \in Calls : caller[k] \notin {"unknown", "retry"}
      BY <1>1, QuietCallers
    <3> QED
      BY <1>4, <1>7, <1>8, <2>3, <2>5, <3>1
      DEF Calm, Sequel, CallerUnknown, CallerRetries, NoneFailed
  <2> QED
    BY <2>4, <2>6
<1>17. PendingCurrent' /\ ClosedDismissed' /\ CurrentUp'
  BY <1>1, <1>6 DEF Calm, Transport, PendingCurrent, ClosedDismissed, CurrentUp
<1> QED
  BY <1>9, <1>10, <1>11, <1>14, <1>15, <1>16, <1>17 DEF Calm, Transport, Answers

LEMMA IdleFiresCalm == ASSUME Base, Calm, IdleFires PROVE Calm'
<1> USE SandboxAssumption
<1>1. /\ Quiet /\ idleTimer # None
      /\ IF Available(idleTimer) /\ PendingWith(idleTimer) = {}
            THEN Dismiss(idleTimer)
            ELSE idleTimer' = None /\ UNCHANGED <<process, shutdowns>>
      /\ UNCHANGED <<pending, closed, child, channel, inside, callers, disturbed>>
  BY DEF IdleFires
<1>2. idleTimer = process /\ process \in Children
  BY <1>1 DEF Base, TypeOK
<1>3. OfPending' /\ Once' /\ Answers'
  BY <1>1 DEF Calm, Transport, OfPending, Once, Answers, Loading, UnknownFirst, UnknownCaller,
      Asked, Answered, channel, inside, callers
<1>4. CASE Available(idleTimer) /\ PendingWith(idleTimer) = {}
  <2>1. pending = {}
    BY <1>2, <1>4 DEF PendingWith, Calm, Transport, PendingCurrent
  <2>2. process' = None /\ shutdowns' = shutdowns \cup {process}
    BY <1>1, <1>2, <1>4 DEF Dismiss
  <2>3. \A k \in Calls : caller[k] \notin {"unknown", "retry", "second"}
    BY <1>1, <2>1, QuietCallers DEF Base, Requested, CallersPend
  <2> QED
    BY <1>1, <1>3, <2>1, <2>2, <2>3 DEF Calm, Transport, PendingCurrent, ClosedDismissed,
        CurrentUp, Sequel, CallerUnknown, CallerRetries, NoneFailed, callers
<1>5. CASE ~(Available(idleTimer) /\ PendingWith(idleTimer) = {})
  BY <1>1, <1>3, <1>5 DEF Calm, Transport, PendingCurrent, ClosedDismissed,
      CurrentUp, Sequel, CallerUnknown, CallerRetries, NoneFailed, callers, inside
<1> QED
  BY <1>4, <1>5

\* Who is pending with the current child loses nothing when another one goes.
LEMMA NothingLost ==
    ASSUME Base, Calm, NEW c \in Children, c # process, FailAll(c)
    PROVE  pending' = pending /\ caller' = caller /\ reinit' = reinit
<1>1. PendingWith(c) = {}
  BY DEF PendingWith, Calm, Transport, PendingCurrent
<1> QED
  BY <1>1 DEF FailAll, Base, TypeOK

LEMMA ExitCalm == ASSUME Base, Calm, ~disturbed', NEW c \in Children, Exit(c) PROVE Calm'
<1> USE SandboxAssumption
<1>1. /\ Quiet /\ child[c] # "gone"
      /\ child' = [child EXCEPT ![c] = "gone"]
      /\ process' = IF process = c THEN None ELSE process
      /\ shutdowns' = shutdowns \ {c}
      /\ FailAll(c)
      /\ toChild' = [toChild EXCEPT ![c] = <<>>] /\ toParent' = [toParent EXCEPT ![c] = <<>>]
      /\ loaded' = [loaded EXCEPT ![c] = "blank"] /\ working' = [working EXCEPT ![c] = {}]
      /\ disturbed' = (disturbed \/ (c \notin shutdowns /\ child[c] # "killed"))
  BY DEF Exit
<1>2. c # process /\ process' = process
  BY <1>1 DEF Base, TypeOK, CurrentNotKilled
<1>3. pending' = pending /\ caller' = caller /\ reinit' = reinit
  BY <1>1, <1>2, NothingLost
<1>4. /\ Asked(c)' = {} /\ working'[c] = {} /\ Answered(c)' = {} /\ loaded'[c] = "blank"
      /\ Distinct(toChild'[c]) /\ DistinctWhos(toParent'[c])
      /\ toParent'[c] = <<>>
  BY <1>1 DEF Asked, Answered, Elems, Whos, Distinct, DistinctWhos, Base, TypeOK
<1>5. \A d \in Children : d # c =>
          /\ Asked(d)' = Asked(d) /\ working'[d] = working[d] /\ Answered(d)' = Answered(d)
          /\ loaded'[d] = loaded[d] /\ child'[d] = child[d]
          /\ toChild'[d] = toChild[d] /\ toParent'[d] = toParent[d]
  BY <1>1 DEF Asked, Answered, Base, TypeOK
<1>6. OfPending' /\ Once'
  BY <1>3, <1>4, <1>5 DEF Calm, Transport, OfPending, Once, Entry
<1>7. Loading'
  BY <1>4, <1>5 DEF Calm, Answers, Loading
<1>8. UnknownFirst'
  BY <1>4, <1>5 DEF Calm, Answers, UnknownFirst
<1>9. UnknownCaller'
  BY <1>3, <1>4, <1>5 DEF Calm, Answers, UnknownCaller
<1>10. PendingCurrent' /\ ClosedDismissed' /\ CurrentUp'
  BY <1>1, <1>2, <1>3, <1>5 DEF Calm, Transport, PendingCurrent, ClosedDismissed, CurrentUp,
      Base, TypeOK
<1>11. Sequel'
  BY <1>2, <1>3, <1>5 DEF Calm, Sequel, CallerUnknown, CallerRetries, NoneFailed, Base, TypeOK
<1> QED
  BY <1>6, <1>7, <1>8, <1>9, <1>10, <1>11 DEF Calm, Transport, Answers

LEMMA GraceOverCalm == ASSUME Base, Calm, NEW c \in Children, GraceOver(c) PROVE Calm'
<1>1. /\ c \in shutdowns
      /\ child' = [child EXCEPT ![c] = "killed"]
      /\ shutdowns' = shutdowns \ {c}
      /\ FailAll(c)
      /\ UNCHANGED <<process, closed, channel, inside, disturbed>>
  BY DEF GraceOver
<1>2. c # process
  BY <1>1 DEF Base, TypeOK
<1>3. pending' = pending /\ caller' = caller /\ reinit' = reinit
  BY <1>1, <1>2, NothingLost
<1>4. Asked(c)' = Asked(c) /\ Answered(c)' = Answered(c)
  BY <1>1 DEF Asked, Answered, channel
<1>5. OfPending' /\ Once' /\ Answers' /\ Sequel'
  BY <1>1, <1>3 DEF Calm, Transport, OfPending, Once, Answers, Loading, UnknownFirst, UnknownCaller,
      Sequel, CallerUnknown, CallerRetries, NoneFailed, Asked, Answered, channel, inside
<1>6. PendingCurrent' /\ ClosedDismissed' /\ CurrentUp'
  BY <1>1, <1>2, <1>3 DEF Calm, Transport, PendingCurrent, ClosedDismissed, CurrentUp, Base, TypeOK
<1> QED
  BY <1>5, <1>6 DEF Calm, Transport

LEMMA ChannelClosesCalm ==
    ASSUME Base, Calm, ~disturbed', NEW c \in Children, ChannelCloses(c) PROVE Calm'
<1>1. /\ child' = [child EXCEPT ![c] = "closed"]
      /\ disturbed' = (disturbed \/ c \notin shutdowns)
      /\ UNCHANGED <<parent, closed, channel, inside, callers>>
  BY DEF ChannelCloses
<1>2. c \in shutdowns /\ c # process
  BY <1>1 DEF Base, TypeOK
<1>3. OfPending' /\ Once' /\ Answers' /\ Sequel'
  BY <1>1 DEF Calm, Transport, OfPending, Once, Answers, Loading, UnknownFirst, UnknownCaller,
      Sequel, CallerUnknown, CallerRetries, NoneFailed, Asked, Answered, parent, channel, inside, callers
<1>4. PendingCurrent' /\ ClosedDismissed' /\ CurrentUp'
  BY <1>1, <1>2 DEF Calm, Transport, PendingCurrent, ClosedDismissed, CurrentUp, Base, TypeOK, parent
<1> QED
  BY <1>3, <1>4 DEF Calm, Transport

\* A request fails only with a child whose channel closed, and that has none.
LEMMA NoSendFails == ASSUME Base, Calm, NEW p \in pending PROVE ~SendFails(p)
BY DEF SendFails, Base, TypeOK, Calm, Transport, PendingCurrent, ClosedDismissed

-----------------------------------------------------------------------------
(* The theorems.                                                           *)

\* The inductive invariant.
IInv == Base /\ (~disturbed => Calm)

LEMMA InitIInv == ASSUME Init PROVE IInv
<1> USE SandboxAssumption
<1>1. TypeOK
  <2>1. toChild \in [Children -> Seq(Requesters)] /\ toParent \in [Children -> Seq(Replies)]
    BY DEF Init
  <2>2. caller \in [Calls -> CallerType] /\ child \in [Children -> {"gone"} \cup Running]
    BY DEF Init, CallerType
  <2> QED
    BY <2>1, <2>2 DEF Init, TypeOK, CallerType, Replies
<1>2. Base
  BY <1>1 DEF Init, Base, Requested, AskedOnce, CallersPend, ReinitPends, DismissedRun,
      CurrentNotKilled, NoOrphan, Timed, GoneIsBlank, Available, Runs
<1>3. \A c \in Children : Asked(c) = {} /\ Answered(c) = {} /\ toChild[c] = <<>> /\ toParent[c] = <<>>
  BY DEF Init, Asked, Answered, Elems, Whos
<1>4. Calm
  BY <1>3 DEF Init, Calm, Transport, Answers, Sequel, PendingCurrent, ClosedDismissed, CurrentUp,
      OfPending, Once, Loading, UnknownFirst, Overtaken, UnknownCaller, CallerUnknown, CallerRetries,
      NoneFailed, Distinct, DistinctWhos
<1> QED
  BY <1>2, <1>4 DEF IInv

LEMMA NextIInv == ASSUME IInv, [Next]_vars PROVE IInv'
<1> SUFFICES Base' /\ (~disturbed' => Calm')
  BY DEF IInv
<1>1. Base
  BY DEF IInv
<1>2. ~disturbed => Calm
  BY DEF IInv
<1>3. disturbed \in BOOLEAN
  BY <1>1 DEF Base, TypeOK
<1>4. CASE UNCHANGED vars
  <2>1. Base'
    <3>1. TypeOK'
      BY <1>1, <1>4 DEF vars, parent, channel, inside, callers, Base, TypeOK
    <3> QED
      BY <1>1, <1>4, <3>1 DEF vars, parent, channel, inside, callers, Base, Requested, AskedOnce,
        CallersPend, ReinitPends, DismissedRun, CurrentNotKilled, NoOrphan, Timed, GoneIsBlank,
        Available, PendingWith, Runs
  <2>2. Calm => Calm'
    BY <1>4 DEF vars, parent, channel, inside, callers, Calm, Transport, Answers, Sequel,
      PendingCurrent, ClosedDismissed, CurrentUp, OfPending, Once, Loading, UnknownFirst,
      UnknownCaller, CallerUnknown, CallerRetries, NoneFailed, Asked, Answered
  <2> QED
    BY <1>2, <1>4, <2>1, <2>2 DEF vars
<1>5. ASSUME NEW k \in Calls, Call(k) \/ CallRefused(k) \/ Continue(k)
      PROVE  Base' /\ (~disturbed' => Calm')
  <2>1. Base'
    BY <1>1, <1>5, CallBase, CallRefusedBase, CallSanitizedBase, ReinitializeBase, RetryBase DEF Continue
  <2>2. disturbed' = disturbed
    BY <1>5 DEF Call, CallRefused, Continue, CallSanitized, Reinitialize, Retry, Send
  <2>3. Calm => Calm'
    BY <1>1, <1>5, CallCalm, CallRefusedCalm, CallSanitizedCalm, ReinitializeCalm, RetryCalm DEF Continue
  <2> QED
    BY <1>2, <2>1, <2>2, <2>3
<1>6. ASSUME NEW c \in Children, OfChild(c) \/ GraceOver(c)
      PROVE  Base' /\ (~disturbed' => Calm')
  <2>1. Base'
    BY <1>1, <1>6, ReceiveBase, DeliverBase, WorkBase, GraceOverBase DEF OfChild
  <2>2. disturbed' = disturbed
    BY <1>6 DEF OfChild, Receive, Deliver, Work, GraceOver
  <2>3. Calm => Calm'
    BY <1>1, <1>6, ReceiveCalm, DeliverCalm, WorkCalm, GraceOverCalm DEF OfChild
  <2> QED
    BY <1>2, <2>1, <2>2, <2>3
<1>7. ASSUME NEW c \in Children, Exit(c) \/ SpawnFails(c) \/ ChannelCloses(c)
      PROVE  Base' /\ (~disturbed' => Calm')
  <2>1. Base'
    BY <1>1, <1>7, ExitBase, SpawnFailsBase, ChannelClosesBase
  <2>2. ~disturbed' => ~disturbed /\ ~SpawnFails(c)
    BY <1>7 DEF Exit, SpawnFails, ChannelCloses
  <2> QED
    BY <1>1, <1>2, <1>7, <2>1, <2>2, ExitCalm, ChannelClosesCalm
<1>8. ASSUME NEW p \in pending, TimeOut(p) \/ SendFails(p)
      PROVE  Base' /\ (~disturbed' => Calm')
  <2>1. Base'
    BY <1>1, <1>8, TimeOutBase, SendFailsBase
  <2>2. ~disturbed' => ~disturbed /\ SendFails(p)
    BY <1>8 DEF TimeOut, SendFails
  <2> QED
    BY <1>1, <1>2, <2>1, <2>2, NoSendFails
<1>9. CASE IdleFires
  BY <1>1, <1>2, <1>9, IdleFiresBase, IdleFiresCalm DEF IdleFires
<1>10. CASE Shutdown
  BY <1>1, <1>10, ShutdownBase DEF Shutdown
<1> QED
  BY <1>4, <1>5, <1>6, <1>7, <1>8, <1>9, <1>10 DEF Next

\* Whatever calls, children, timers and the session do, in any order.
THEOREM SandboxInvariant == Spec => []IInv
BY InitIInv, NextIInv, PTL DEF Spec

\* No child runs that is neither the current one nor told to go
\* (shutdownProcess, start).
THEOREM NoChildLeft == Spec => []NoOrphan
<1>1. IInv => NoOrphan
  BY DEF IInv, Base
<1> QED
  BY <1>1, SandboxInvariant, PTL

\* A child without requests has its idle timer armed, however the last request
\* ended (clearPendingRequest, armIdleTimer).
THEOREM IdleChildrenTimed == Spec => []IdleIsTimed
<1>1. IInv => IdleIsTimed
  BY DEF IInv, Base, Timed, IdleIsTimed
<1> QED
  BY <1>1, SandboxInvariant, PTL

\* Two initialize requests are never open at once (reinitPromise).
THEOREM InitializedOnce == Spec => []OneInitialize
<1>1. IInv => OneInitialize
  <2> SUFFICES ASSUME IInv
               PROVE  Cardinality({p \in pending : p.who = Initialize}) <= 1
    BY DEF OneInitialize
  <2>1. CASE \E p \in pending : p.who = Initialize
    <3>1. PICK p \in pending : p.who = Initialize
      BY <2>1
    <3>2. {q \in pending : q.who = Initialize} = {p}
      BY <3>1 DEF IInv, Base, Requested, AskedOnce
    <3> QED
      <4>1. Cardinality({p}) = 1
        BY FS_Singleton, Zenon
      <4> QED
        BY <3>2, <4>1
  <2>2. CASE ~\E p \in pending : p.who = Initialize
    <3>1. {q \in pending : q.who = Initialize} = {}
      BY <2>2
    <3> QED
      <4>1. Cardinality({}) = 0
        BY FS_EmptySet, Zenon
      <4> QED
        BY <3>1, <4>1
  <2> QED
    BY <2>1, <2>2
<1> QED
  BY <1>1, SandboxInvariant, PTL

\* As long as nothing failed no call fails, though children are reclaimed while
\* idle and killed after their grace time (callPlugin, reinitialize).
THEOREM ReclaimsUnnoticed == Spec => []ReplacedSilently
<1>1. IInv => ReplacedSilently
  BY DEF IInv, Calm, Sequel, NoneFailed, ReplacedSilently
<1> QED
  BY <1>1, SandboxInvariant, PTL

\* The request of a Send.
LEMMA SendLives ==
    ASSUME Base, NEW who \in Requesters, Send(who), NEW p \in pending' \ pending
    PROVE  p.child \notin shutdowns' /\ child'[p.child] = "up"
<1>1. PICK c \in Children : Start(c) /\ pending' = pending \cup {[who |-> who, child |-> c]}
  BY DEF Send
<1>2. p.child = c
  BY <1>1
<1> QED
  BY <1>1, <1>2, StartFacts

\* Every request is sent to a child that is up and not told to go (start).
THEOREM RequestsToTheLiving == Spec => RequestsReachLiving
<1> DEFINE Living == \A p \in pending' \ pending : p.child \notin shutdowns' /\ child'[p.child] = "up"
<1>1. IInv /\ [Next]_vars => [Living]_vars
  <2> SUFFICES ASSUME Base, Next, NEW p \in pending' \ pending
               PROVE  p.child \notin shutdowns' /\ child'[p.child] = "up"
    BY DEF IInv
  <2>1. ASSUME NEW k \in Calls, Call(k) \/ CallRefused(k) \/ Continue(k)
        PROVE  p.child \notin shutdowns' /\ child'[p.child] = "up"
    <3>1. CASE Send(k)
      BY <3>1, SendLives DEF Requesters
    <3>2. CASE Send(Initialize)
      BY <3>2, SendLives DEF Requesters
    <3>3. CASE pending' = pending
      BY <3>3
    <3> QED
      BY <2>1, <3>1, <3>2, <3>3 DEF Call, CallRefused, Continue, CallSanitized, Reinitialize, Retry, parent
  <2>2. ASSUME NEW c \in Children,
               OfChild(c) \/ Exit(c) \/ SpawnFails(c) \/ ChannelCloses(c) \/ GraceOver(c)
        PROVE  FALSE
    BY <2>2 DEF OfChild, Receive, Work, Deliver, Clear, Exit, SpawnFails, ChannelCloses, GraceOver,
        FailAll, parent
  <2>3. ASSUME NEW q \in pending, TimeOut(q) \/ SendFails(q)
        PROVE  FALSE
    BY <2>3 DEF TimeOut, SendFails, Clear
  <2>4. CASE IdleFires \/ Shutdown
    BY <2>4 DEF IdleFires, Shutdown
  <2> QED
    BY <2>1, <2>2, <2>3, <2>4 DEF Next
<1> QED
  BY <1>1, SandboxInvariant, PTL DEF Spec, RequestsReachLiving
=============================================================================
