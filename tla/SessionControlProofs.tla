------------------------ MODULE SessionControlProofs ------------------------
(***************************************************************************)
(* Safety of SessionControl for any number of the user's operations,       *)
(* sessions, cancels and reloads.                                          *)
(***************************************************************************)
EXTENDS SessionControl, TLAPS

Operations == {"none", "switch", "follow", "resume", "reload"}

ThreadRecord ==
    [op : Operations, at : Stages, of : Nat, mode : Modes, prev : Modes, cv : Nat,
     auto : BOOLEAN, bare : BOOLEAN, early : BOOLEAN, joins : BOOLEAN,
     carries : Flows \cup {Nobody}]

SessionRecord == [mode : Modes, running : BOOLEAN, version : Nat]

\* What the proofs need of the types.
Typed ==
    /\ mode \in Modes /\ {pending, unseen} \subseteq BOOLEAN
    /\ {active, made} \subseteq 0 .. MaxSessions
    /\ cancelVersion \in Nat
    /\ session \in [Objects -> SessionRecord]
    /\ thread \in [Threads -> ThreadRecord]
    /\ unsent \in Flows \cup {Nobody}

-----------------------------------------------------------------------------
\* Where a thread has the section.
Within == {"posting", "aborting", "loading", "stopping", "starting", "settling",
           "preparing", "leaving"}
Holds(r) == r.at \in Within \/ (r.at = "mentions" /\ r.op = "resume")

\* A session that is about to be replaced is still the one the thread found.
BeforeReplace == {"posting", "aborting", "loading"}
BetweenSessions == {"stopping", "starting", "preparing"}

\* What the thread in the section may count on: r is how far it is.
Counts(r) ==
    /\ r.at = "starting" => stops = {}
    /\ r.at \in BetweenSessions => active = 0
    /\ r.at = "settling" => r.op = "follow"
    /\ r.at = "mentions" /\ r.op = "resume" => active # 0
    /\ r.at \in BeforeReplace =>
         /\ active = r.of /\ active # 0
         /\ r.op = "switch" /\ ~unseen => session[active].mode = r.prev
    /\ r.at \in BeforeReplace \cup {"stopping", "starting"} /\ ~unseen => r.mode = mode

\* Mode and session agree, unless a mode switch in the section has set the mode
\* and its session is still to be replaced.
Agreed(th) ==
    active # 0 /\ ~unseen =>
        \/ session[active].mode = mode
        \/ lock \in Threads /\ th[lock].op = "switch" /\ th[lock].at \in BeforeReplace

\* Only the thread in the section is where the section is needed.
Section(th) ==
    /\ \A t \in Threads : Holds(th[t]) => lock = t
    /\ lock \in Threads => Counts(th[lock])
    /\ Agreed(th)

\* Stops under way: the latest one, and none while a session is active.
StopsInv ==
    /\ active # 0 => stops = {}
    /\ stops \subseteq {pendingStop} /\ 0 \notin stops

IInv == Typed /\ Section(thread) /\ StopsInv /\ NoStrandedReload

-----------------------------------------------------------------------------
\* A thread that moves to another stage and changes nothing else of itself.
LEMMA GoesTo ==
  ASSUME Typed, NEW t \in Threads, NEW s \in Stages
  PROVE  LET th == Goes(t, s)
         IN  /\ th \in [Threads -> ThreadRecord]
             /\ th[t].at = s /\ th[t].op = thread[t].op /\ th[t].of = thread[t].of
             /\ th[t].mode = thread[t].mode /\ th[t].prev = thread[t].prev
             /\ th[t].cv = thread[t].cv
             /\ \A u \in Threads : u # t => th[u] = thread[u]
  BY DEF Typed, Goes, ThreadRecord

\* NoThread is a thread.
LEMMA FreshRecord == NoThread \in ThreadRecord
  BY DEF NoThread, ThreadRecord, Operations, Stages, Modes

\* The initial states.
LEMMA InitInv == Init => IInv
  <1> SUFFICES ASSUME Init PROVE IInv
    OBVIOUS
  <1>1. Typed
    <2>1. session \in [Objects -> SessionRecord]
      BY DEF Init, SessionRecord
    <2>2. thread \in [Threads -> ThreadRecord]
      BY FreshRecord DEF Init
    <2>3. active \in 0 .. MaxSessions
      BY ControlAssumption DEF Init
    <2>4. made \in 0 .. MaxSessions /\ cancelVersion \in Nat
      BY ControlAssumption DEF Init
    <2> QED
      BY <2>1, <2>2, <2>3, <2>4 DEF Init, Typed
  <1>2. \A t \in Threads : thread[t].at = "new"
    BY DEF Init, NoThread
  <1>3. Section(thread)
    BY <1>2, ControlAssumption DEF Init, Section, Holds, Within, Threads, Agreed, Objects
  <1>4. StopsInv /\ NoStrandedReload
    BY DEF Init, StopsInv, NoStrandedReload
  <1> QED
    BY <1>1, <1>3, <1>4 DEF IInv

\* Nobody is not a thread, the drain is one.
LEMMA Names == Nobody \notin Threads /\ Reloader \in Threads /\ Flows \subseteq Threads
  BY ControlAssumption DEF Threads

\* A thread that is where the section is needed has it.
LEMMA Holder ==
  ASSUME IInv, NEW t \in Threads, Holds(thread[t])
  PROVE  lock = t /\ Counts(thread[t])
  BY DEF IInv, Section

\* Setting the running flag leaves modes and versions alone.
LEMMA FlaggedType ==
  ASSUME Typed, NEW on \in BOOLEAN
  PROVE  /\ Flagged(on) \in [Objects -> SessionRecord]
         /\ \A o \in Objects : /\ Flagged(on)[o].mode = session[o].mode
                               /\ Flagged(on)[o].version = session[o].version
         /\ active # 0 => active \in Objects /\ Flagged(on)[active].running = on
  <1>1. active # 0 => active \in Objects
    BY ControlAssumption DEF Typed, Objects
  <1>2. CASE active = 0
    BY <1>2 DEF Typed, Flagged
  <1>3. CASE active # 0
    BY <1>1, <1>3 DEF Typed, Flagged, SessionRecord
  <1> QED
    BY <1>2, <1>3

\* Thread t takes a step, into or in the section or outside of it, while the others
\* stay where they are.
LEMMA SectionStep ==
  ASSUME IInv, NEW t \in Threads,
         \A u \in Threads : u # t => thread'[u] = thread[u],
         lock' = lock \/ (lock = Nobody /\ lock' = t),
         (Holds(thread[t]) => lock = t)',
         (lock = t => Counts(thread[t]))',
         lock \in Threads \ {t} =>
            /\ UNCHANGED <<active, stops>>
            /\ unseen' \/ UNCHANGED <<mode, unseen>>
            /\ active # 0 => session'[active].mode = session[active].mode,
         Agreed(thread)'
  PROVE  Section(thread)'
  <1>1. (\A u \in Threads : Holds(thread[u]) => lock = u)'
    BY Names DEF IInv, Section
  <1>2. ASSUME lock' \in Threads \ {t} PROVE (Counts(thread[lock]))'
    <2>1. lock' = lock /\ thread'[lock] = thread[lock]
      BY <1>2
    <2>2. Counts(thread[lock])
      BY <1>2, <2>1 DEF IInv, Section
    <2> QED
      BY <1>2, <2>1, <2>2 DEF Counts
  <1> QED
    BY <1>1, <1>2 DEF Section

\* drainIfIdle, after a step that leaves the section as Section(th) says.
LEMMA DrainInv ==
  ASSUME IInv, NEW th, th \in [Threads -> ThreadRecord], Section(th),
         Drain(th, Running /\ pending /\ lock = Nobody),
         active # 0 => session'[active].mode = session[active].mode,
         UNCHANGED <<active, mode, unseen, stops>>
  PROVE  /\ thread' \in [Threads -> ThreadRecord]
         /\ pending' \in BOOLEAN
         /\ Section(thread)'
         /\ NoStrandedReload'
  <1>1. Reload(active) \in ThreadRecord
    <2>1. active \in Nat /\ mode \in Modes
      BY ControlAssumption DEF IInv, Typed
    <2> QED
      BY <2>1 DEF Reload, NoThread, ThreadRecord, Operations, Stages, Modes
  <1>2. CASE Running /\ pending /\ lock = Nobody
    <2>1. /\ thread' = [th EXCEPT ![Reloader] = Reload(active)]
          /\ lock' = Reloader /\ pending' = FALSE
      BY <1>2 DEF Drain, IInv, Typed
    <2>2. thread' \in [Threads -> ThreadRecord]
      BY <1>1, <2>1, Names
    <2>3. \A u \in Threads : ~Holds(th[u])
      BY <1>2, Names DEF Section
    <2>4. (\A u \in Threads : Holds(thread[u]) => lock = u)'
      BY <2>1, <2>3, Names
    <2>5. (lock \in Threads => Counts(thread[lock]))'
      BY <1>2, <2>1, Names DEF Counts, Reload, NoThread, Running, BetweenSessions, BeforeReplace
    <2>6. Agreed(thread)'
      BY <1>2, Names DEF Section, Agreed
    <2> QED
      BY <2>1, <2>2, <2>4, <2>5, <2>6 DEF Section, NoStrandedReload
  <1>3. CASE ~(Running /\ pending /\ lock = Nobody)
    <2>1. thread' = th /\ lock' = lock /\ pending' = pending
      BY <1>3 DEF Drain, IInv, Typed
    <2>2. Section(thread)'
      <3>1. (lock \in Threads => Counts(thread[lock]))'
        BY <2>1 DEF Section, Counts
      <3>2. Agreed(thread)'
        BY <2>1 DEF Section, Agreed
      <3> QED
        BY <2>1, <3>1, <3>2 DEF Section
    <2>3. NoStrandedReload'
      BY <1>3, <2>1 DEF IInv, NoStrandedReload, Running, Idle
    <2> QED
      BY <2>1, <2>2, <2>3 DEF IInv, Typed
  <1> QED
    BY <1>2, <1>3

\* setRunning(false), in a step that moves threads as th says.
LEMMA SetIdleInv ==
  ASSUME IInv, NEW th, th \in [Threads -> ThreadRecord], Section(th), NEW by,
         SetIdle(th, by),
         UNCHANGED <<active, made, mode, unseen, stops, pendingStop, cancelVersion, unsent>>
  PROVE  IInv'
  <1>1. /\ session' \in [Objects -> SessionRecord]
        /\ active # 0 => session'[active].mode = session[active].mode
    BY FlaggedType DEF IInv, SetIdle
  <1>2. Drain(th, Running /\ pending /\ lock = Nobody)
    BY DEF SetIdle
  <1>3. /\ thread' \in [Threads -> ThreadRecord] /\ pending' \in BOOLEAN
        /\ Section(thread)' /\ NoStrandedReload'
    BY <1>1, <1>2, DrainInv
  <1> QED
    BY <1>1, <1>3 DEF IInv, Typed, StopsInv

\* A thread that moves to a stage where it may be.
LEMMA SectionMoved ==
  ASSUME IInv, NEW t \in Threads, NEW s \in Stages,
         s \in Within \/ (s = "mentions" /\ thread[t].op = "resume") => lock = t,
         lock = t => Counts([thread[t] EXCEPT !.at = s]),
         thread[t].at \in BeforeReplace /\ lock = t => s \in BeforeReplace
  PROVE  Section(Goes(t, s))
  <1> DEFINE th == Goes(t, s)
             n == [thread[t] EXCEPT !.at = s]
  <1>1. thread[t] \in ThreadRecord
    BY DEF IInv, Typed
  <1>2. /\ th[t].at = s /\ th[t].op = thread[t].op
        /\ \A u \in Threads : u # t => th[u] = thread[u]
    BY GoesTo DEF IInv
  <1>3. th[t] = n
    BY DEF IInv, Typed, Goes
  <1> HIDE DEF th, n
  <1>4. \A u \in Threads : Holds(th[u]) => lock = u
    BY <1>2 DEF IInv, Section, Holds
  <1>5. lock \in Threads => Counts(th[lock])
    BY <1>2, <1>3 DEF IInv, Section, n
  <1>6. Agreed(th)
    BY <1>2 DEF IInv, Section, Agreed
  <1>7. Section(th)
    BY <1>4, <1>5, <1>6 DEF Section
  <1> QED
    BY <1>7 DEF th

\* A step that the invariant does not see.
LEMMA Unseen ==
  ASSUME IInv, unsent' \in Flows \cup {Nobody},
         UNCHANGED <<mode, unseen, active, session, made, cancelVersion, thread, lock,
                     pending, stops, pendingStop>>
  PROVE  IInv'
  <1>1. Typed'
    BY DEF IInv, Typed
  <1>2. Section(thread)'
    <2>1. (lock \in Threads => Counts(thread[lock]))'
      BY DEF IInv, Section, Counts
    <2>2. Agreed(thread)'
      BY DEF IInv, Section, Agreed
    <2> QED
      BY <2>1, <2>2 DEF IInv, Section
  <1>3. StopsInv' /\ NoStrandedReload'
    BY DEF IInv, StopsInv, NoStrandedReload, Idle
  <1> QED
    BY <1>1, <1>2, <1>3 DEF IInv

\* A step that only moves a thread to a stage where it may be.
LEMMA MoveInv ==
  ASSUME IInv, NEW t \in Threads, NEW s \in Stages, thread' = Goes(t, s),
         Section(Goes(t, s)), unsent' \in Flows \cup {Nobody},
         UNCHANGED <<mode, unseen, active, session, made, cancelVersion, lock, pending, stops,
                     pendingStop>>
  PROVE  IInv'
  <1>1. Typed'
    BY GoesTo DEF IInv, Typed
  <1>2. Section(thread)'
    <2>1. Section(thread')
      OBVIOUS
    <2>2. (lock \in Threads => Counts(thread[lock]))'
      BY <2>1 DEF Section, Counts
    <2>3. Agreed(thread)'
      BY <2>1 DEF Section, Agreed
    <2> QED
      BY <2>1, <2>2, <2>3 DEF Section
  <1>3. StopsInv' /\ NoStrandedReload'
    BY DEF IInv, StopsInv, NoStrandedReload, Idle
  <1> QED
    BY <1>1, <1>2, <1>3 DEF IInv

-----------------------------------------------------------------------------
(***************************************************************************)
(* The mode switch.                                                        *)
(***************************************************************************)
\* performRebuildSessionForMode, by a flow that takes the free section.
LEMMA RebuildInv ==
  ASSUME IInv, NEW f \in Flows, lock = Nobody, NEW r \in ThreadRecord,
         r.op = "switch", Rebuild(f, r),
         UNCHANGED <<unseen, active, session, made, cancelVersion, unsent, pending, stops,
                     pendingStop>>
  PROVE  IInv'
  <1>1. f \in Threads /\ f # Nobody
    BY Names
  <1>2. /\ thread' \in [Threads -> ThreadRecord]
        /\ \A u \in Threads : u # f => thread'[u] = thread[u]
        /\ thread'[f].op = "switch" /\ thread'[f].mode = r.mode
        /\ active = 0 => thread'[f].at = "leaving"
        /\ active # 0 => /\ thread'[f].at \in {"posting", "loading"}
                         /\ thread'[f].of = active /\ thread'[f].prev = mode
    <2>1. CASE active = 0
      BY <1>1, <2>1 DEF IInv, Typed, Rebuild, ThreadRecord, Stages
    <2>2. CASE active # 0
      <3>1. active \in Nat /\ mode \in Modes
        BY ControlAssumption DEF IInv, Typed
      <3> QED
        BY <1>1, <2>2, <3>1 DEF IInv, Typed, Rebuild, ThreadRecord, Stages
    <2> QED
      BY <2>1, <2>2
  <1>3. Typed'
    BY <1>2 DEF IInv, Typed, Rebuild, ThreadRecord
  <1>4. Section(thread)'
    <2>1. lock' = f /\ mode' = r.mode
      BY DEF Rebuild
    <2>2. active # 0 /\ ~unseen => session[active].mode = mode
      BY Names DEF IInv, Section, Agreed
    <2>3. (Counts(thread[f]))'
      BY <1>2, <2>1, <2>2 DEF Counts, BeforeReplace, BetweenSessions
    <2>4. Agreed(thread)'
      BY <1>1, <1>2, <2>1 DEF Agreed, BeforeReplace
    <2> QED
      BY <1>1, <1>2, <2>1, <2>3, <2>4, Names, SectionStep
  <1>5. StopsInv' /\ NoStrandedReload'
    BY <1>1 DEF IInv, StopsInv, NoStrandedReload, Rebuild
  <1> QED
    BY <1>3, <1>4, <1>5 DEF IInv

LEMMA EnterSwitchInv ==
  ASSUME IInv, NEW f \in Flows, EnterSwitch(f)
  PROVE  IInv'
  <1>1. thread[f] \in ThreadRecord
    BY Names DEF IInv, Typed
  <1> QED
    BY <1>1, RebuildInv DEF EnterSwitch, objects, cancels, sends, host

LEMMA SwitchInv ==
  ASSUME IInv, NEW f \in Flows, NEW m \in Modes, NEW auto \in BOOLEAN, NEW bare \in BOOLEAN,
         Switch(f, m, auto, bare)
  PROVE  IInv'
  <1> DEFINE r == [NoThread EXCEPT !.op = "switch", !.at = "lock", !.mode = m, !.auto = auto,
                                   !.cv = cancelVersion, !.bare = bare,
                                   !.carries = IF auto /\ ~bare THEN f ELSE Nobody]
  <1>1. r \in ThreadRecord /\ r.op = "switch" /\ r.at = "lock"
    BY DEF IInv, Typed, NoThread, ThreadRecord, Operations, Stages, Modes
  <1>2. f \in Threads /\ thread[f].at = "new"
    BY Names DEF Switch
  <1> HIDE DEF r
  <1>3. CASE active = 0
    <2>1. /\ thread' = Goes(f, "done") /\ mode' = m /\ lock' = lock
          /\ unseen' = (unseen \/ lock # Nobody)
      BY <1>3 DEF Switch
    <2>2. /\ thread' \in [Threads -> ThreadRecord] /\ thread'[f].at = "done"
          /\ \A u \in Threads : u # f => thread'[u] = thread[u]
      BY <1>2, <2>1, GoesTo DEF IInv, Stages
    <2>3. Typed'
      BY <2>1, <2>2 DEF IInv, Typed, Switch, objects, cancels, sends
    <2>4. UNCHANGED <<active, session, stops, pendingStop, pending>>
      BY DEF Switch, objects, host
    <2>5. Agreed(thread)'
      BY <1>3, <2>4 DEF Agreed
    <2>6. Section(thread)'
      <3>1. ~Holds(thread[f])'
        BY <2>2 DEF Holds, Within
      <3>2. (Counts(thread[f]))'
        BY <2>2 DEF Counts, BeforeReplace, BetweenSessions
      <3>3. lock \in Threads \ {f} => unseen'
        BY <2>1, Names
      <3> QED
        BY <1>2, <2>1, <2>2, <2>4, <2>5, <3>1, <3>2, <3>3, SectionStep
    <2>7. StopsInv' /\ NoStrandedReload'
      BY <1>3, <2>4 DEF IInv, StopsInv, NoStrandedReload, Idle
    <2> QED
      BY <2>3, <2>6, <2>7 DEF IInv
  <1>4. CASE active # 0 /\ lock = Nobody
    <2>1. Rebuild(f, r)
      BY <1>4 DEF Switch, r
    <2>2. UNCHANGED <<unseen, active, session, made, cancelVersion, unsent, pending, stops,
                      pendingStop>>
      BY <1>4 DEF Switch, objects, cancels, sends, host
    <2> QED
      BY <1>1, <1>4, <2>1, <2>2, RebuildInv
  <1>5. CASE active # 0 /\ lock # Nobody
    <2>1. thread' = [thread EXCEPT ![f] = r]
      BY <1>5 DEF Switch, r
    <2>2. UNCHANGED <<mode, lock, unseen, active, session, made, cancelVersion, unsent,
                      pending, stops, pendingStop>>
      BY <1>5 DEF Switch, objects, cancels, sends, host
    <2>3. /\ thread' \in [Threads -> ThreadRecord] /\ thread'[f].at = "lock"
          /\ \A u \in Threads : u # f => thread'[u] = thread[u]
      BY <1>1, <1>2, <2>1 DEF IInv, Typed
    <2>4. Typed'
      BY <2>2, <2>3 DEF IInv, Typed
    <2>5. Section(thread)'
      <3>1. ~Holds(thread[f])'
        BY <2>3 DEF Holds, Within
      <3>2. (Counts(thread[f]))'
        BY <2>3 DEF Counts, BeforeReplace, BetweenSessions
      <3>3. Agreed(thread)'
        BY <1>2, <2>2, <2>3 DEF IInv, Section, Agreed, BeforeReplace
      <3> QED
        BY <1>2, <2>2, <2>3, <3>1, <3>2, <3>3, SectionStep
    <2>6. StopsInv' /\ NoStrandedReload'
      BY <2>2 DEF IInv, StopsInv, NoStrandedReload, Idle
    <2> QED
      BY <2>4, <2>5, <2>6 DEF IInv
  <1> QED
    BY <1>3, <1>4, <1>5

LEMMA AbortForSwitchInv ==
  ASSUME IInv, NEW f \in Flows, AbortForSwitch(f)
  PROVE  IInv'
  <1>1. f \in Threads /\ lock = f /\ Counts(thread[f]) /\ thread[f].at = "posting"
    BY Names, Holder DEF AbortForSwitch, Holds, Within
  <1>2. thread[f] \in ThreadRecord /\ "aborting" \in Stages
    BY <1>1 DEF IInv, Typed, Stages
  <1>3. Counts([thread[f] EXCEPT !.at = "aborting"])
    BY <1>1, <1>2 DEF Counts, ThreadRecord, BeforeReplace, BetweenSessions
  <1>4. Section(Goes(f, "aborting"))
    BY <1>1, <1>2, <1>3, SectionMoved DEF BeforeReplace
  <1> QED
    BY <1>1, <1>2, <1>4, MoveInv
    DEF AbortForSwitch, setting, objects, cancels, sends, section, IInv, Typed

LEMMA AbortedInv ==
  ASSUME IInv, NEW f \in Flows, Aborted(f)
  PROVE  IInv'
  <1>1. f \in Threads /\ lock = f /\ Counts(thread[f]) /\ thread[f].at = "aborting"
    BY Names, Holder DEF Aborted, Holds, Within
  <1>2. thread[f] \in ThreadRecord /\ "loading" \in Stages
    BY <1>1 DEF IInv, Typed, Stages
  <1>3. Counts([thread[f] EXCEPT !.at = "loading"])
    BY <1>1, <1>2 DEF Counts, ThreadRecord, BeforeReplace, BetweenSessions
  <1>4. Section(Goes(f, "loading")) /\ Goes(f, "loading") \in [Threads -> ThreadRecord]
    BY <1>1, <1>2, <1>3, SectionMoved, GoesTo DEF IInv, BeforeReplace
  <1> QED
    BY <1>4, SetIdleInv DEF Aborted, cancels, host

-----------------------------------------------------------------------------
(***************************************************************************)
(* Replacing a session and starting one.                                   *)
(***************************************************************************)
\* A thread in the section gives up, and the setting is what the session works in.
LEMMA GivesUpInv ==
  ASSUME IInv, NEW t \in Threads, lock = t, thread' = Goes(t, "leaving"),
         mode' \in Modes, active # 0 /\ ~unseen => session[active].mode = mode',
         UNCHANGED <<unseen, active, session, made, cancelVersion, unsent, lock, pending,
                     stops, pendingStop>>
  PROVE  IInv'
  <1>1. /\ thread' \in [Threads -> ThreadRecord] /\ thread'[t].at = "leaving"
        /\ \A u \in Threads : u # t => thread'[u] = thread[u]
    BY GoesTo DEF IInv, Stages
  <1>2. Typed'
    BY <1>1 DEF IInv, Typed
  <1>3. Section(thread)'
    <2>1. (Counts(thread[t]))'
      BY <1>1 DEF Counts, BeforeReplace, BetweenSessions
    <2>2. Agreed(thread)'
      BY DEF Agreed
    <2> QED
      BY <1>1, <2>1, <2>2, SectionStep
  <1>4. StopsInv' /\ NoStrandedReload'
    BY DEF IInv, StopsInv, NoStrandedReload, Idle
  <1> QED
    BY <1>2, <1>3, <1>4 DEF IInv

\* While a thread that does not switch the mode has the section, both agree.
LEMMA AgreedOutside ==
  ASSUME IInv, NEW t \in Threads, lock = t,
         thread[t].op # "switch" \/ thread[t].at \notin BeforeReplace
  PROVE  active # 0 /\ ~unseen => session[active].mode = mode
  BY DEF IInv, Section, Agreed

LEMMA LoadFailsInv ==
  ASSUME IInv, NEW t \in Threads, LoadFails(t)
  PROVE  IInv'
  <1>1. lock = t /\ Counts(thread[t]) /\ thread[t].at = "loading"
    BY Holder DEF LoadFails, Holds, Within
  <1>2. mode' \in Modes
    BY DEF IInv, Typed, ThreadRecord, LoadFails
  <1>3. active # 0 /\ ~unseen => session[active].mode = mode'
    BY <1>1, AgreedOutside DEF Counts, BeforeReplace, LoadFails
  <1> QED
    BY <1>1, <1>2, <1>3, GivesUpInv DEF LoadFails, objects, cancels, sends, section, host

LEMMA RefusedInv ==
  ASSUME IInv, NEW t \in Threads, Refused(t)
  PROVE  IInv'
  <1>1. lock = t /\ Counts(thread[t]) /\ thread[t].at = "loading"
    BY Holder DEF Refused, Holds, Within
  <1>2. mode' \in Modes
    BY DEF IInv, Typed, ThreadRecord, Refused
  <1>3. active # 0 /\ ~unseen => session[active].mode = mode'
    BY <1>1, AgreedOutside DEF Counts, BeforeReplace, Refused
  <1> QED
    BY <1>1, <1>2, <1>3, GivesUpInv DEF Refused, objects, cancels, sends, section, host

LEMMA StartFailsInv ==
  ASSUME IInv, NEW t \in Threads, StartFails(t)
  PROVE  IInv'
  <1>1. lock = t /\ Counts(thread[t]) /\ thread[t].at = "starting"
    BY Holder DEF StartFails, Holds, Within
  <1>2. mode' \in Modes /\ active = 0
    BY <1>1 DEF IInv, Typed, ThreadRecord, StartFails, Counts, BetweenSessions
  <1> QED
    BY <1>1, <1>2, GivesUpInv DEF StartFails, objects, cancels, sends, section, host

\* endActiveSession, by the thread in the section, which goes on at s.
LEMMA EndActiveInv ==
  ASSUME IInv, NEW t \in Threads, NEW s \in {"stopping", "leaving"}, lock = t, active # 0,
         EndActive, thread' = Goes(t, s),
         s = "stopping" /\ ~unseen => thread[t].mode = mode,
         UNCHANGED <<mode, unseen, session, made, cancelVersion, lock, pending>>
  PROVE  IInv'
  <1>1. s \in Stages
    BY DEF Stages
  <1>2. /\ thread' \in [Threads -> ThreadRecord]
        /\ thread'[t].at = s /\ thread'[t].mode = thread[t].mode
        /\ \A u \in Threads : u # t => thread'[u] = thread[u]
    BY <1>1, GoesTo DEF IInv
  <1>3. Typed'
    BY <1>2, ControlAssumption DEF IInv, Typed, EndActive
  <1>4. Section(thread)'
    <2>1. active' = 0
      BY DEF EndActive
    <2>2. (Counts(thread[t]))'
      BY <1>2, <2>1 DEF Counts, BeforeReplace, BetweenSessions
    <2>3. Agreed(thread)'
      BY <2>1 DEF Agreed
    <2> QED
      BY <1>2, <2>2, <2>3, SectionStep
  <1>5. StopsInv' /\ NoStrandedReload'
    BY DEF IInv, StopsInv, NoStrandedReload, Idle, EndActive
  <1> QED
    BY <1>3, <1>4, <1>5 DEF IInv

LEMMA ReplaceInv ==
  ASSUME IInv, NEW t \in Threads, Replace(t)
  PROVE  IInv'
  <1>1. lock = t /\ Counts(thread[t]) /\ thread[t].at = "loading" /\ active # 0
    BY Holder DEF Replace, Holds, Within, Idle
  <1>2. ~unseen => thread[t].mode = mode
    BY <1>1 DEF Counts, BeforeReplace
  <1> QED
    BY <1>1, <1>2, EndActiveInv DEF Replace, setting, cancels, section

LEMMA StoppedInv ==
  ASSUME IInv, NEW t \in Threads, Stopped(t)
  PROVE  IInv'
  <1>1. lock = t /\ Counts(thread[t]) /\ thread[t].at = "stopping"
    BY Holder DEF Stopped, Holds, Within
  <1>2. thread[t] \in ThreadRecord /\ "starting" \in Stages
    BY DEF IInv, Typed, Stages
  <1>3. stops = {}
    BY DEF IInv, StopsInv, Stopped
  <1>4. Counts([thread[t] EXCEPT !.at = "starting"])
    BY <1>1, <1>2, <1>3 DEF Counts, ThreadRecord, BeforeReplace, BetweenSessions
  <1>5. Section(Goes(t, "starting"))
    BY <1>1, <1>2, <1>4, SectionMoved DEF BeforeReplace
  <1> QED
    BY <1>2, <1>5, MoveInv
    DEF Stopped, setting, objects, cancels, sends, section, host, IInv, Typed

LEMMA StartedInv ==
  ASSUME IInv, NEW t \in Threads, Started(t)
  PROVE  IInv'
  <1> DEFINE r    == thread[t]
             new  == made + 1
             runs == IF r.op = "resume" THEN r.cv = cancelVersion ELSE r.auto
             s    == IF runs /\ ~(r.auto /\ r.bare) THEN "mentions" ELSE "leaving"
  <1>1. lock = t /\ Counts(thread[t]) /\ thread[t].at = "starting" /\ t # Nobody
    BY Holder, Names DEF Started, Holds, Within
  <1>2. new \in Objects /\ new # 0 /\ new \in Nat /\ new \in 0 .. MaxSessions
    BY ControlAssumption DEF IInv, Typed, Started, Objects
  <1>3. r \in ThreadRecord /\ runs \in BOOLEAN
    BY DEF IInv, Typed, ThreadRecord
  <1>4. /\ thread' = [thread EXCEPT ![t].of = new, ![t].at = s]
        /\ session' = [session EXCEPT ![new] = [mode |-> r.mode, running |-> runs,
                                                version |-> 0]]
        /\ active' = new /\ made' = new
        /\ UNCHANGED <<mode, unseen, cancelVersion, pendingStop, lock, pending, stops>>
    BY DEF Started, cancels, section
  <1> HIDE DEF new, runs
  <1>5. /\ thread' \in [Threads -> ThreadRecord]
        /\ thread'[t].at \in {"mentions", "leaving"}
        /\ \A u \in Threads : u # t => thread'[u] = thread[u]
    BY <1>2, <1>3, <1>4 DEF IInv, Typed, ThreadRecord, Stages
  <1>6. session' \in [Objects -> SessionRecord] /\ session'[new].mode = r.mode
    BY <1>2, <1>3, <1>4 DEF IInv, Typed, ThreadRecord, SessionRecord
  <1>7. unsent' \in Flows \cup {Nobody}
    BY <1>3 DEF IInv, Typed, Started, Sent, sends
  <1>8. Typed'
    BY <1>2, <1>4, <1>5, <1>6, <1>7 DEF IInv, Typed
  <1>9. Section(thread)'
    <2>1. ~unseen => r.mode = mode
      BY <1>1 DEF Counts
    <2>2. (Counts(thread[t]))'
      BY <1>2, <1>4, <1>5 DEF Counts, BeforeReplace, BetweenSessions
    <2>3. Agreed(thread)'
      BY <1>4, <1>6, <2>1 DEF Agreed
    <2> QED
      BY <1>1, <1>4, <1>5, <2>2, <2>3, SectionStep
  <1>10. StopsInv'
    BY <1>1, <1>4 DEF IInv, StopsInv, Counts
  <1>11. NoStrandedReload'
    BY <1>1, <1>4 DEF NoStrandedReload
  <1> QED
    BY <1>8, <1>9, <1>10, <1>11 DEF IInv

-----------------------------------------------------------------------------
(***************************************************************************)
(* Messages.                                                               *)
(***************************************************************************)
\* A step of a flow that has the section or takes it, or of one outside of it,
\* that may mark the session as running.
LEMMA FlowInv ==
  ASSUME IInv, NEW f \in Flows,
         thread' \in [Threads -> ThreadRecord],
         \A u \in Threads : u # f => thread'[u] = thread[u],
         lock' = lock \/ (lock = Nobody /\ lock' = f),
         (Holds(thread[f]) => lock = f)', (lock = f => Counts(thread[f]))',
         thread[f].at \notin BeforeReplace \/ lock # f,
         session' = session \/ session' = Flagged(TRUE),
         unsent' \in Flows \cup {Nobody},
         UNCHANGED <<mode, unseen, active, made, cancelVersion, pending, stops, pendingStop>>
  PROVE  IInv'
  <1>1. f \in Threads /\ f # Nobody
    BY Names
  <1>2. /\ session' \in [Objects -> SessionRecord]
        /\ active # 0 => session'[active].mode = session[active].mode
        /\ Idle' => Idle
    <2>1. CASE session' = session
      BY <2>1 DEF IInv, Typed, Idle
    <2>2. CASE session' = Flagged(TRUE)
      BY <2>2, FlaggedType DEF IInv, Idle
    <2> QED
      BY <2>1, <2>2
  <1>3. Typed'
    BY <1>2 DEF IInv, Typed
  <1>4. Section(thread)'
    <2>1. Agreed(thread)'
      BY <1>1, <1>2, Names DEF IInv, Section, Agreed
    <2> QED
      BY <1>1, <1>2, <2>1, SectionStep
  <1>5. StopsInv' /\ NoStrandedReload'
    BY <1>1, <1>2 DEF IInv, StopsInv, NoStrandedReload
  <1> QED
    BY <1>3, <1>4, <1>5 DEF IInv

LEMMA FollowInv ==
  ASSUME IInv, NEW f \in Flows, NEW bare \in BOOLEAN, Follow(f, bare)
  PROVE  IInv'
  <1> DEFINE joins == active # 0 /\ (Running \/ phase = "streaming")
             r == [Message(f, bare) EXCEPT !.at = IF joins THEN "mentions" ELSE "rebuilds",
                                           !.joins = joins, !.early = (phase = "streaming")]
  <1>1. f \in Threads /\ thread[f].at = "new"
    BY Names DEF Follow
  <1>2. cancelVersion \in Nat /\ joins \in BOOLEAN /\ (phase = "streaming") \in BOOLEAN
    BY DEF IInv, Typed, Running, SessionRecord
  <1> HIDE DEF joins
  <1>3. r \in ThreadRecord /\ r.op = "follow" /\ r.at \in {"mentions", "rebuilds"}
    BY <1>2 DEF Message, NoThread, ThreadRecord, Operations, Stages, Modes
  <1>4. thread' = [thread EXCEPT ![f] = r]
    BY DEF Follow, joins
  <1> HIDE DEF r
  <1>5. /\ thread' \in [Threads -> ThreadRecord] /\ thread'[f] = r
        /\ \A u \in Threads : u # f => thread'[u] = thread[u]
    BY <1>1, <1>3, <1>4 DEF IInv, Typed
  <1>6. ~Holds(thread[f])' /\ (Counts(thread[f]))'
    BY <1>3, <1>5 DEF Holds, Within, Counts, BeforeReplace, BetweenSessions
  <1>7. session' = session \/ session' = Flagged(TRUE)
    BY DEF Follow
  <1> QED
    BY <1>1, <1>5, <1>6, <1>7, FlowInv
    DEF Follow, cancels, sends, section, host, BeforeReplace, IInv, Typed

LEMMA WaitedInv ==
  ASSUME IInv, NEW f \in Flows, Waited(f)
  PROVE  IInv'
  <1> DEFINE s == IF Cancelled(f) THEN "done" ELSE "lock"
  <1>1. f \in Threads /\ lock # f /\ s \in Stages /\ s \notin Within /\ s # "mentions"
    BY Names DEF Waited, Stages, Within
  <1>2. thread' = Goes(f, s)
    BY DEF Waited
  <1> HIDE DEF s
  <1>3. Section(Goes(f, s))
    BY <1>1, SectionMoved
  <1> QED
    BY <1>1, <1>2, <1>3, MoveInv
    DEF Waited, setting, objects, cancels, sends, section, host, IInv, Typed

LEMMA EnterFollowInv ==
  ASSUME IInv, NEW f \in Flows, EnterFollow(f)
  PROVE  IInv'
  <1> DEFINE joins == active # 0 /\ (Running \/ thread[f].early)
             at    == CASE Cancelled(f) -> "leaving"
                        [] ~Cancelled(f) /\ joins -> "mentions"
                        [] ~Cancelled(f) /\ ~joins /\ active # 0 -> "settling"
                        [] OTHER -> "preparing"
             op    == IF at = "preparing" THEN "resume" ELSE "follow"
  <1>1. f \in Threads /\ lock = Nobody /\ lock' = f /\ thread[f] \in ThreadRecord
    BY Names DEF EnterFollow, IInv, Typed
  <1>2. joins \in BOOLEAN /\ active \in Nat
    BY <1>1, ControlAssumption DEF IInv, Typed, Running, SessionRecord, ThreadRecord
  <1>3. /\ at \in {"leaving", "mentions", "settling", "preparing"}
        /\ at = "preparing" => active = 0
    <2>1. CASE Cancelled(f)
      BY <2>1
    <2>2. CASE ~Cancelled(f) /\ joins
      BY <2>2
    <2>3. CASE ~Cancelled(f) /\ ~joins /\ active # 0
      BY <2>3
    <2>4. CASE ~Cancelled(f) /\ ~joins /\ active = 0
      BY <2>4
    <2> QED
      BY <1>2, <2>1, <2>2, <2>3, <2>4
  <1>4. /\ thread' = [thread EXCEPT ![f].at = at, ![f].of = active, ![f].joins = joins,
                                    ![f].op = op]
        /\ session' = session \/ session' = Flagged(TRUE)
    BY DEF EnterFollow
  <1> HIDE DEF joins, at
  <1>5. /\ thread' \in [Threads -> ThreadRecord]
        /\ thread'[f].at = at /\ thread'[f].op = op
        /\ \A u \in Threads : u # f => thread'[u] = thread[u]
    BY <1>1, <1>2, <1>3, <1>4 DEF IInv, Typed, ThreadRecord, Stages, Operations
  <1>6. UNCHANGED <<mode, unseen, active, made, cancelVersion, pending, stops, pendingStop, unsent>>
    BY DEF EnterFollow, setting, cancels, sends, host
  <1>7. (Counts(thread[f]))'
    BY <1>3, <1>5, <1>6 DEF Counts, BeforeReplace, BetweenSessions
  <1> QED
    BY <1>1, <1>4, <1>5, <1>6, <1>7, Names, FlowInv DEF IInv, Typed

LEMMA SettledInv ==
  ASSUME IInv, NEW f \in Flows, Settled(f)
  PROVE  IInv'
  <1>1. /\ f \in Threads /\ lock = f /\ thread[f].at = "settling" /\ Counts(thread[f])
        /\ thread[f] \in ThreadRecord
    BY Names, Holder DEF Settled, Holds, Within, IInv, Typed
  <1>2. UNCHANGED <<mode, unseen, active, made, cancelVersion, pending, stops, pendingStop,
                    unsent, lock>>
    BY DEF Settled, setting, cancels, sends, section, host
  <1>3. thread[f].op = "follow"
    BY <1>1 DEF Counts
  <1>4. /\ thread' \in [Threads -> ThreadRecord] /\ thread'[f].op = "follow"
        /\ thread'[f].at \in {"leaving", "mentions"}
        /\ \A u \in Threads : u # f => thread'[u] = thread[u]
        /\ session' = session \/ session' = Flagged(TRUE)
    <2>1. CASE Cancelled(f) \/ active # thread[f].of
      <3>1. thread' = Goes(f, "leaving") /\ session' = session
        BY <2>1 DEF Settled
      <3> QED
        BY <1>1, <1>3, <3>1, GoesTo DEF IInv, Stages
    <2>2. CASE ~(Cancelled(f) \/ active # thread[f].of)
      BY <1>1, <1>3, <2>2 DEF IInv, Typed, Settled, ThreadRecord, Stages
    <2> QED
      BY <2>1, <2>2
  <1>5. (Counts(thread[f]))'
    BY <1>4 DEF Counts, BeforeReplace, BetweenSessions
  <1> QED
    BY <1>1, <1>2, <1>4, <1>5, FlowInv DEF BeforeReplace, IInv, Typed

LEMMA PreparedInv ==
  ASSUME IInv, NEW f \in Flows, Prepared(f)
  PROVE  IInv'
  <1> DEFINE s == IF Cancelled(f) THEN "leaving" ELSE "stopping"
  <1>1. /\ f \in Threads /\ lock = f /\ thread[f].at = "preparing" /\ active = 0
        /\ thread[f] \in ThreadRecord
    BY Names, Holder DEF Prepared, Holds, Within, IInv, Typed, Counts, BetweenSessions
  <1>2. UNCHANGED <<mode, unseen, active, made, cancelVersion, pending, stops, pendingStop,
                    unsent, session, lock>>
    BY DEF Prepared, objects, cancels, sends, section, host
  <1>3. thread' = [thread EXCEPT ![f].at = s, ![f].mode = mode] /\ s \in {"leaving", "stopping"}
    BY DEF Prepared
  <1> HIDE DEF s
  <1>4. /\ thread' \in [Threads -> ThreadRecord]
        /\ thread'[f].at = s /\ thread'[f].mode = mode
        /\ \A u \in Threads : u # f => thread'[u] = thread[u]
    BY <1>1, <1>3 DEF IInv, Typed, ThreadRecord, Stages
  <1>5. (Counts(thread[f]))'
    BY <1>1, <1>2, <1>3, <1>4 DEF Counts, BeforeReplace, BetweenSessions
  <1> QED
    BY <1>1, <1>2, <1>4, <1>5, FlowInv DEF BeforeReplace, IInv, Typed

LEMMA PrepareFailsInv ==
  ASSUME IInv, NEW f \in Flows, PrepareFails(f)
  PROVE  IInv'
  <1>1. f \in Threads /\ lock = f /\ active = 0
    BY Names, Holder DEF PrepareFails, Holds, Within, Counts, BetweenSessions
  <1> QED
    BY <1>1, GivesUpInv DEF PrepareFails, IInv, Typed, objects, cancels, sends, section, host

\* A flow whose text is ready, or that gives up, has at most to leave the section.
LEMMA LeavesSection ==
  ASSUME IInv, NEW f \in Flows, thread[f].at = "mentions"
  PROVE  Section(Leaves(f)) /\ Leaves(f) \in [Threads -> ThreadRecord]
  <1> DEFINE s == IF lock = f THEN "leaving" ELSE "done"
  <1>1. f \in Threads /\ s \in Stages /\ s # "mentions" /\ Leaves(f) = Goes(f, s)
    BY Names DEF Stages, Leaves
  <1>2. s \in Within => lock = f
    BY DEF Within
  <1>3. lock = f => Counts([thread[f] EXCEPT !.at = s])
    <2>1. [thread[f] EXCEPT !.at = s].at = s
      BY <1>1 DEF IInv, Typed, ThreadRecord
    <2> QED
      BY <2>1 DEF Counts, BeforeReplace, BetweenSessions
  <1>4. Section(Goes(f, s)) /\ Goes(f, s) \in [Threads -> ThreadRecord]
    <2> HIDE DEF s
    <2> QED
      BY <1>1, <1>2, <1>3, SectionMoved, GoesTo DEF BeforeReplace, IInv
  <1> QED
    BY <1>1, <1>4

LEMMA TextReadyInv ==
  ASSUME IInv, NEW f \in Flows, TextReady(f)
  PROVE  IInv'
  <1> DEFINE s == IF lock = f THEN "leaving" ELSE "done"
  <1>1. f \in Threads /\ s \in Stages /\ thread[f].at = "mentions" /\ thread' = Goes(f, s)
    BY Names DEF TextReady, Submit, Leaves, Stages
  <1>2. Section(Goes(f, s))
    BY <1>1, LeavesSection DEF Leaves
  <1>3. unsent' \in Flows \cup {Nobody}
    BY <1>1 DEF TextReady, Submit, Sent, IInv, Typed, ThreadRecord
  <1> HIDE DEF s
  <1> QED
    BY <1>1, <1>2, <1>3, MoveInv DEF TextReady, Submit, setting, objects, cancels, section, host

LEMMA TextCancelledInv ==
  ASSUME IInv, NEW f \in Flows, TextCancelled(f)
  PROVE  IInv'
  <1> DEFINE s == IF lock = f THEN "leaving" ELSE "done"
  <1>1. f \in Threads /\ s \in Stages /\ Leaves(f) = Goes(f, s)
    BY Names DEF Leaves, Stages
  <1>2. Section(Leaves(f)) /\ Leaves(f) \in [Threads -> ThreadRecord]
    BY LeavesSection DEF TextCancelled
  <1>3. CASE thread[f].op = "resume"
    <2>1. SetIdle(Leaves(f), "other")
      BY <1>3 DEF TextCancelled
    <2> QED
      BY <1>2, <2>1, SetIdleInv DEF TextCancelled, setting, cancels, host
  <1>4. CASE thread[f].op # "resume"
    <2>1. thread' = Goes(f, s)
      BY <1>1, <1>4 DEF TextCancelled
    <2> HIDE DEF s
    <2> QED
      BY <1>1, <1>2, <1>4, <2>1, MoveInv
      DEF TextCancelled, setting, cancels, section, host, IInv, Typed
  <1> QED
    BY <1>3, <1>4

LEMMA ResumeFailsInv ==
  ASSUME IInv, NEW f \in Flows, ResumeFails(f)
  PROVE  IInv'
  <1>1. f \in Threads /\ lock = f /\ active # 0
    BY Names, Holder DEF ResumeFails, Holds, Counts
  <1>2. /\ EndActive /\ thread' = Goes(f, "leaving")
        /\ UNCHANGED <<mode, unseen, session, made, cancelVersion, lock, pending>>
    BY DEF ResumeFails, cancels, section
  <1> DEFINE s == "leaving"
  <1>3. s \in {"stopping", "leaving"} /\ s # "stopping" /\ thread' = Goes(f, s)
    BY <1>2
  <1> HIDE DEF s
  <1> QED
    BY <1>1, <1>2, <1>3, EndActiveInv

-----------------------------------------------------------------------------
(***************************************************************************)
(* Sends, the host, the cancel and the scheduler.                          *)
(***************************************************************************)
LEMMA SendLeavesInv ==
  ASSUME IInv, SendLeaves
  PROVE  IInv'
  <1>1. unsent' \in Flows \cup {Nobody}
    BY DEF IInv, Typed, SendLeaves
  <1> QED
    BY <1>1, Unseen DEF SendLeaves, setting, objects, cancels, section

\* Steps of the host that no variable of the invariant hears of.
LEMMA HostInv ==
  ASSUME IInv,
         \/ \E f \in Flows : HostResumes(f)
         \/ CancelDone
  PROVE  IInv'
  <1>1. UNCHANGED <<mode, unseen, active, session, made, cancelVersion, unsent, thread, lock,
                    pending, stops, pendingStop>>
    BY DEF HostResumes, CancelDone, setting, objects, cancels, sends, section, host
  <1> QED
    BY <1>1, Unseen DEF IInv, Typed

LEMMA StopDoneInv ==
  ASSUME IInv, NEW o \in Objects, StopDone(o)
  PROVE  IInv'
  <1>1. /\ UNCHANGED <<mode, unseen, active, session, made, cancelVersion, unsent, thread,
                       lock, pending>>
        /\ stops' = stops \ {o} /\ pendingStop' = IF pendingStop = o THEN 0 ELSE pendingStop
        /\ o \in stops
    BY DEF StopDone, setting, objects, cancels, section
  <1>2. Typed'
    BY <1>1 DEF IInv, Typed
  <1>3. Section(thread)'
    <2>1. (lock \in Threads => Counts(thread[lock]))'
      BY <1>1 DEF IInv, Section, Counts
    <2>2. Agreed(thread)'
      BY <1>1 DEF IInv, Section, Agreed
    <2> QED
      BY <1>1, <2>1, <2>2 DEF IInv, Section
  <1>4. StopsInv' /\ NoStrandedReload'
    BY <1>1 DEF IInv, StopsInv, NoStrandedReload, Idle
  <1> QED
    BY <1>2, <1>3, <1>4 DEF IInv

\* The session may become idle, or nothing of the invariant changes.
LEMMA TurnInv ==
  ASSUME IInv,
         \/ \E by \in {"turn", "other"} : SetIdle(thread, by)
         \/ UNCHANGED <<session, thread, lock, pending>>,
         UNCHANGED <<mode, unseen, active, made, cancelVersion, unsent, stops, pendingStop>>
  PROVE  IInv'
  <1>1. CASE \E by \in {"turn", "other"} : SetIdle(thread, by)
    BY <1>1, SetIdleInv DEF IInv, Typed
  <1>2. CASE UNCHANGED <<session, thread, lock, pending>>
    BY <1>2, Unseen DEF IInv, Typed
  <1> QED
    BY <1>1, <1>2

LEMMA TurnOverInv ==
  ASSUME IInv, NEW outcome, TurnOver(outcome)
  PROVE  IInv'
  BY TurnInv DEF TurnOver, cancels, section

LEMMA SendSettlesInv ==
  ASSUME IInv, NEW f \in Flows, SendSettles(f)
  PROVE  IInv'
  BY TurnInv DEF SendSettles, cancels, section, host

LEMMA DrainQueueInv ==
  ASSUME IInv, DrainQueue
  PROVE  IInv'
  <1>1. UNCHANGED <<mode, unseen, active, made, cancelVersion, unsent, thread, lock, pending,
                    stops, pendingStop>>
    BY DEF DrainQueue, cancels, sends, section
  <1>2. /\ session' \in [Objects -> SessionRecord]
        /\ active # 0 => session'[active].mode = session[active].mode
        /\ Idle' => Idle
    BY <1>1, FlaggedType DEF IInv, DrainQueue, Idle
  <1>3. Typed'
    BY <1>1, <1>2 DEF IInv, Typed
  <1>4. Section(thread)'
    <2>1. (lock \in Threads => Counts(thread[lock]))'
      BY <1>1, <1>2 DEF IInv, Section, Counts
    <2>2. Agreed(thread)'
      BY <1>1, <1>2 DEF IInv, Section, Agreed
    <2> QED
      BY <1>1, <2>1, <2>2 DEF IInv, Section
  <1>5. StopsInv' /\ NoStrandedReload'
    BY <1>1, <1>2 DEF IInv, StopsInv, NoStrandedReload
  <1> QED
    BY <1>3, <1>4, <1>5 DEF IInv

LEMMA CancelInv ==
  ASSUME IInv, Cancel
  PROVE  IInv'
  <1>1. /\ session' \in [Objects -> SessionRecord]
        /\ active # 0 => session'[active].mode = session[active].mode
    <2>1. CASE active = 0
      BY <2>1 DEF IInv, Typed, Cancel
    <2>2. CASE active # 0
      <3>1. active \in Objects
        BY <2>2, ControlAssumption DEF IInv, Typed, Objects
      <3>2. session[active] \in SessionRecord /\ session[active].version + 1 \in Nat
        BY <3>1 DEF IInv, Typed, SessionRecord
      <3> DEFINE later == [session EXCEPT ![active].version = @ + 1]
      <3>3. /\ later \in [Objects -> SessionRecord]
            /\ later[active].mode = session[active].mode
        BY <3>1, <3>2 DEF IInv, Typed, SessionRecord
      <3>4. session' = [later EXCEPT ![active].running = FALSE]
        BY <2>2 DEF Cancel
      <3> HIDE DEF later
      <3> QED
        BY <3>1, <3>3, <3>4 DEF SessionRecord
    <2> QED
      BY <2>1, <2>2
  <1>2. UNCHANGED <<mode, unseen, active, made, unsent, stops, pendingStop>>
    BY DEF Cancel
  <1>3. /\ thread' \in [Threads -> ThreadRecord] /\ pending' \in BOOLEAN
        /\ Section(thread)' /\ NoStrandedReload'
    BY <1>1, <1>2, DrainInv DEF Cancel, IInv, Typed
  <1>4. cancelVersion' \in Nat
    BY DEF Cancel, IInv, Typed
  <1> QED
    BY <1>1, <1>2, <1>3, <1>4 DEF IInv, Typed, StopsInv

\* The drain takes the pending reload of an active session from a section that no
\* thread is in.
LEMMA ReloadTaken ==
  ASSUME Typed, active # 0, NEW th, th \in [Threads -> ThreadRecord],
         \A u \in Threads : ~Holds(th[u]), ~unseen => session[active].mode = mode,
         thread' = [th EXCEPT ![Reloader] = Reload(active)], lock' = Reloader,
         UNCHANGED <<mode, unseen, active, session, stops>>
  PROVE  thread' \in [Threads -> ThreadRecord] /\ Section(thread)'
  <1>1. Reload(active) \in ThreadRecord
    <2>1. active \in Nat /\ mode \in Modes
      BY ControlAssumption DEF Typed
    <2> QED
      BY <2>1 DEF Reload, NoThread, ThreadRecord, Operations, Stages, Modes
  <1>2. thread'[Reloader] = Reload(active) /\ thread' \in [Threads -> ThreadRecord]
    BY <1>1, Names
  <1>3. (\A u \in Threads : Holds(thread[u]) => lock = u)'
    BY <1>2, Names
  <1>4. (Counts(thread[Reloader]))'
    BY <1>2 DEF Counts, Reload, NoThread, BetweenSessions, BeforeReplace
  <1>5. Agreed(thread)'
    BY DEF Agreed
  <1> QED
    BY <1>2, <1>3, <1>4, <1>5 DEF Section

LEMMA NewToolsInv ==
  ASSUME IInv, NewTools
  PROVE  IInv'
  <1>1. UNCHANGED <<mode, unseen, active, session, made, cancelVersion, unsent, stops,
                    pendingStop>>
    BY DEF NewTools, setting, objects, cancels, sends, host
  <1>2. CASE Idle /\ lock = Nobody
    <2>1. thread' = [thread EXCEPT ![Reloader] = Reload(active)] /\ lock' = Reloader
      BY <1>2 DEF NewTools
    <2>2. active # 0 /\ ~pending /\ pending' = FALSE
      BY <1>2 DEF NewTools, Idle, IInv, NoStrandedReload
    <2>3. \A u \in Threads : ~Holds(thread[u])
      BY <1>2, Names DEF IInv, Section
    <2>4. ~unseen => session[active].mode = mode
      BY <1>2, <2>2, Names DEF IInv, Section, Agreed
    <2>5. thread' \in [Threads -> ThreadRecord] /\ Section(thread)'
      BY <1>1, <2>1, <2>2, <2>3, <2>4, ReloadTaken DEF IInv, Typed
    <2> QED
      BY <1>1, <2>1, <2>2, <2>5 DEF IInv, Typed, StopsInv, NoStrandedReload
  <1>3. CASE ~(Idle /\ lock = Nobody)
    <2>1. UNCHANGED <<thread, lock>> /\ pending' \in BOOLEAN
      BY <1>3 DEF NewTools, IInv, Typed
    <2>2. (lock \in Threads => Counts(thread[lock]))' /\ Agreed(thread)'
      BY <1>1, <2>1 DEF IInv, Section, Counts, Agreed
    <2>3. Section(thread)'
      BY <2>1, <2>2 DEF IInv, Section
    <2> QED
      BY <1>1, <1>3, <2>1, <2>3 DEF IInv, Typed, StopsInv, NoStrandedReload, Idle
  <1> QED
    BY <1>2, <1>3

LEMMA LeaveInv ==
  ASSUME IInv, NEW t \in Threads, Leave(t)
  PROVE  IInv'
  <1> DEFINE th  == IF t = Reloader THEN [thread EXCEPT ![t] = NoThread] ELSE Goes(t, "done")
             due == pending /\ Idle
  <1>1. lock = t /\ thread[t].at = "leaving"
    BY Holder DEF Leave, Holds, Within
  <1>2. UNCHANGED <<mode, unseen, active, session, made, cancelVersion, unsent, stops,
                    pendingStop>>
    BY DEF Leave, setting, objects, cancels, sends, host
  <1>3. /\ th \in [Threads -> ThreadRecord]
        /\ th[t].at \in {"new", "done"}
        /\ \A u \in Threads : u # t => th[u] = thread[u]
    <2>1. CASE t = Reloader
      BY <2>1, FreshRecord DEF IInv, Typed, NoThread
    <2>2. CASE t # Reloader
      BY <2>2, GoesTo DEF IInv, Stages
    <2> QED
      BY <2>1, <2>2
  <1>4. active # 0 /\ ~unseen => session[active].mode = mode
    BY <1>1, AgreedOutside DEF BeforeReplace
  <1>5. /\ thread' = IF due THEN [th EXCEPT ![Reloader] = Reload(active)] ELSE th
        /\ lock' = IF due THEN Reloader ELSE Nobody
        /\ pending' = (pending /\ ~due /\ ~(t = Reloader /\ active = 0))
    BY DEF Leave
  <1> HIDE DEF th
  <1>6. \A u \in Threads : ~Holds(th[u])
    BY <1>1, <1>3 DEF IInv, Section, Holds, Within
  <1>7. CASE due
    <2>1. active # 0 /\ pending' = FALSE
      BY <1>5, <1>7 DEF Idle
    <2>2. thread' \in [Threads -> ThreadRecord] /\ Section(thread)'
      BY <1>2, <1>3, <1>4, <1>5, <1>6, <1>7, <2>1, ReloadTaken DEF IInv
    <2> QED
      BY <1>2, <1>5, <1>7, <2>1, <2>2 DEF IInv, Typed, StopsInv, NoStrandedReload
  <1>8. CASE ~due
    <2>1. thread' = th /\ lock' = Nobody /\ pending' \in BOOLEAN
      BY <1>5, <1>8 DEF IInv, Typed
    <2>2. Section(thread)'
      <3>1. Agreed(thread)'
        BY <1>2, <1>4 DEF Agreed
      <3> QED
        BY <1>6, <2>1, <3>1, Names DEF Section
    <2>3. NoStrandedReload'
      BY <1>2, <1>5, <1>8 DEF NoStrandedReload, Idle
    <2> QED
      BY <1>2, <1>3, <2>1, <2>2, <2>3 DEF IInv, Typed, StopsInv
  <1> QED
    BY <1>7, <1>8

-----------------------------------------------------------------------------
(***************************************************************************)
(* The invariant and what follows from it.                                 *)
(***************************************************************************)
\* Steps of a flow.
FlowStep(f) ==
    \/ \E m \in Modes, auto, bare \in BOOLEAN : Switch(f, m, auto, bare)
    \/ \E bare \in BOOLEAN : Follow(f, bare)
    \/ EnterSwitch(f) \/ AbortForSwitch(f) \/ Aborted(f)
    \/ Waited(f) \/ EnterFollow(f) \/ Settled(f) \/ Prepared(f) \/ PrepareFails(f)
    \/ TextReady(f) \/ TextCancelled(f) \/ ResumeFails(f)
    \/ HostResumes(f) \/ SendSettles(f)

LEMMA FlowStepInv ==
  ASSUME IInv, NEW f \in Flows, FlowStep(f)
  PROVE  IInv'
  BY SwitchInv, FollowInv, EnterSwitchInv, AbortForSwitchInv, AbortedInv, WaitedInv,
     EnterFollowInv, SettledInv, PreparedInv, PrepareFailsInv, TextReadyInv,
     TextCancelledInv, ResumeFailsInv, HostInv, SendSettlesInv
  DEF FlowStep

\* Steps of a thread in the section.
SectionalStep(t) ==
    \/ LoadFails(t) \/ Refused(t) \/ Replace(t) \/ Stopped(t) \/ Started(t)
    \/ StartFails(t) \/ Leave(t)

LEMMA SectionalStepInv ==
  ASSUME IInv, NEW t \in Threads, SectionalStep(t)
  PROVE  IInv'
  BY LoadFailsInv, RefusedInv, ReplaceInv, StoppedInv, StartedInv, StartFailsInv, LeaveInv
  DEF SectionalStep

LEMMA StepInv == IInv /\ [Next]_vars => IInv'
  <1> SUFFICES ASSUME IInv, [Next]_vars PROVE IInv'
    OBVIOUS
  <1>1. ASSUME NEW f \in Flows, FlowStep(f) PROVE IInv'
    BY <1>1, FlowStepInv
  <1>2. ASSUME NEW t \in Threads, SectionalStep(t) PROVE IInv'
    BY <1>2, SectionalStepInv
  <1>3. CASE NewTools
    BY <1>3, NewToolsInv
  <1>4. CASE SendLeaves
    BY <1>4, SendLeavesInv
  <1>5. CASE TurnEnds \/ TurnFails
    BY <1>5, TurnOverInv DEF TurnEnds, TurnFails
  <1>6. CASE DrainQueue
    BY <1>6, DrainQueueInv
  <1>7. CASE \E o \in Objects : StopDone(o)
    BY <1>7, StopDoneInv
  <1>8. CASE Cancel
    BY <1>8, CancelInv
  <1>9. CASE CancelDone
    BY <1>9, HostInv
  <1>10. CASE UNCHANGED vars
    <2>1. UNCHANGED <<mode, unseen, active, session, made, cancelVersion, unsent, thread,
                      lock, pending, stops, pendingStop>>
      BY <1>10 DEF vars, setting, objects, cancels, sends, section, host
    <2> QED
      BY <2>1, Unseen DEF IInv, Typed
  <1> QED
    BY <1>1, <1>2, <1>3, <1>4, <1>5, <1>6, <1>7, <1>8, <1>9, <1>10
    DEF Next, FlowStep, SectionalStep

\* The inductive invariant of the control of the displayed session: the types, one
\* operation in the section and what it may count on, the stops under way, and no
\* reload left pending.
THEOREM ControlInvariant == Spec => []IInv
  BY InitInv, StepInv, PTL DEF Spec

\* startNewSession never gets as far as core while a stop of an earlier session of
\* the conversation is under way, however many sessions, switches and cancels there
\* were (sdk-session-lifecycle.ts, pendingStops).
THEOREM StopsComeFirst == Spec => []StopBeforeStart
  <1>1. IInv => StopBeforeStart
    <2> SUFFICES ASSUME IInv, NEW t \in Threads, thread[t].at = "starting"
                 PROVE  stops = {}
      BY DEF StopBeforeStart
    <2>1. Counts(thread[t])
      BY Holder DEF Holds, Within
    <2> QED
      BY <2>1 DEF Counts
  <1> QED
    BY <1>1, ControlInvariant, PTL

\* The mode of the session is the mode of the setting whenever no operation is in
\* the section, whichever switches were refused, failed or rolled back
\* (sdk-mode-coordinator.ts, performRebuildSessionForMode).
THEOREM ModesAgree == Spec => []ModeMatchesSession
  <1>1. IInv => ModeMatchesSession
    BY Names DEF IInv, Section, Agreed, ModeMatchesSession
  <1> QED
    BY <1>1, ControlInvariant, PTL

\* A reload of the MCP tools never stays pending beside an idle session and a free
\* section: whoever makes the session idle, leaves the section or asks for the
\* reload looks for it (sdk-session-rebuild-scheduler.ts).
THEOREM NoReloadStranded == Spec => []NoStrandedReload
  <1>1. IInv => NoStrandedReload
    BY DEF IInv
  <1> QED
    BY <1>1, ControlInvariant, PTL

\* At most one operation is where it replaces, starts or resumes a session
\* (sdk-session-rebuild-scheduler.ts, runExclusive).
OneInSection == \A t, u \in Threads : Holds(thread[t]) /\ Holds(thread[u]) => t = u

\* No two operations replace or start a session at once, for any number of them:
\* the section is never given away while its thread is at work.
THEOREM SectionExclusive == Spec => []OneInSection
  <1>1. IInv => OneInSection
    BY DEF IInv, Section, OneInSection
  <1> QED
    BY <1>1, ControlInvariant, PTL

-----------------------------------------------------------------------------
(***************************************************************************)
(* Messages on their way to the host.                                      *)
(***************************************************************************)
SendStages == {"none", "outbound", "waiting", "turn", "ended", "failed", "aborted", "settled"}

SendRecord == [at : SendStages, of : Nat, version : Nat, joins : BOOLEAN,
               carries : Flows \cup {Nobody}, on : Nat]

MessageTypes ==
    /\ send \in [Flows -> SendRecord] /\ outbound \in Seq(Flows)
    /\ handed \subseteq Flows /\ strays \subseteq Flows
    /\ turn \in Flows \cup {Drained, Nobody}
    /\ held \in BOOLEAN /\ cancelling \in BOOLEAN /\ hosted \in Nat

\* A flow that has not yet taken up the words it sends.
Early == Stages \ {"mentions", "leaving", "done"}

\* What there is to know about the thread t, in the section of lk, with the session
\* object act and cv cancels so far.
Shaped(t, r, lk, act, cv) ==
    /\ r.cv <= cv
    /\ r.auto => r.op = "switch"
    /\ r.op \in {"switch", "resume", "reload"} => ~r.joins
    /\ r.at = "settling" => ~r.joins /\ r.of # 0
    /\ r.at \in {"preparing", "stopping", "starting"} => r.op # "follow"
    /\ r.at = "mentions" /\ ~r.joins => lk = t /\ act # 0
    /\ r.at \in Early \/ r.joins => r.carries \in {t, Nobody}
    /\ r.op = "switch" /\ r.bare => r.carries = Nobody
    /\ t = Reloader => r.op \in {"none", "reload"}

ThreadShapes == \A t \in Threads : Shaped(t, thread[t], lock, active, cancelVersion)

\* A send follows from a thread that is through, for a session object that was made,
\* with a version that was the latest.
SendsInv ==
    /\ \A i \in DOMAIN outbound : send[outbound[i]].at = "outbound"
    /\ \A i, j \in DOMAIN outbound : outbound[i] = outbound[j] => i = j
    /\ \A f \in Flows : send[f].at # "none" =>
         /\ thread[f].at \in {"leaving", "done"}
         /\ send[f].joins = thread[f].joins /\ send[f].carries = thread[f].carries
         /\ send[f].of <= made
         /\ send[f].of # 0 => send[f].version <= session[send[f].of].version
    /\ \A f \in Flows : send[f].at \in {"waiting", "turn"} => ~send[f].joins
    /\ \A f \in strays : thread[f].at \in {"mentions", "leaving", "done"}
    /\ turn \in Flows => send[turn].at = "turn"
    /\ hosted = 0 => turn = Nobody
    /\ active <= made

\* A message with a turn of its own: its text is prepared, it waits for the editor
\* state, or for an aborted turn to end.
Mentions(f) == /\ thread[f].at = "mentions" /\ ~thread[f].joins
               /\ thread[f].op = "switch" \/ ~Cancelled(f)
Leaving(f)  == send[f].at = "outbound" /\ ~send[f].joins /\ ~SendCancelled(f)
OnItsWay(f) == Mentions(f) \/ Leaving(f) \/ send[f].at = "waiting"
Busy(f)     == OnItsWay(f) \/ turn = f

Punctual == Flows \ strays

\* The session runs while a message that is not a stray is on its way for it or has
\* the turn.
WayInv ==
    \A f \in Punctual :
        /\ OnItsWay(f) => Running /\ (send[f].at # "none" => send[f].of = active)
        /\ turn = f /\ active # 0 /\ ~held => Running

\* There is one such message at a time.
OneBusy == \A f, g \in Punctual : Busy(f) /\ Busy(g) => f = g

\* A follow-up that found the session idle is alone with it, but for a turn that was
\* aborted.
SettlingInv ==
    \A t \in Flows : thread[t].at = "settling" =>
        \A f \in Punctual : ~OnItsWay(f) /\ (turn = f => held)

\* An aborted turn that is still unwinding is waited for.
AbortPending ==
    held /\ turn # Nobody /\ active # 0
        => cancelling \/ \E t \in Flows : thread[t].at = "aborting"

\* While the session of a resumed conversation is prepared nothing but joining
\* messages is sent for it.
ResumeQuiet ==
    \A t \in Flows : thread[t].op = "resume" /\ thread[t].at = "mentions" =>
        \A f \in Flows : send[f].at # "none" /\ send[f].of = active => send[f].joins

\* A send that is over and still to settle leaves no room for another in the host.
OverInv ==
    \A f, g \in Punctual :
        /\ send[f].at \in Over /\ ~SendCancelled(f) /\ send[f].of = active /\ active # 0
        /\ send[g].at = "waiting" \/ turn = g
        /\ f # g
        => hosted = 0

\* The words of a flow are its own until it has sent them.
Fresh(w) == thread[w].at \in Early \/ (thread[w].joins /\ send[w].at \in {"none", "outbound"})
Lost(w)  == \E g \in strays : thread[g].carries = w

WordsInv ==
    \A w \in Flows :
        /\ Fresh(w) => /\ w \notin handed /\ unsent # w
                       /\ \A f \in Flows : f # w => thread[f].carries # w
        /\ w \in handed /\ ~Lost(w) =>
             /\ unsent # w
             /\ \A f \in Flows : thread[f].carries = w => ~Mentions(f) /\ ~Leaving(f)

\* A send whose session has not seen a cancel since is of a message that has not
\* either, unless it is of an executed plan.
CancelsInv ==
    \A f \in Flows :
        /\ send[f].at = "outbound" /\ thread[f].op # "switch"
        /\ active # 0 /\ send[f].of = active /\ send[f].version = session[active].version
        => ~Cancelled(f)

MInv ==
    /\ IInv /\ MessageTypes /\ ThreadShapes /\ SendsInv /\ WayInv /\ OneBusy /\ SettlingInv
    /\ AbortPending /\ ResumeQuiet /\ OverInv /\ WordsInv /\ CancelsInv

-----------------------------------------------------------------------------
\* A flow goes on and takes nothing up that is to be sent in a turn of its own.
MovesOn(t) ==
    \/ thread'[t] = thread[t]
    \/ /\ thread[t].at \in Early
       /\ thread'[t].carries \in {t, Nobody}
       /\ \/ thread'[t].at \in Early \cup {"leaving", "done"}
          \/ thread'[t].at = "mentions" /\ thread'[t].joins /\ thread'[t].op = "follow"
       /\ thread'[t].at = "settling" /\ thread[t].at # "settling" => active # 0 /\ ~Running
    \/ /\ thread[t].at \in {"mentions", "leaving"}
       /\ thread'[t].at \in {"leaving", "done"}
       /\ thread'[t].joins = thread[t].joins /\ thread'[t].op = thread[t].op
       /\ thread'[t].cv = thread[t].cv /\ thread'[t].carries = thread[t].carries

\* What a send may do when it is in the host, or over.
GoesOver(f) ==
    \/ send'[f] = send[f]
    \/ /\ turn = f \/ send[f].at \in Over
       /\ \E a \in Over \cup {"settled"} : send'[f] = [send[f] EXCEPT !.at = a]
       /\ turn' # f

\* A step that puts no message on its way and takes none of those that are not
\* strays out of a running session.
LEMMA CalmStep ==
  ASSUME MInv, IInv', ThreadShapes', MessageTypes', AbortPending',
         UNCHANGED <<outbound, handed, unsent, cancelVersion, active, made>>,
         strays \subseteq strays',
         \A f \in strays' : f \in strays \/ thread[f].at = "mentions" \/ send[f].at # "none",
         \A o \in Objects : session'[o].version = session[o].version,
         \A t \in Flows : MovesOn(t),
         \A f \in Flows : GoesOver(f),
         \A f \in Flows \ strays' :
            /\ OnItsWay(f) => Running'
            /\ turn' = f /\ active # 0 /\ ~held' => Running',
         turn' = turn \/ turn' \notin Flows,
         turn' \in Flows => (held => held'),
         hosted' \in {hosted, 0}, hosted' = 0 => turn' = Nobody
  PROVE  MInv'
  <1>1. /\ thread \in [Threads -> ThreadRecord] /\ thread' \in [Threads -> ThreadRecord]
        /\ Flows \subseteq Threads
    BY Names DEF MInv, IInv, Typed
  <1>2. \A f \in Flows : /\ send'[f].of = send[f].of /\ send'[f].version = send[f].version
                         /\ send'[f].joins = send[f].joins /\ send'[f].carries = send[f].carries
                         /\ send'[f] # send[f] => /\ turn = f \/ send[f].at \in Over
                                                  /\ send'[f].at \in Over \cup {"settled"}
                                                  /\ turn' # f
    BY DEF GoesOver, MInv, MessageTypes, SendRecord
  <1>3. \A f \in Flows : send[f].at # "none" => /\ send[f].of \in Nat /\ send[f].of <= made
                                                /\ SendCancelled(f)' <=> SendCancelled(f)
    <2> TAKE f \in Flows
    <2> HAVE send[f].at # "none"
    <2>1. send[f].of \in Nat /\ send[f].of <= made /\ made \in 0 .. MaxSessions
      BY DEF MInv, MessageTypes, SendRecord, SendsInv, IInv, Typed
    <2>2. send[f].of # 0 => send[f].of \in Objects
      BY <2>1, ControlAssumption DEF Objects
    <2> QED
      BY <1>2, <2>1, <2>2 DEF SendCancelled
  <1>4. \A f \in Flows : turn = f => send[f].at = "turn"
    BY DEF MInv, SendsInv
  <1>5. \A f \in Flows : /\ send'[f].at = "none" <=> send[f].at = "none"
                         /\ send'[f].at = "outbound" <=> send[f].at = "outbound"
                         /\ send'[f].at = "waiting" <=> send[f].at = "waiting"
                         /\ send'[f].at = "turn" => send[f].at = "turn"
    BY <1>2, <1>4 DEF Over
  <1>6. \A f \in Flows : Mentions(f)' => Mentions(f)
    BY DEF MovesOn, Mentions, Cancelled, Early
  <1>7. \A f \in Flows : Leaving(f)' => Leaving(f)
    BY <1>2, <1>3, <1>5 DEF Leaving
  <1>8. \A f \in Flows : OnItsWay(f)' => OnItsWay(f)
    BY <1>5, <1>6, <1>7 DEF OnItsWay
  <1>9. \A f \in Flows : thread[f].at \in {"mentions", "leaving", "done"}
          => /\ thread'[f].carries = thread[f].carries /\ thread'[f].joins = thread[f].joins
             /\ thread'[f].op = thread[f].op /\ thread'[f].cv = thread[f].cv
             /\ thread'[f].at = thread[f].at
                \/ (thread[f].at # "done" /\ thread'[f].at \in {"leaving", "done"})
    <2> TAKE f \in Flows
    <2> HAVE thread[f].at \in {"mentions", "leaving", "done"}
    <2>1. thread[f].at \notin Early
      BY DEF Early
    <2>2. CASE thread'[f] = thread[f]
      BY <2>2
    <2>3. CASE thread'[f] # thread[f]
      BY <2>1, <2>3 DEF MovesOn
    <2> QED
      BY <2>2, <2>3
  <1>10. SendsInv'
    <2>1. \A f \in Flows : send'[f].at # "none" =>
            /\ thread'[f].at \in {"leaving", "done"}
            /\ send'[f].joins = thread'[f].joins /\ send'[f].carries = thread'[f].carries
            /\ send'[f].of <= made'
      BY <1>2, <1>5, <1>9 DEF MInv, SendsInv
    <2>2. \A f \in Flows : send'[f].at # "none" /\ send'[f].of # 0
                             => send'[f].version <= session'[send'[f].of].version
      <3> SUFFICES ASSUME NEW f \in Flows, send'[f].at # "none", send'[f].of # 0
                   PROVE  send'[f].version <= session'[send'[f].of].version
        OBVIOUS
      <3>1. send[f].of \in Objects
        <4>1. send[f].of \in Nat /\ send[f].of <= made /\ send[f].of # 0
          BY <1>2, <1>3, <1>5
        <4>2. made \in 0 .. MaxSessions
          BY DEF MInv, IInv, Typed
        <4> QED
          BY <4>1, <4>2, ControlAssumption DEF Objects
      <3> QED
        BY <1>2, <1>5, <3>1 DEF MInv, SendsInv
    <2>3. \A f \in Flows : send'[f].at \in {"waiting", "turn"} => ~send'[f].joins
      BY <1>2, <1>5 DEF MInv, SendsInv
    <2>4. \A f \in strays' : thread'[f].at \in {"mentions", "leaving", "done"}
      BY <1>9 DEF MInv, SendsInv, MessageTypes
    <2>5. turn' \in Flows => send'[turn'].at = "turn"
      BY <1>2, <1>4
    <2>6. \A i \in DOMAIN outbound : outbound[i] \in Flows
      BY DEF MInv, MessageTypes
    <2> QED
      BY <1>5, <2>1, <2>2, <2>3, <2>4, <2>5, <2>6 DEF MInv, SendsInv
  <1>11. \A f \in Punctual' : f \in Punctual
    BY DEF Punctual
  <1>12. WayInv'
    BY <1>2, <1>5, <1>8, <1>11 DEF MInv, WayInv, Punctual
  <1>13. OneBusy'
    BY <1>8, <1>11 DEF MInv, OneBusy, Busy, Punctual
  <1>14. SettlingInv'
    <2> SUFFICES ASSUME NEW t \in Flows, thread'[t].at = "settling", NEW f \in Punctual'
                 PROVE  ~OnItsWay(f)' /\ (turn' = f => held')
      BY DEF SettlingInv
    <2>1. f \in Flows /\ f \in Punctual
      BY <1>11 DEF Punctual
    <2>2. CASE thread[t].at = "settling"
      BY <1>8, <2>1, <2>2 DEF MInv, SettlingInv
    <2>3. CASE thread[t].at # "settling"
      <3>1. active # 0 /\ ~Running
        BY <2>3 DEF MovesOn
      <3> QED
        BY <1>8, <2>1, <3>1 DEF MInv, WayInv
    <2> QED
      BY <2>2, <2>3
  <1>15. ResumeQuiet'
    <2>1. \A t \in Flows : thread'[t].op = "resume" /\ thread'[t].at = "mentions"
                             => thread[t].op = "resume" /\ thread[t].at = "mentions"
      BY DEF MovesOn, Early
    <2> QED
      BY <1>2, <1>5, <2>1 DEF MInv, ResumeQuiet
  <1>16. OverInv'
    <2> SUFFICES ASSUME NEW f \in Punctual', NEW g \in Punctual', f # g, active' # 0,
                        send'[f].at \in Over, ~SendCancelled(f)', send'[f].of = active',
                        send'[g].at = "waiting" \/ turn' = g, hosted' # 0
                 PROVE  FALSE
      BY DEF OverInv
    <2>1. f \in Flows /\ g \in Flows /\ f \in Punctual /\ g \in Punctual /\ hosted # 0
      BY <1>11 DEF Punctual
    <2>2. send[g].at = "waiting" \/ turn = g
      BY <1>5, <2>1
    <2>3. CASE send[f].at \in Over
      <3>1. ~SendCancelled(f) /\ send[f].of = active
        BY <1>2, <1>3, <2>1, <2>3 DEF Over
      <3> QED
        BY <2>1, <2>2, <2>3, <3>1 DEF MInv, OverInv
    <2>4. CASE send[f].at \notin Over
      <3>1. turn = f
        BY <1>2, <2>1, <2>4
      <3> QED
        BY <2>1, <2>2, <3>1 DEF MInv, OneBusy, Busy, OnItsWay
    <2> QED
      BY <2>3, <2>4
  <1>17. WordsInv'
    <2> SUFFICES ASSUME NEW w \in Flows
                 PROVE  /\ Fresh(w)' => /\ w \notin handed /\ unsent # w
                                        /\ \A f \in Flows : f # w => thread'[f].carries # w
                        /\ w \in handed /\ ~Lost(w)' =>
                             /\ unsent # w
                             /\ \A f \in Flows : thread'[f].carries = w
                                                   => ~Mentions(f)' /\ ~Leaving(f)'
      BY DEF WordsInv
    <2>1. \A f \in Flows : thread'[f].carries = w => thread[f].carries = w \/ f = w
      BY Names DEF MovesOn
    <2>2. Lost(w) => Lost(w)'
      BY <1>9 DEF Lost, MInv, SendsInv, MessageTypes
    <2>3. Fresh(w)' => Fresh(w)
      BY <1>5 DEF Fresh, MovesOn, MInv, SendsInv, Early
    <2>4. thread[w].carries \in {w, Nobody} \/ thread[w].at \notin Early
      BY <1>1 DEF MInv, ThreadShapes, Shaped
    <2>5. CASE Fresh(w)
      BY <2>1, <2>2, <2>3, <2>5 DEF MInv, WordsInv
    <2>6. CASE ~Fresh(w)
      <3>1. thread[w].at \in {"mentions", "leaving", "done"}
        BY <1>1, <2>6 DEF Fresh, Early, ThreadRecord
      <3>2. \A f \in Flows : thread'[f].carries = w => thread[f].carries = w
        BY <1>9, <2>1, <3>1
      <3> QED
        BY <1>6, <1>7, <2>2, <2>3, <2>6, <3>2 DEF MInv, WordsInv
    <2> QED
      BY <2>5, <2>6
  <1>18. CancelsInv'
    <2> SUFFICES ASSUME NEW f \in Flows, send'[f].at = "outbound", thread'[f].op # "switch",
                        active' # 0, send'[f].of = active',
                        send'[f].version = session'[active'].version
                 PROVE  ~Cancelled(f)'
      BY DEF CancelsInv
    <2>1. thread[f].op # "switch" /\ thread'[f].cv = thread[f].cv /\ send[f].at = "outbound"
      BY <1>5, <1>9 DEF MInv, SendsInv
    <2>2. active \in Objects
      BY ControlAssumption DEF MInv, IInv, Typed, Objects
    <2>3. ~Cancelled(f)
      BY <1>2, <2>1, <2>2 DEF MInv, CancelsInv
    <2> QED
      BY <2>1, <2>3 DEF Cancelled
  <1> QED
    BY <1>10, <1>12, <1>13, <1>14, <1>15, <1>16, <1>17, <1>18 DEF MInv

\* What a step keeps of the threads that stay.
LEMMA ShapesKept ==
  ASSUME ThreadShapes, UNCHANGED <<active, cancelVersion>>,
         \A u \in Threads : \/ thread'[u] = thread[u] /\ (lock = u => lock' = u)
                            \/ Shaped(u, thread'[u], lock', active, cancelVersion)
  PROVE  ThreadShapes'
  <1> SUFFICES ASSUME NEW u \in Threads
               PROVE  Shaped(u, thread'[u], lock', active', cancelVersion')
    BY DEF ThreadShapes
  <1>1. CASE thread'[u] = thread[u] /\ (lock = u => lock' = u)
    BY <1>1 DEF ThreadShapes, Shaped
  <1>2. CASE Shaped(u, thread'[u], lock', active, cancelVersion)
    BY <1>2
  <1> QED
    BY <1>1, <1>2

\* A step that only moves threads on, and may have the session run.
LEMMA CalmMove ==
  ASSUME MInv, IInv', ThreadShapes',
         UNCHANGED <<active, made, cancels, sends, hosted, turn, held>>,
         \A o \in Objects : session'[o].version = session[o].version,
         Running => Running',
         \A t \in Flows : MovesOn(t) /\ (thread[t].at = "aborting" => thread'[t].at = "aborting")
  PROVE  MInv'
  <1>1. MessageTypes'
    BY DEF MInv, MessageTypes, sends, cancels
  <1>2. AbortPending'
    BY DEF MInv, AbortPending, cancels
  <1>3. UNCHANGED <<outbound, handed, unsent, cancelVersion, active, made, strays, send>>
    BY DEF sends, cancels
  <1>4. \A f \in Flows : GoesOver(f)
    BY <1>3 DEF GoesOver
  <1>5. \A f \in Flows \ strays' :
           /\ OnItsWay(f) => Running'
           /\ turn' = f /\ active # 0 /\ ~held' => Running'
    BY <1>3 DEF MInv, WayInv, Punctual
  <1>6. hosted' \in {hosted, 0} /\ (hosted' = 0 => turn' = Nobody)
    BY DEF MInv, SendsInv
  <1>7. \A t \in Flows : MovesOn(t)
    OBVIOUS
  <1> QED
    BY <1>1, <1>2, <1>3, <1>4, <1>5, <1>6, <1>7, CalmStep

\* The thread that moves to another stage and changes nothing else of itself.
LEMMA GoesRecord ==
  ASSUME IInv, NEW t \in Threads, NEW s \in Stages
  PROVE  /\ Goes(t, s)[t] = [thread[t] EXCEPT !.at = s]
         /\ \A u \in Threads : u # t => Goes(t, s)[u] = thread[u]
         /\ thread[t] \in ThreadRecord
  BY DEF IInv, Typed, Goes

LEMMA GoesShaped ==
  ASSUME MInv, NEW t \in Threads, NEW s \in Stages \ {"settling", "mentions"},
         thread[t].at \in Early \/ s \notin Early,
         s \in {"preparing", "stopping", "starting"} => thread[t].op # "follow"
  PROVE  \A lk : Shaped(t, Goes(t, s)[t], lk, active, cancelVersion)
  <1>1. Goes(t, s)[t] = [thread[t] EXCEPT !.at = s] /\ thread[t] \in ThreadRecord
    BY GoesRecord DEF MInv
  <1>2. Shaped(t, thread[t], lock, active, cancelVersion)
    BY DEF MInv, ThreadShapes
  <1> QED
    BY <1>1, <1>2 DEF Shaped, ThreadRecord

\* A step that moves one thread to another stage, and no message on its way with it.
LEMMA GoesCalm ==
  ASSUME MInv, IInv', NEW t \in Threads, NEW s \in Stages \ {"settling", "mentions"},
         thread' = Goes(t, s),
         thread[t].at \in Early \ {"aborting"} \/ s \in {"leaving", "done"},
         thread[t].at \notin {"aborting", "done"},
         s \in {"preparing", "stopping", "starting"} => thread[t].op # "follow",
         lock' = lock,
         UNCHANGED <<active, made, session, cancels, sends, hosted, turn, held>>
  PROVE  MInv'
  <1>1. /\ thread'[t] = [thread[t] EXCEPT !.at = s]
        /\ \A u \in Threads : u # t => thread'[u] = thread[u]
        /\ thread[t] \in ThreadRecord
    BY GoesRecord DEF MInv
  <1>2. ThreadShapes'
    <2>1. Shaped(t, thread'[t], lock', active, cancelVersion)
      BY GoesShaped DEF Early
    <2> QED
      BY <1>1, <2>1, ShapesKept DEF MInv, cancels
  <1>3. \A u \in Flows : MovesOn(u)
    <2> SUFFICES ASSUME NEW u \in Flows PROVE MovesOn(u)
      OBVIOUS
    <2>1. CASE u # t
      BY <1>1, <2>1, Names DEF MovesOn
    <2>2. CASE u = t
      <3>1. thread'[t].at = s /\ thread'[t].joins = thread[t].joins
            /\ thread'[t].op = thread[t].op /\ thread'[t].cv = thread[t].cv
            /\ thread'[t].carries = thread[t].carries
        BY <1>1 DEF ThreadRecord
      <3>2. CASE thread[t].at \in Early
        <4>1. thread[t].carries \in {t, Nobody}
          BY <3>2 DEF MInv, ThreadShapes, Shaped
        <4> QED
          BY <2>2, <3>1, <3>2, <4>1 DEF MovesOn, Early
      <3>3. CASE thread[t].at \notin Early
        BY <1>1, <2>2, <3>1, <3>3 DEF MovesOn, Early, ThreadRecord
      <3> QED
        BY <3>2, <3>3
    <2> QED
      BY <2>1, <2>2
  <1>4. \A u \in Flows : thread[u].at = "aborting" => thread'[u].at = "aborting"
    BY <1>1, Names
  <1> QED
    BY <1>2, <1>3, <1>4, CalmMove DEF Running

-----------------------------------------------------------------------------
\* Steps of threads that only go on, one by one.
LEMMA GoesOn ==
  ASSUME MInv, IInv', NEW t \in Threads,
         \/ LoadFails(t) \/ Refused(t) \/ Stopped(t) \/ StartFails(t)
         \/ t \in Flows /\ (Waited(t) \/ PrepareFails(t))
  PROVE  MInv'
  <1>1. Shaped(t, thread[t], lock, active, cancelVersion)
    BY DEF MInv, ThreadShapes
  <1>2. CASE LoadFails(t) \/ Refused(t) \/ StartFails(t) \/ PrepareFails(t)
    <2>1. thread' = Goes(t, "leaving") /\ thread[t].at \in {"loading", "starting", "preparing"}
      BY <1>2 DEF LoadFails, Refused, StartFails, PrepareFails
    <2>2. UNCHANGED <<lock, active, made, session, cancels, sends, hosted, turn, held>>
      BY <1>2 DEF LoadFails, Refused, StartFails, PrepareFails, objects, section, host
    <2> QED
      BY <2>1, <2>2, GoesCalm DEF Stages
  <1>3. CASE Stopped(t)
    <2>1. thread' = Goes(t, "starting") /\ thread[t].at = "stopping"
      BY <1>3 DEF Stopped
    <2>2. UNCHANGED <<lock, active, made, session, cancels, sends, hosted, turn, held>>
      BY <1>3 DEF Stopped, objects, section, host
    <2>3. thread[t].op # "follow"
      BY <1>1, <2>1 DEF Shaped
    <2> QED
      BY <2>1, <2>2, <2>3, GoesCalm DEF Stages, Early
  <1>4. CASE Waited(t)
    <2>1. (thread' = Goes(t, "done") \/ thread' = Goes(t, "lock")) /\ thread[t].at = "rebuilds"
      BY <1>4 DEF Waited
    <2>2. UNCHANGED <<lock, active, made, session, cancels, sends, hosted, turn, held>>
      BY <1>4 DEF Waited, objects, section, host
    <2> QED
      BY <2>1, <2>2, GoesCalm DEF Stages, Early
  <1> QED
    BY <1>2, <1>3, <1>4

\* A step in which one flow moves on, into the free section or not.
LEMMA CalmFlow ==
  ASSUME MInv, IInv', NEW t \in Flows,
         \A u \in Threads : u # t => thread'[u] = thread[u],
         lock' = lock \/ lock = Nobody,
         Shaped(t, thread'[t], lock', active, cancelVersion),
         MovesOn(t), thread[t].at # "aborting",
         UNCHANGED <<active, made, cancels, sends, hosted, turn, held>>,
         session' = session \/ session' = Flagged(TRUE)
  PROVE  MInv'
  <1>1. ThreadShapes'
    <2>1. \A u \in Threads : lock = u => lock' = u
      BY Names
    <2> QED
      BY <2>1, ShapesKept DEF MInv, cancels
  <1>2. \A u \in Flows : MovesOn(u) /\ (thread[u].at = "aborting" => thread'[u].at = "aborting")
    <2> SUFFICES ASSUME NEW u \in Flows
                 PROVE  MovesOn(u) /\ (thread[u].at = "aborting" => thread'[u].at = "aborting")
      OBVIOUS
    <2>1. CASE u # t
      BY <2>1, Names DEF MovesOn
    <2>2. CASE u = t
      BY <2>2
    <2> QED
      BY <2>1, <2>2
  <1>3. (\A o \in Objects : session'[o].version = session[o].version) /\ (Running => Running')
    <2>1. CASE session' = session
      BY <2>1 DEF Running
    <2>2. CASE session' = Flagged(TRUE)
      BY <2>2, FlaggedType DEF MInv, IInv, Running
    <2> QED
      BY <2>1, <2>2
  <1> QED
    BY <1>1, <1>2, <1>3, CalmMove

\* performRebuildSessionForMode up to its first await.
LEMMA RebuildShapes ==
  ASSUME MInv, NEW f \in Flows, NEW r \in ThreadRecord, r.op = "switch", Rebuild(f, r),
         Shaped(f, [r EXCEPT !.at = "lock"], lock, active, cancelVersion)
  PROVE  /\ \A u \in Threads : u # f => thread'[u] = thread[u]
         /\ Shaped(f, thread'[f], lock', active, cancelVersion)
         /\ thread'[f].at \in Early \cup {"leaving"} /\ thread'[f].at # "settling"
         /\ thread'[f].carries \in {f, Nobody}
  <1>1. f \in Threads /\ thread \in [Threads -> ThreadRecord] /\ Running \in BOOLEAN
    BY Names, FlaggedType DEF MInv, IInv, Typed, Running, SessionRecord
  <1>2. PICK n : /\ thread' = [thread EXCEPT ![f] = n]
                 /\ \/ n = [r EXCEPT !.at = "leaving"]
                    \/ n = [r EXCEPT !.prev = mode, !.of = active, !.at = "posting"]
                    \/ n = [r EXCEPT !.prev = mode, !.of = active, !.at = "loading"]
    BY <1>1 DEF Rebuild
  <1>3. thread'[f] = n /\ \A u \in Threads : u # f => thread'[u] = thread[u]
    BY <1>1, <1>2
  <1>4. /\ n.op = r.op /\ n.joins = r.joins /\ n.auto = r.auto /\ n.cv = r.cv
        /\ n.carries = r.carries /\ n.bare = r.bare /\ n.at \in {"leaving", "posting", "loading"}
    BY <1>2 DEF ThreadRecord
  <1>5. /\ r.carries \in {f, Nobody} /\ r.cv <= cancelVersion /\ ~r.joins /\ f # Reloader
    BY Names, ControlAssumption DEF Shaped, ThreadRecord, Early, Stages
  <1> QED
    BY <1>3, <1>4, <1>5 DEF Shaped, Early, Stages

LEMMA EnterSwitchMessages == ASSUME MInv, IInv', NEW f \in Flows, EnterSwitch(f) PROVE MInv'
  <1>1. thread[f].op = "switch" /\ thread[f].at = "lock" /\ lock = Nobody /\ Rebuild(f, thread[f])
    BY DEF EnterSwitch
  <1>2. thread[f] \in ThreadRecord /\ f \in Threads
    BY Names DEF MInv, IInv, Typed
  <1>3. [thread[f] EXCEPT !.at = "lock"] = thread[f]
    BY <1>1, <1>2 DEF ThreadRecord
  <1>4. Shaped(f, [thread[f] EXCEPT !.at = "lock"], lock, active, cancelVersion)
    BY <1>2, <1>3 DEF MInv, ThreadShapes
  <1>5. MovesOn(f)
    BY <1>1, <1>2, <1>4, RebuildShapes DEF MovesOn, Early, Stages
  <1>6. UNCHANGED <<active, made, session, cancels, sends, hosted, turn, held>>
    BY DEF EnterSwitch, objects, host
  <1> QED
    BY <1>1, <1>2, <1>4, <1>5, <1>6, RebuildShapes, CalmFlow

LEMMA SwitchMessages ==
  ASSUME MInv, IInv', NEW f \in Flows, NEW m \in Modes, NEW auto \in BOOLEAN, NEW bare \in BOOLEAN,
         Switch(f, m, auto, bare)
  PROVE  MInv'
  <1> DEFINE r == [NoThread EXCEPT !.op = "switch", !.at = "lock", !.mode = m, !.auto = auto,
                                   !.cv = cancelVersion, !.bare = bare,
                                   !.carries = IF auto /\ ~bare THEN f ELSE Nobody]
  <1>1. r \in ThreadRecord /\ r.op = "switch" /\ r.at = "lock" /\ [r EXCEPT !.at = "lock"] = r
    BY DEF MInv, IInv, Typed, NoThread, ThreadRecord, Operations, Stages, Modes
  <1>2. Shaped(f, r, lock', active, cancelVersion) /\ Shaped(f, r, lock, active, cancelVersion)
    <2>1. f # Reloader /\ cancelVersion \in Nat
      BY ControlAssumption DEF MInv, IInv, Typed
    <2> QED
      BY <2>1 DEF Shaped, NoThread
  <1>3. r.carries \in {f, Nobody}
    BY DEF NoThread
  <1>4. f \in Threads /\ thread[f].at = "new" /\ thread \in [Threads -> ThreadRecord]
    BY Names DEF Switch, MInv, IInv, Typed
  <1>5. UNCHANGED <<active, made, session, cancels, sends, hosted, turn, held>>
    BY DEF Switch, objects, host
  <1> HIDE DEF r
  <1>6. CASE active = 0
    <2>1. thread' = Goes(f, "done") /\ lock' = lock
      BY <1>6 DEF Switch
    <2> QED
      BY <1>4, <1>5, <2>1, GoesCalm DEF Stages, Early
  <1>7. CASE active # 0 /\ lock = Nobody
    <2>1. Rebuild(f, r)
      BY <1>7 DEF Switch, r
    <2>2. Shaped(f, [r EXCEPT !.at = "lock"], lock, active, cancelVersion)
      BY <1>1, <1>2
    <2>3. MovesOn(f)
      BY <1>1, <1>4, <2>1, <2>2, RebuildShapes DEF MovesOn, Early, Stages
    <2> QED
      BY <1>1, <1>4, <1>5, <1>7, <2>1, <2>2, <2>3, RebuildShapes, CalmFlow
  <1>8. CASE active # 0 /\ lock # Nobody
    <2>1. thread' = [thread EXCEPT ![f] = r] /\ lock' = lock
      BY <1>8 DEF Switch, r
    <2>2. thread'[f] = r /\ \A u \in Threads : u # f => thread'[u] = thread[u]
      BY <1>4, <2>1
    <2>3. MovesOn(f)
      BY <1>1, <1>3, <1>4, <2>2 DEF MovesOn, Early, Stages
    <2> QED
      BY <1>2, <1>4, <1>5, <2>1, <2>2, <2>3, CalmFlow
  <1> QED
    BY <1>6, <1>7, <1>8

LEMMA FollowMessages ==
  ASSUME MInv, IInv', NEW f \in Flows, NEW bare \in BOOLEAN, Follow(f, bare)
  PROVE  MInv'
  <1>1. f \in Threads /\ thread[f].at = "new" /\ thread \in [Threads -> ThreadRecord]
        /\ cancelVersion \in Nat /\ f # Reloader
    BY Names, ControlAssumption DEF Follow, MInv, IInv, Typed
  <1>2. PICK joins, early :
          thread' = [thread EXCEPT ![f] = [Message(f, bare) EXCEPT
                       !.at = IF joins THEN "mentions" ELSE "rebuilds",
                       !.joins = joins, !.early = early]]
    BY DEF Follow
  <1>3. \A u \in Threads : u # f => thread'[u] = thread[u]
    BY <1>1, <1>2
  <1>4. /\ thread'[f].op = "follow" /\ ~thread'[f].auto /\ thread'[f].cv = cancelVersion
        /\ thread'[f].carries \in {f, Nobody}
        /\ (thread'[f].at = "mentions" /\ thread'[f].joins) \/ thread'[f].at = "rebuilds"
    BY <1>1, <1>2 DEF Message, NoThread
  <1>5. Shaped(f, thread'[f], lock', active, cancelVersion)
    BY <1>1, <1>4 DEF Shaped, Early
  <1>6. MovesOn(f)
    BY <1>1, <1>4 DEF MovesOn, Early, Stages
  <1>7. /\ UNCHANGED <<active, made, cancels, sends, hosted, turn, held, lock>>
        /\ session' = session \/ session' = Flagged(TRUE)
    BY DEF Follow, host, section
  <1> QED
    BY <1>1, <1>3, <1>5, <1>6, <1>7, CalmFlow

LEMMA EnterFollowMessages == ASSUME MInv, IInv', NEW f \in Flows, EnterFollow(f) PROVE MInv'
  <1>1. f \in Threads /\ thread[f].at = "lock" /\ thread[f].op = "follow" /\ lock = Nobody
        /\ thread[f] \in ThreadRecord /\ thread \in [Threads -> ThreadRecord] /\ lock' = f
    BY Names DEF EnterFollow, MInv, IInv, Typed
  <1>2. PICK at, joins, op :
          /\ thread' = [thread EXCEPT ![f].at = at, ![f].of = active, ![f].joins = joins, ![f].op = op]
          /\ \/ at = "leaving" /\ op = "follow"
             \/ at = "mentions" /\ joins /\ op = "follow"
             \/ at = "settling" /\ ~joins /\ active # 0 /\ ~Running /\ op = "follow"
             \/ at = "preparing" /\ ~joins /\ op = "resume"
    <2> DEFINE j  == active # 0 /\ (Running \/ thread[f].early)
               at == CASE Cancelled(f) -> "leaving"
                       [] ~Cancelled(f) /\ j -> "mentions"
                       [] ~Cancelled(f) /\ ~j /\ active # 0 -> "settling"
                       [] OTHER -> "preparing"
               op == IF at = "preparing" THEN "resume" ELSE "follow"
    <2>1. thread' = [thread EXCEPT ![f].at = at, ![f].of = active, ![f].joins = j, ![f].op = op]
      BY DEF EnterFollow
    <2>2. \/ at = "leaving" /\ op = "follow"
          \/ at = "mentions" /\ j /\ op = "follow"
          \/ at = "settling" /\ ~j /\ active # 0 /\ ~Running /\ op = "follow"
          \/ at = "preparing" /\ ~j /\ op = "resume"
      OBVIOUS
    <2> QED
      BY <2>1, <2>2
  <1>3. /\ thread'[f].op = op /\ thread'[f].at = at /\ thread'[f].joins = joins
        /\ thread'[f].of = active /\ thread'[f].carries = thread[f].carries
        /\ thread'[f].cv = thread[f].cv /\ thread'[f].auto = thread[f].auto
        /\ \A u \in Threads : u # f => thread'[u] = thread[u]
    BY <1>1, <1>2 DEF ThreadRecord
  <1>4. /\ thread[f].carries \in {f, Nobody} /\ thread[f].cv <= cancelVersion /\ ~thread[f].auto
        /\ f # Reloader
    BY <1>1, ControlAssumption DEF MInv, ThreadShapes, Shaped, Early, Stages
  <1>5. Shaped(f, thread'[f], lock', active, cancelVersion)
    BY <1>1, <1>2, <1>3, <1>4 DEF Shaped
  <1>6. MovesOn(f)
    BY <1>1, <1>2, <1>3, <1>4 DEF MovesOn, Early, Stages
  <1>7. /\ UNCHANGED <<active, made, cancels, sends, hosted, turn, held>>
        /\ session' = session \/ session' = Flagged(TRUE)
    BY DEF EnterFollow, host
  <1> QED
    BY <1>1, <1>3, <1>5, <1>6, <1>7, CalmFlow

LEMMA PreparedMessages == ASSUME MInv, IInv', NEW f \in Flows, Prepared(f) PROVE MInv'
  <1>1. f \in Threads /\ thread[f].at = "preparing" /\ thread[f] \in ThreadRecord
        /\ thread \in [Threads -> ThreadRecord] /\ f # Reloader
    BY Names, ControlAssumption DEF Prepared, MInv, IInv, Typed
  <1>2. PICK at \in {"leaving", "stopping"} :
          thread' = [thread EXCEPT ![f].at = at, ![f].mode = mode]
    BY DEF Prepared
  <1>3. /\ thread'[f].at = at /\ thread'[f].joins = thread[f].joins
        /\ thread'[f].op = thread[f].op /\ thread'[f].cv = thread[f].cv
        /\ thread'[f].carries = thread[f].carries /\ thread'[f].auto = thread[f].auto
        /\ \A u \in Threads : u # f => thread'[u] = thread[u]
    BY <1>1, <1>2 DEF ThreadRecord
  <1>4. Shaped(f, thread[f], lock, active, cancelVersion)
    BY <1>1 DEF MInv, ThreadShapes
  <1>5. Shaped(f, thread'[f], lock', active, cancelVersion)
    BY <1>1, <1>2, <1>3, <1>4 DEF Shaped, Early, Stages
  <1>6. MovesOn(f)
    BY <1>1, <1>2, <1>3, <1>4 DEF MovesOn, Early, Stages, Shaped
  <1>7. UNCHANGED <<active, made, cancels, sends, hosted, turn, held, lock, session>>
    BY DEF Prepared, host, section, objects
  <1> QED
    BY <1>1, <1>3, <1>5, <1>6, <1>7, CalmFlow

-----------------------------------------------------------------------------
\* drain() begins a reload.
LEMMA ReloadShaped ==
  ASSUME MInv, NEW lk
  PROVE  Shaped(Reloader, Reload(active), lk, active, cancelVersion)
  <1>1. cancelVersion \in Nat
    BY DEF MInv, IInv, Typed
  <1> QED
    BY <1>1 DEF Shaped, Reload, NoThread

\* drainIfIdle, with the other threads as in th.
LEMMA DrainShapes ==
  ASSUME MInv, NEW th, th \in [Threads -> ThreadRecord], NEW due, due => lock = Nobody,
         \A u \in Threads : th[u] = thread[u] \/ Shaped(u, th[u], lock, active, cancelVersion),
         Drain(th, due), UNCHANGED <<active, cancelVersion>>
  PROVE  ThreadShapes' /\ \A u \in Flows : thread'[u] = th[u]
  <1>1. \A u \in Threads : Shaped(u, th[u], lock, active, cancelVersion)
    BY DEF MInv, ThreadShapes
  <1>2. CASE due
    <2>1. lock = Nobody /\ thread' = [th EXCEPT ![Reloader] = Reload(active)]
      BY <1>2 DEF Drain
    <2>2. thread'[Reloader] = Reload(active) /\ \A u \in Threads : u # Reloader => thread'[u] = th[u]
      BY <2>1, Names
    <2>3. \A u \in Threads : u # Reloader => Shaped(u, thread'[u], lock', active, cancelVersion)
      BY <1>1, <2>1, <2>2, Names DEF Shaped
    <2>4. Shaped(Reloader, thread'[Reloader], lock', active, cancelVersion)
      BY <2>2, ReloadShaped
    <2>5. \A u \in Flows : u # Reloader /\ u \in Threads
      BY Names, ControlAssumption
    <2> QED
      BY <2>2, <2>3, <2>4, <2>5 DEF ThreadShapes
  <1>3. CASE ~due
    <2>1. thread' = th /\ lock' = lock
      BY <1>3 DEF Drain
    <2> QED
      BY <1>1, <2>1 DEF ThreadShapes
  <1> QED
    BY <1>2, <1>3

\* A step that may set the session idle, with messages that are over.
LEMMA IdleStep ==
  ASSUME MInv, IInv', ThreadShapes', MessageTypes', AbortPending',
         NEW by \in {"other", "turn"},
         \/ session' = Flagged(FALSE) /\ Astray(by)
         \/ UNCHANGED <<session, strays>>,
         UNCHANGED <<outbound, handed, unsent, cancelVersion, active, made>>,
         \A t \in Flows : MovesOn(t),
         \A f \in Flows : GoesOver(f),
         (turn' = turn /\ held' = held /\ by = "other") \/ turn' \notin Flows,
         hosted' \in {hosted, 0}, hosted' = 0 => turn' = Nobody
  PROVE  MInv'
  <1>1. CASE session' = Flagged(FALSE) /\ Astray(by)
    <2>1. \A o \in Objects : session'[o].version = session[o].version
      BY <1>1, FlaggedType DEF MInv, IInv
    <2>2. strays \subseteq strays'
      BY <1>1 DEF Astray
    <2>3. \A f \in strays' : f \in strays \/ thread[f].at = "mentions" \/ send[f].at # "none"
      BY <1>1 DEF Astray
    <2>4. \A f \in Flows \ strays' :
             /\ OnItsWay(f) => Running'
             /\ turn' = f /\ active # 0 /\ ~held' => Running'
      <3> SUFFICES ASSUME NEW f \in Flows, f \notin strays',
                          OnItsWay(f) \/ (turn' = f /\ active # 0 /\ ~held')
                   PROVE  FALSE
        OBVIOUS
      <3>1. f \in Punctual
        BY <2>2 DEF Punctual
      <3>2. turn' = f => send[f].at = "turn" /\ turn = f /\ held' = held /\ by = "other"
        BY DEF MInv, SendsInv
      <3>3. Running
        BY <3>1, <3>2 DEF MInv, WayInv
      <3> QED
        BY <1>1, <3>2, <3>3 DEF Astray, OnItsWay, Mentions, Leaving
    <2>5. turn' = turn \/ turn' \notin Flows
      OBVIOUS
    <2>6. turn' \in Flows => (held => held')
      OBVIOUS
    <2> QED
      BY <2>1, <2>2, <2>3, <2>4, <2>5, <2>6, CalmStep
  <1>2. CASE UNCHANGED <<session, strays>>
    <2>1. \A f \in Flows \ strays' :
             /\ OnItsWay(f) => Running'
             /\ turn' = f /\ active # 0 /\ ~held' => Running'
      BY <1>2 DEF MInv, WayInv, Punctual, Running
    <2>2. \A o \in Objects : session'[o].version = session[o].version
      BY <1>2
    <2>3. strays \subseteq strays'
      BY <1>2
    <2>4. \A f \in strays' : f \in strays \/ thread[f].at = "mentions" \/ send[f].at # "none"
      BY <1>2
    <2>5. turn' = turn \/ turn' \notin Flows
      OBVIOUS
    <2>6. turn' \in Flows => (held => held')
      OBVIOUS
    <2> QED
      BY <2>1, <2>2, <2>3, <2>4, <2>5, <2>6, CalmStep
  <1> QED
    BY <1>1, <1>2

\* The strays are flows.
LEMMA AstrayType ==
  ASSUME MInv, NEW by, Astray(by) \/ strays' = strays
  PROVE  strays' \subseteq Flows
  BY DEF MInv, MessageTypes, Astray

LEMMA AbortedMessages == ASSUME MInv, IInv', NEW f \in Flows, Aborted(f) PROVE MInv'
  <1>1. f \in Threads /\ thread[f].at = "aborting" /\ ~Unwinding
    BY Names DEF Aborted
  <1>2. UNCHANGED <<outbound, handed, unsent, cancelVersion, cancelling, active, made, send, turn,
                    held, hosted>>
    BY DEF Aborted, cancels, host
  <1>3. SetIdle(Goes(f, "loading"), "other")
    BY DEF Aborted
  <1>4. /\ Goes(f, "loading") \in [Threads -> ThreadRecord]
        /\ Goes(f, "loading")[f] = [thread[f] EXCEPT !.at = "loading"]
        /\ \A u \in Threads : u # f => Goes(f, "loading")[u] = thread[u]
        /\ thread[f] \in ThreadRecord
    BY <1>1, GoesTo, GoesRecord DEF MInv, IInv, Stages
  <1>5. Shaped(f, Goes(f, "loading")[f], lock, active, cancelVersion)
    BY <1>1, GoesShaped DEF Stages, Early
  <1>6. ThreadShapes' /\ \A u \in Flows : thread'[u] = Goes(f, "loading")[u]
    <2>1. Drain(Goes(f, "loading"), Running /\ pending /\ lock = Nobody)
      BY <1>3 DEF SetIdle
    <2> QED
      BY <1>1, <1>2, <1>4, <1>5, <2>1, DrainShapes
  <1>7. \A u \in Flows : MovesOn(u)
    <2>1. thread[f].carries \in {f, Nobody}
      BY <1>1 DEF MInv, ThreadShapes, Shaped, Early, Stages
    <2>2. thread'[f].at = "loading" /\ thread'[f].carries = thread[f].carries
      BY <1>4, <1>6 DEF ThreadRecord
    <2>3. MovesOn(f)
      BY <1>1, <2>1, <2>2 DEF MovesOn, Early, Stages
    <2>4. \A u \in Flows : u # f => MovesOn(u)
      BY <1>4, <1>6, Names DEF MovesOn
    <2> QED
      BY <2>3, <2>4
  <1>8. MessageTypes'
    BY <1>2, <1>3, AstrayType DEF MInv, MessageTypes, SetIdle
  <1>9. AbortPending'
    BY <1>1, <1>2 DEF AbortPending, Unwinding
  <1>10. \A g \in Flows : GoesOver(g)
    BY <1>2 DEF GoesOver
  <1>11. session' = Flagged(FALSE) /\ Astray("other")
    BY <1>3 DEF SetIdle
  <1>12. hosted' \in {hosted, 0} /\ (hosted' = 0 => turn' = Nobody)
    BY <1>2 DEF MInv, SendsInv
  <1> QED
    BY <1>2, <1>6, <1>7, <1>8, <1>9, <1>10, <1>11, <1>12, IdleStep

\* Where a thread goes that is through.
LEMMA LeavesIs ==
  ASSUME MInv, NEW t \in Threads
  PROVE  \E s \in {"leaving", "done"} : Leaves(t) = Goes(t, s)
  BY DEF Leaves

LEMMA TextCancelledMessages == ASSUME MInv, IInv', NEW f \in Flows, TextCancelled(f) PROVE MInv'
  <1>1. f \in Threads /\ thread[f].at = "mentions"
    BY Names DEF TextCancelled
  <1>2. UNCHANGED <<outbound, handed, unsent, cancels, active, made, send, turn, held, hosted>>
    BY DEF TextCancelled, host
  <1>3. PICK s \in {"leaving", "done"} : Leaves(f) = Goes(f, s)
    BY <1>1, LeavesIs
  <1>4. CASE thread[f].op # "resume"
    <2>1. thread' = Goes(f, s) /\ UNCHANGED <<session, section, strays>>
      BY <1>3, <1>4 DEF TextCancelled
    <2>2. s \in Stages \ {"settling", "mentions"}
      BY DEF Stages
    <2>3. UNCHANGED <<active, made, session, cancels, sends, hosted, turn, held>> /\ lock' = lock
      BY <1>2, <2>1 DEF sends, section
    <2> QED
      BY <1>1, <2>1, <2>2, <2>3, GoesCalm
  <1>5. CASE thread[f].op = "resume"
    <2>1. SetIdle(Goes(f, s), "other")
      BY <1>3, <1>5 DEF TextCancelled
    <2>2. /\ Goes(f, s) \in [Threads -> ThreadRecord]
          /\ Goes(f, s)[f] = [thread[f] EXCEPT !.at = s]
          /\ \A u \in Threads : u # f => Goes(f, s)[u] = thread[u]
          /\ thread[f] \in ThreadRecord
      <3>1. s \in Stages
        BY DEF Stages
      <3> QED
        BY <1>1, <3>1, GoesTo, GoesRecord DEF MInv, IInv
    <2>3. Shaped(f, Goes(f, s)[f], lock, active, cancelVersion)
      BY <1>1, GoesShaped DEF Stages, Early
    <2>4. ThreadShapes' /\ \A u \in Flows : thread'[u] = Goes(f, s)[u]
      <3>1. Drain(Goes(f, s), Running /\ pending /\ lock = Nobody)
        BY <2>1 DEF SetIdle
      <3> QED
        BY <1>1, <1>2, <2>2, <2>3, <3>1, DrainShapes DEF cancels
    <2>5. \A u \in Flows : MovesOn(u)
      <3>1. /\ thread'[f].at = s /\ thread'[f].joins = thread[f].joins
            /\ thread'[f].op = thread[f].op /\ thread'[f].cv = thread[f].cv
            /\ thread'[f].carries = thread[f].carries
        BY <2>2, <2>4 DEF ThreadRecord
      <3>2. MovesOn(f)
        BY <1>1, <3>1 DEF MovesOn
      <3>3. \A u \in Flows : u # f => MovesOn(u)
        BY <2>2, <2>4, Names DEF MovesOn
      <3> QED
        BY <3>2, <3>3
    <2>6. MessageTypes'
      BY <1>2, <2>1, AstrayType DEF MInv, MessageTypes, SetIdle, cancels
    <2>7. AbortPending'
      <3>1. \A u \in Flows : thread[u].at = "aborting" => thread'[u].at = "aborting"
        BY <1>1, <2>2, <2>4, Names
      <3> QED
        BY <1>2, <3>1 DEF MInv, AbortPending, cancels
    <2>8. \A g \in Flows : GoesOver(g)
      BY <1>2 DEF GoesOver
    <2>9. session' = Flagged(FALSE) /\ Astray("other")
      BY <2>1 DEF SetIdle
    <2>10. hosted' \in {hosted, 0} /\ (hosted' = 0 => turn' = Nobody)
      BY <1>2 DEF MInv, SendsInv
    <2>11. UNCHANGED <<outbound, handed, unsent, cancelVersion, active, made>>
      BY <1>2 DEF cancels
    <2> QED
      BY <1>2, <2>4, <2>5, <2>6, <2>7, <2>8, <2>9, <2>10, <2>11, IdleStep
  <1> QED
    BY <1>4, <1>5

\* A step in which no thread moves, but for a reload that begins.
LEMMA StillStep ==
  ASSUME MInv, IInv', MessageTypes', AbortPending', NEW by \in {"other", "turn"},
         \/ SetIdle(thread, by)
         \/ UNCHANGED <<session, thread, lock, strays>>,
         UNCHANGED <<outbound, handed, unsent, cancelVersion, active, made>>,
         \A f \in Flows : GoesOver(f),
         (turn' = turn /\ held' = held /\ by = "other") \/ turn' \notin Flows,
         hosted' \in {hosted, 0}, hosted' = 0 => turn' = Nobody
  PROVE  MInv'
  <1>1. ThreadShapes' /\ \A u \in Flows : thread'[u] = thread[u]
    <2>1. CASE SetIdle(thread, by)
      <3>1. Drain(thread, Running /\ pending /\ lock = Nobody)
        BY <2>1 DEF SetIdle
      <3>2. thread \in [Threads -> ThreadRecord]
        BY DEF MInv, IInv, Typed
      <3> QED
        BY <3>1, <3>2, DrainShapes
    <2>2. CASE UNCHANGED <<session, thread, lock, strays>>
      BY <2>2, ShapesKept DEF MInv
    <2> QED
      BY <2>1, <2>2
  <1>2. \A u \in Flows : MovesOn(u)
    BY <1>1 DEF MovesOn
  <1>3. \/ session' = Flagged(FALSE) /\ Astray(by)
        \/ UNCHANGED <<session, strays>>
    BY DEF SetIdle
  <1> QED
    BY <1>1, <1>2, <1>3, IdleStep

LEMMA TurnOverMessages ==
  ASSUME MInv, IInv', NEW outcome \in Over, TurnOver(outcome), hosted' \in {hosted, 0},
         held' \in BOOLEAN
  PROVE  MInv'
  <1>1. /\ turn' = Nobody
        /\ send' = IF turn \in Flows THEN [send EXCEPT ![turn].at = outcome] ELSE send
        /\ UNCHANGED <<outbound, handed, unsent, cancelVersion, cancelling, active, made>>
    BY DEF TurnOver, cancels
  <1>2. \/ SetIdle(thread, "turn")
        \/ UNCHANGED <<session, thread, lock, strays>>
    BY DEF TurnOver, section
  <1>3. turn' \notin Flows
    BY <1>1, Names DEF Threads
  <1>4. MessageTypes'
    <2>1. strays' \subseteq Flows
      BY <1>2, AstrayType DEF SetIdle
    <2>2. send' \in [Flows -> SendRecord]
      BY <1>1 DEF MInv, MessageTypes, SendRecord, SendStages, Over
    <2> QED
      BY <1>1, <2>1, <2>2 DEF MInv, MessageTypes
  <1>5. \A f \in Flows : GoesOver(f)
    <2> SUFFICES ASSUME NEW f \in Flows PROVE GoesOver(f)
      OBVIOUS
    <2>1. send \in [Flows -> SendRecord]
      BY DEF MInv, MessageTypes
    <2>2. CASE turn = f
      <3>1. send'[f] = [send[f] EXCEPT !.at = outcome]
        BY <1>1, <2>1, <2>2
      <3> QED
        BY <1>3, <2>2, <3>1 DEF GoesOver
    <2>3. CASE turn # f
      BY <1>1, <2>1, <2>3 DEF GoesOver
    <2> QED
      BY <2>2, <2>3
  <1>6. AbortPending'
    BY <1>1 DEF AbortPending
  <1> QED
    BY <1>1, <1>2, <1>3, <1>4, <1>5, <1>6, StillStep

LEMMA SendSettlesMessages == ASSUME MInv, IInv', NEW f \in Flows, SendSettles(f) PROVE MInv'
  <1>1. /\ send[f].at \in Over /\ send' = [send EXCEPT ![f].at = "settled"]
        /\ UNCHANGED <<outbound, handed, unsent, cancelVersion, cancelling, active, made,
                       hosted, turn, held>>
    BY DEF SendSettles, cancels, host
  <1>2. \/ SetIdle(thread, "other")
        \/ UNCHANGED <<session, thread, lock, strays>>
    BY DEF SendSettles, section
  <1>3. MessageTypes'
    <2>1. strays' \subseteq Flows
      BY <1>2, AstrayType DEF SetIdle
    <2>2. send' \in [Flows -> SendRecord]
      BY <1>1 DEF MInv, MessageTypes, SendRecord, SendStages
    <2> QED
      BY <1>1, <2>1, <2>2 DEF MInv, MessageTypes
  <1>4. turn # f
    BY <1>1 DEF MInv, SendsInv, Over
  <1>5. \A g \in Flows : GoesOver(g)
    <2> SUFFICES ASSUME NEW g \in Flows PROVE GoesOver(g)
      OBVIOUS
    <2>1. send \in [Flows -> SendRecord]
      BY DEF MInv, MessageTypes
    <2>2. CASE g = f
      <3>1. send'[f] = [send[f] EXCEPT !.at = "settled"]
        BY <1>1, <2>1
      <3> QED
        BY <1>1, <1>4, <2>2, <3>1 DEF GoesOver
    <2>3. CASE g # f
      BY <1>1, <2>1, <2>3 DEF GoesOver
    <2> QED
      BY <2>2, <2>3
  <1>6. AbortPending'
    <2>1. \A u \in Flows : thread'[u] = thread[u]
      <3>1. CASE SetIdle(thread, "other")
        <4>1. Drain(thread, Running /\ pending /\ lock = Nobody)
          BY <3>1 DEF SetIdle
        <4>2. thread \in [Threads -> ThreadRecord]
          BY DEF MInv, IInv, Typed
        <4> QED
          BY <1>1, <4>1, <4>2, DrainShapes
      <3>2. CASE UNCHANGED thread
        BY <3>2
      <3> QED
        BY <1>2, <3>1, <3>2
    <2> QED
      BY <1>1, <2>1 DEF MInv, AbortPending
  <1>7. hosted' \in {hosted, 0} /\ (hosted' = 0 => turn' = Nobody)
    BY <1>1 DEF MInv, SendsInv
  <1> QED
    BY <1>1, <1>2, <1>3, <1>5, <1>6, <1>7, StillStep

LEMMA StopDoneMessages == ASSUME MInv, IInv', NEW o \in Objects, StopDone(o) PROVE MInv'
  <1>1. PICK outcome \in {"ended", "aborted"} :
          send' = IF turn \in Flows THEN [send EXCEPT ![turn].at = outcome] ELSE send
    BY DEF StopDone
  <1>2. /\ turn' = Nobody /\ hosted' = 0 /\ held' = FALSE
        /\ UNCHANGED <<outbound, handed, unsent, cancelVersion, cancelling, active, made,
                       session, thread, lock, strays>>
    BY DEF StopDone, objects, cancels, section
  <1>3. turn' \notin Flows
    BY <1>2, Names DEF Threads
  <1>4. MessageTypes'
    <2>1. send' \in [Flows -> SendRecord]
      BY <1>1 DEF MInv, MessageTypes, SendRecord, SendStages
    <2> QED
      BY <1>2, <2>1 DEF MInv, MessageTypes
  <1>5. \A f \in Flows : GoesOver(f)
    <2> SUFFICES ASSUME NEW f \in Flows PROVE GoesOver(f)
      OBVIOUS
    <2>1. send \in [Flows -> SendRecord]
      BY DEF MInv, MessageTypes
    <2>2. CASE turn = f
      <3>1. send'[f] = [send[f] EXCEPT !.at = outcome]
        BY <1>1, <2>1, <2>2
      <3> QED
        BY <1>3, <2>2, <3>1 DEF GoesOver, Over
    <2>3. CASE turn # f
      BY <1>1, <2>1, <2>3 DEF GoesOver
    <2> QED
      BY <2>2, <2>3
  <1>6. AbortPending'
    BY <1>2 DEF AbortPending
  <1>7. \/ SetIdle(thread, "turn")
        \/ UNCHANGED <<session, thread, lock, strays>>
    BY <1>2
  <1> QED
    BY <1>2, <1>3, <1>4, <1>5, <1>6, <1>7, StillStep

\* The host, a cancel that is over, and nothing at all.
LEMMA HostMessages ==
  ASSUME MInv, IInv', DrainQueue \/ CancelDone \/ UNCHANGED vars
  PROVE  MInv'
  <1>1. UNCHANGED <<outbound, handed, unsent, cancelVersion, active, made, send, strays, thread,
                    lock, hosted, held>>
    BY DEF DrainQueue, CancelDone, vars, objects, cancels, sends, section, host
  <1>2. /\ turn' = turn \/ (hosted # 0 /\ turn' = Drained)
        /\ cancelling' \in BOOLEAN
        /\ session' = session \/ session' = Flagged(TRUE)
    BY DEF DrainQueue, CancelDone, vars, objects, cancels, host, MInv, MessageTypes
  <1>3. MessageTypes'
    BY <1>1, <1>2 DEF MInv, MessageTypes
  <1>4. AbortPending'
    <2>1. CASE DrainQueue
      BY <1>1, <2>1 DEF DrainQueue, AbortPending
    <2>2. CASE CancelDone
      BY <1>1, <2>2 DEF CancelDone, AbortPending, Unwinding, host
    <2>3. CASE UNCHANGED vars
      BY <2>3 DEF MInv, AbortPending, vars, cancels, host, objects
    <2> QED
      BY <2>1, <2>2, <2>3
  <1>5. ThreadShapes'
    BY <1>1, ShapesKept DEF MInv
  <1>6. (\A o \in Objects : session'[o].version = session[o].version) /\ (Running => Running')
    <2>1. CASE session' = session
      BY <1>1, <2>1 DEF Running
    <2>2. CASE session' = Flagged(TRUE)
      BY <1>1, <2>2, FlaggedType DEF MInv, IInv, Running
    <2> QED
      BY <1>2, <2>1, <2>2
  <1>7. turn' = turn \/ turn' \notin Flows
    BY <1>2, ControlAssumption
  <1>8. \A f \in Flows \ strays' :
           /\ OnItsWay(f) => Running'
           /\ turn' = f /\ active # 0 /\ ~held' => Running'
    BY <1>1, <1>6, <1>7 DEF MInv, WayInv, Punctual
  <1>9. (\A t \in Flows : MovesOn(t)) /\ (\A f \in Flows : GoesOver(f))
    BY <1>1 DEF MovesOn, GoesOver
  <1>10. strays \subseteq strays' /\ (turn' \in Flows => (held => held'))
    BY <1>1
  <1>11. \A f \in strays' : f \in strays \/ thread[f].at = "mentions" \/ send[f].at # "none"
    BY <1>1
  <1>12. hosted' \in {hosted, 0} /\ (hosted' = 0 => turn' = Nobody)
    BY <1>1, <1>2 DEF MInv, SendsInv
  <1> QED
    BY <1>1, <1>3, <1>4, <1>5, <1>6, <1>7, <1>8, <1>9, <1>10, <1>11, <1>12, CalmStep

LEMMA AbortForSwitchMessages == ASSUME MInv, IInv', NEW f \in Flows, AbortForSwitch(f) PROVE MInv'
  <1>1. f \in Threads /\ thread[f].at = "posting" /\ f # Reloader
    BY Names, ControlAssumption DEF AbortForSwitch
  <1>2. UNCHANGED <<outbound, handed, unsent, cancelVersion, cancelling, active, made, send, strays,
                    session, lock, hosted, turn>>
    BY DEF AbortForSwitch, objects, cancels, sends, section
  <1>3. /\ thread' = Goes(f, "aborting") /\ held' = (held \/ hosted # 0)
    BY DEF AbortForSwitch
  <1>4. /\ thread'[f] = [thread[f] EXCEPT !.at = "aborting"]
        /\ \A u \in Threads : u # f => thread'[u] = thread[u]
        /\ thread[f] \in ThreadRecord
    BY <1>1, <1>3, GoesRecord DEF MInv, Stages
  <1>5. ThreadShapes'
    <2>1. Shaped(f, thread'[f], lock', active, cancelVersion)
      BY <1>1, <1>3, GoesShaped DEF Stages, Early
    <2> QED
      BY <1>2, <1>4, <2>1, ShapesKept DEF MInv
  <1>6. \A u \in Flows : MovesOn(u)
    <2>1. thread[f].carries \in {f, Nobody}
      BY <1>1 DEF MInv, ThreadShapes, Shaped, Early, Stages
    <2>2. thread'[f].at = "aborting" /\ thread'[f].carries = thread[f].carries
      BY <1>4 DEF ThreadRecord
    <2>3. MovesOn(f)
      BY <1>1, <2>1, <2>2 DEF MovesOn, Early, Stages
    <2>4. \A u \in Flows : u # f => MovesOn(u)
      BY <1>4, Names DEF MovesOn
    <2> QED
      BY <2>3, <2>4
  <1>7. AbortPending'
    BY <1>4 DEF AbortPending, ThreadRecord
  <1>8. MessageTypes'
    BY <1>2, <1>3 DEF MInv, MessageTypes
  <1>9. \A g \in Flows : GoesOver(g)
    BY <1>2 DEF GoesOver
  <1>10. \A g \in Flows \ strays' :
           /\ OnItsWay(g) => Running'
           /\ turn' = g /\ active # 0 /\ ~held' => Running'
    <2>1. Running' <=> Running
      BY <1>2 DEF Running
    <2> QED
      BY <1>2, <1>3, <2>1 DEF MInv, WayInv, Punctual
  <1>11. turn' = turn \/ turn' \notin Flows
    BY <1>2
  <1>12. turn' \in Flows => (held => held')
    BY <1>3
  <1>13. strays \subseteq strays' /\ (\A o \in Objects : session'[o].version = session[o].version)
    BY <1>2
  <1>14. \A g \in strays' : g \in strays \/ thread[g].at = "mentions" \/ send[g].at # "none"
    BY <1>2
  <1>15. hosted' \in {hosted, 0} /\ (hosted' = 0 => turn' = Nobody)
    BY <1>2 DEF MInv, SendsInv
  <1> QED
    BY <1>2, <1>5, <1>6, <1>7, <1>8, <1>9, <1>10, <1>11, <1>12, <1>13, <1>14, <1>15, CalmStep

-----------------------------------------------------------------------------
\* A thread leaves the section, and a reload may begin.
LEMMA LeaveMessages == ASSUME MInv, IInv', NEW t \in Threads, Leave(t) PROVE MInv'
  <1>1. /\ thread[t].at = "leaving" /\ thread \in [Threads -> ThreadRecord] /\ lock = t
        /\ UNCHANGED <<active, made, session, cancels, sends, hosted, turn, held>>
    BY Holder DEF MInv, IInv, Typed, Leave, Holds, Within, objects, host
  <1>2. PICK th : /\ th = IF t = Reloader THEN [thread EXCEPT ![t] = NoThread] ELSE Goes(t, "done")
                  /\ thread' = th \/ thread' = [th EXCEPT ![Reloader] = Reload(active)]
    BY DEF Leave
  <1>3. CASE t = Reloader
    <2>1. /\ \A u \in Threads : u # Reloader => thread'[u] = thread[u]
          /\ thread'[Reloader] = NoThread \/ thread'[Reloader] = Reload(active)
      BY <1>1, <1>2, <1>3
    <2>2. Shaped(Reloader, thread'[Reloader], lock', active, cancelVersion)
      <3>1. cancelVersion \in Nat
        BY DEF MInv, IInv, Typed
      <3>2. Shaped(Reloader, NoThread, lock', active, cancelVersion)
        BY <3>1 DEF Shaped, NoThread
      <3> QED
        BY <2>1, <3>2, ReloadShaped
    <2>3. ThreadShapes'
      BY <1>1, <1>3, <2>1, <2>2, ShapesKept DEF MInv, cancels
    <2>4. \A u \in Flows : MovesOn(u) /\ (thread[u].at = "aborting" => thread'[u].at = "aborting")
      <3>1. \A u \in Flows : u \in Threads /\ u # Reloader
        BY Names, ControlAssumption
      <3> QED
        BY <2>1, <3>1 DEF MovesOn
    <2> QED
      BY <1>1, <2>3, <2>4, CalmMove DEF Running
  <1>4. CASE t # Reloader
    <2>1. /\ th[t] = [thread[t] EXCEPT !.at = "done"]
          /\ \A u \in Threads : u # t => th[u] = thread[u]
          /\ thread[t] \in ThreadRecord
          /\ th \in [Threads -> ThreadRecord]
      <3>1. "done" \in Stages /\ Typed /\ th = Goes(t, "done")
        BY <1>2, <1>4 DEF MInv, IInv, Stages
      <3>2. th \in [Threads -> ThreadRecord]
        BY <3>1, GoesTo
      <3> QED
        BY <3>1, <3>2, GoesRecord DEF MInv
    <2>2. /\ thread'[t] = [thread[t] EXCEPT !.at = "done"]
          /\ \A u \in Threads : u \notin {t, Reloader} => thread'[u] = thread[u]
          /\ thread'[Reloader] = thread[Reloader] \/ thread'[Reloader] = Reload(active)
      BY <1>2, <1>4, <2>1, Names
    <2>3. Shaped(t, thread'[t], lock', active, cancelVersion)
      BY <1>2, <1>4, <2>1, <2>2, GoesShaped DEF Stages, Early
    <2>4. thread'[Reloader] = thread[Reloader]
            \/ Shaped(Reloader, thread'[Reloader], lock', active, cancelVersion)
      BY <2>2, ReloadShaped
    <2>5. ThreadShapes'
      BY <1>1, <1>4, <2>2, <2>3, <2>4, ShapesKept DEF MInv, cancels
    <2>6. \A u \in Flows : MovesOn(u) /\ (thread[u].at = "aborting" => thread'[u].at = "aborting")
      <3>1. \A u \in Flows : u \in Threads /\ u # Reloader
        BY Names, ControlAssumption
      <3>2. MovesOn(t) /\ thread[t].at # "aborting"
        BY <1>1, <2>1, <2>2 DEF MovesOn, ThreadRecord
      <3> QED
        BY <2>2, <3>1, <3>2 DEF MovesOn
    <2> QED
      BY <1>1, <2>5, <2>6, CalmMove DEF Running
  <1> QED
    BY <1>3, <1>4

LEMMA NewToolsMessages == ASSUME MInv, IInv', NewTools PROVE MInv'
  <1>1. /\ thread \in [Threads -> ThreadRecord]
        /\ UNCHANGED <<active, made, session, cancels, sends, hosted, turn, held>>
    BY DEF MInv, IInv, Typed, NewTools, objects, host
  <1>2. \/ thread' = [thread EXCEPT ![Reloader] = Reload(active)] /\ lock = Nobody
        \/ thread' = thread /\ lock' = lock
    BY DEF NewTools
  <1>3. \A u \in Flows : u \in Threads /\ u # Reloader
    BY Names, ControlAssumption
  <1>4. \A u \in Threads : u # Reloader => thread'[u] = thread[u]
    BY <1>1, <1>2
  <1>5. ThreadShapes'
    <2>1. CASE thread' = thread /\ lock' = lock
      BY <1>1, <2>1, ShapesKept DEF MInv, cancels
    <2>2. CASE thread' = [thread EXCEPT ![Reloader] = Reload(active)] /\ lock = Nobody
      <3>1. thread'[Reloader] = Reload(active)
        BY <1>1, <2>2, Names
      <3>2. Shaped(Reloader, thread'[Reloader], lock', active, cancelVersion)
        BY <3>1, ReloadShaped
      <3> QED
        BY <1>1, <1>4, <2>2, <3>2, ShapesKept, Names DEF MInv, cancels
    <2> QED
      BY <1>2, <2>1, <2>2
  <1>6. \A u \in Flows : MovesOn(u) /\ (thread[u].at = "aborting" => thread'[u].at = "aborting")
    BY <1>3, <1>4 DEF MovesOn
  <1> QED
    BY <1>1, <1>5, <1>6, CalmMove DEF Running

-----------------------------------------------------------------------------
(***************************************************************************)
(* Steps that put a message on its way, or take one off it.                *)
(***************************************************************************)
\* The session object a send is for.
LEMMA SentFor ==
  ASSUME MInv, NEW g \in Flows, send[g].at # "none"
  PROVE  /\ send[g].of \in Nat /\ send[g].of <= made
         /\ send[g].of # 0 => send[g].of \in Objects /\ send[g].version <= session[send[g].of].version
  <1>1. send[g].of \in Nat /\ send[g].of <= made /\ made \in 0 .. MaxSessions
    BY DEF MInv, MessageTypes, SendRecord, SendsInv, IInv, Typed
  <1> QED
    BY <1>1, ControlAssumption DEF Objects, MInv, SendsInv

\* A flow whose thread and send stay as they are, unless the user cancels.
LEMMA Elsewhere ==
  ASSUME MInv, NEW g \in Flows, thread'[g] = thread[g], send'[g] = send[g],
         cancelVersion' = cancelVersion,
         \A o \in Objects : o <= made => session'[o].version = session[o].version
  PROVE  /\ Mentions(g)' <=> Mentions(g)
         /\ Leaving(g)' <=> Leaving(g)
         /\ OnItsWay(g)' <=> OnItsWay(g)
         /\ Fresh(g)' <=> Fresh(g)
         /\ send[g].at # "none" => (SendCancelled(g)' <=> SendCancelled(g))
  <1>1. Mentions(g)' <=> Mentions(g)
    BY DEF Mentions, Cancelled
  <1>2. send[g].at # "none" => (SendCancelled(g)' <=> SendCancelled(g))
    BY SentFor DEF SendCancelled
  <1>3. Leaving(g)' <=> Leaving(g)
    BY <1>2 DEF Leaving
  <1>4. OnItsWay(g)' <=> OnItsWay(g)
    BY <1>1, <1>3 DEF OnItsWay
  <1> QED
    BY <1>1, <1>2, <1>3, <1>4 DEF Fresh

\* An idle session goes on with the message of f, alone.
LEMMA SettledMessages == ASSUME MInv, IInv', NEW f \in Flows, Settled(f) PROVE MInv'
  <1>1. /\ f \in Threads /\ thread[f].at = "settling" /\ ~cancelling /\ f # Reloader
        /\ thread \in [Threads -> ThreadRecord] /\ thread[f] \in ThreadRecord
        /\ UNCHANGED <<active, made, cancels, sends, hosted, turn, held, lock>>
    BY Names, ControlAssumption DEF Settled, MInv, IInv, Typed, host, section
  <1>2. lock = f /\ thread[f].op = "follow"
    BY <1>1, Holder DEF MInv, Holds, Within, Counts
  <1>3. Shaped(f, thread[f], lock, active, cancelVersion)
    BY <1>1 DEF MInv, ThreadShapes
  <1>4. CASE Cancelled(f) \/ active # thread[f].of
    <2>1. thread' = Goes(f, "leaving") /\ session' = session
      BY <1>4 DEF Settled
    <2> QED
      BY <1>1, <2>1, GoesCalm DEF Stages, Early
  <1>5. CASE ~Cancelled(f) /\ active = thread[f].of
    <2>1. session' = Flagged(TRUE) /\ active # 0
      BY <1>3, <1>5 DEF Settled, Shaped
    <2>2. /\ Running' /\ \A o \in Objects : session'[o].version = session[o].version
      BY <1>1, <2>1, FlaggedType DEF MInv, IInv, Running
    <2>3. PICK w0 \in {unsent, f} :
            thread' = [thread EXCEPT ![f].at = "mentions", ![f].carries = w0]
      BY <1>5 DEF Settled
    <2>4. /\ thread'[f].at = "mentions" /\ thread'[f].carries = w0
          /\ thread'[f].joins = thread[f].joins /\ thread'[f].op = thread[f].op
          /\ thread'[f].cv = thread[f].cv /\ thread'[f].auto = thread[f].auto
          /\ \A u \in Threads : u # f => thread'[u] = thread[u]
      BY <1>1, <2>3 DEF ThreadRecord
    <2>5. ~thread'[f].joins /\ Flows \subseteq Threads /\ send[f].at = "none" /\ f \notin strays
      BY <1>1, <1>3, <2>4, Names DEF Shaped, MInv, SendsInv
    <2>6. UNCHANGED <<send, strays, unsent, handed, outbound, cancelVersion, cancelling>>
      BY <1>1 DEF sends, cancels
    <2>7. MessageTypes'
      BY <1>1, <2>6 DEF MInv, MessageTypes
    <2>8. ThreadShapes'
      <3>1. Shaped(f, thread'[f], lock', active, cancelVersion)
        BY <1>1, <1>2, <1>3, <2>1, <2>4, <2>5 DEF Shaped, Early
      <3> QED
        BY <1>1, <2>4, <2>6, <3>1, ShapesKept DEF MInv
    <2>9. SendsInv'
      <3>1. \A g \in Flows : send[g].at # "none" => g # f
        BY <2>5
      <3>2. \A g \in Flows : send[g].of # 0 /\ send[g].at # "none" =>
              send[g].version <= session'[send[g].of].version
        BY <2>2, SentFor
      <3>3. \A g \in Flows : send[g].at # "none" => thread'[g] = thread[g]
        BY <2>4, <2>5, <3>1
      <3>4. \A g \in strays : thread'[g].at \in {"mentions", "leaving", "done"}
        BY <2>4, <2>5 DEF MInv, SendsInv, MessageTypes
      <3> QED
        BY <1>1, <2>6, <3>2, <3>3, <3>4 DEF MInv, SendsInv
    <2>10. \A g \in Flows \ {f} :
             /\ OnItsWay(g)' <=> OnItsWay(g)
             /\ Mentions(g)' <=> Mentions(g)
             /\ Leaving(g)' <=> Leaving(g)
             /\ Fresh(g)' <=> Fresh(g)
             /\ send[g].at # "none" => (SendCancelled(g)' <=> SendCancelled(g))
      BY <2>2, <2>4, <2>5, <2>6, Elsewhere
    <2>11. \A g \in Flows \ strays : g # f => ~Busy(g)
      <3> SUFFICES ASSUME NEW g \in Flows \ strays, g # f, Busy(g) PROVE FALSE
        OBVIOUS
      <3>1. turn = g /\ held
        BY <1>1 DEF MInv, SettlingInv, Busy, Punctual
      <3>2. PICK t \in Flows : thread[t].at = "aborting"
        BY <1>1, <2>1, <3>1, Names DEF MInv, AbortPending
      <3>3. lock = t
        BY <3>2, Holder, Names DEF MInv, Holds, Within
      <3> QED
        BY <1>1, <1>2, <3>2, <3>3
    <2>12. WayInv'
      BY <1>1, <2>2, <2>5, <2>6, <2>10 DEF MInv, WayInv, Punctual
    <2>13. OneBusy'
      BY <1>1, <2>6, <2>10, <2>11 DEF OneBusy, Busy, Punctual
    <2>14. SettlingInv'
      <3> SUFFICES ASSUME NEW t \in Flows, thread'[t].at = "settling" PROVE FALSE
        BY DEF SettlingInv
      <3>1. t # f /\ thread[t].at = "settling"
        BY <2>4, <2>5
      <3> QED
        BY <1>2, <2>5, <3>1, Holder DEF MInv, Holds, Within
    <2>15. AbortPending'
      <3>1. \A u \in Flows : thread[u].at = "aborting" => thread'[u].at = "aborting"
        BY <1>1, <2>4, <2>5
      <3> QED
        BY <1>1, <2>6, <3>1 DEF MInv, AbortPending
    <2>16. ResumeQuiet'
      BY <1>1, <1>2, <2>4, <2>5, <2>6 DEF MInv, ResumeQuiet
    <2>17. OverInv'
      <3>1. \A g \in Flows : send[g].at \in Over => g # f /\ send[g].at # "none"
        BY <2>5 DEF Over
      <3> QED
        BY <1>1, <2>6, <2>10, <3>1 DEF MInv, OverInv, Punctual
    <2>18. WordsInv'
      <3> SUFFICES ASSUME NEW w \in Flows
                   PROVE  /\ Fresh(w)' => /\ w \notin handed /\ unsent # w
                                          /\ \A g \in Flows : g # w => thread'[g].carries # w
                          /\ w \in handed /\ ~Lost(w)' =>
                               /\ unsent # w
                               /\ \A g \in Flows : thread'[g].carries = w
                                                     => ~Mentions(g)' /\ ~Leaving(g)'
        BY <2>6 DEF WordsInv
      <3>1. Fresh(w)' => Fresh(w) /\ w # f
        BY <2>4, <2>5, <2>10 DEF Fresh, Early
      <3>2. Lost(w) => Lost(w)'
        BY <2>4, <2>5, <2>6 DEF Lost, MInv, MessageTypes
      <3>3. Fresh(f)
        BY <1>1 DEF Fresh, Early, Stages
      <3>4. f \notin handed
        BY <3>3 DEF MInv, WordsInv
      <3>5. CASE w0 = w
        BY <2>3, <2>4, <2>5, <3>1, <3>2, <3>4, <3>5 DEF MInv, WordsInv
      <3>6. CASE w0 # w
        BY <2>4, <2>5, <2>10, <3>1, <3>2, <3>6 DEF MInv, WordsInv
      <3> QED
        BY <3>5, <3>6
    <2>19. CancelsInv'
      <3>1. active \in Objects
        BY <2>1, ControlAssumption DEF MInv, IInv, Typed, Objects
      <3> QED
        BY <1>1, <2>2, <2>4, <2>5, <2>6, <3>1 DEF MInv, CancelsInv, Cancelled
    <2> QED
      BY <2>7, <2>8, <2>9, <2>12, <2>13, <2>14, <2>15, <2>16, <2>17, <2>18, <2>19 DEF MInv
  <1> QED
    BY <1>4, <1>5

\* The text of a message is ready, and its send is queued behind the others.
LEMMA TextReadyMessages == ASSUME MInv, IInv', NEW f \in Flows, TextReady(f) PROVE MInv'
  <1>1. /\ f \in Threads /\ thread[f].at = "mentions" /\ f # Reloader
        /\ thread \in [Threads -> ThreadRecord] /\ thread[f] \in ThreadRecord
        /\ thread[f].op = "switch" \/ ~Cancelled(f)
    BY Names, ControlAssumption DEF TextReady, MInv, IInv, Typed
  <1>2. /\ UNCHANGED <<active, made, session, cancelVersion, cancelling, hosted, turn, held, lock,
                       handed, strays>>
        /\ thread' = Leaves(f)
        /\ Sent(f, active, IF active = 0 THEN 0 ELSE session[active].version,
                thread[f].joins, thread[f].carries)
    BY DEF TextReady, Submit, Sent, host, section, objects, cancels
  <1>3. PICK s \in {"leaving", "done"} : thread' = Goes(f, s)
    BY <1>1, <1>2, LeavesIs
  <1>4. /\ thread'[f].at \in {"leaving", "done"} /\ thread'[f].carries = thread[f].carries
        /\ thread'[f].joins = thread[f].joins /\ thread'[f].op = thread[f].op
        /\ thread'[f].cv = thread[f].cv
        /\ \A u \in Threads : u # f => thread'[u] = thread[u]
    <2>1. s \in Stages
      BY DEF Stages
    <2>2. /\ thread'[f] = [thread[f] EXCEPT !.at = s]
          /\ \A u \in Threads : u # f => thread'[u] = thread[u]
      BY <1>1, <1>3, <2>1, GoesRecord DEF MInv
    <2> QED
      BY <1>1, <2>2 DEF ThreadRecord
  <1>5. /\ Flows \subseteq Threads /\ send[f].at = "none" /\ turn # f
        /\ send \in [Flows -> SendRecord]
    BY <1>1, Names DEF MInv, SendsInv, MessageTypes
  <1>6. Shaped(f, thread[f], lock, active, cancelVersion)
    BY <1>1 DEF MInv, ThreadShapes
  <1>7. active \in 0 .. MaxSessions /\ active <= made /\ (active # 0 => active \in Objects)
        /\ session \in [Objects -> SessionRecord] /\ active \in Nat
    BY ControlAssumption DEF MInv, IInv, Typed, Objects, SendsInv
  <1> DEFINE v == IF active = 0 THEN 0 ELSE session[active].version
             n == [at |-> "outbound", of |-> active, version |-> v, joins |-> thread[f].joins,
                   carries |-> thread[f].carries, on |-> 0]
  <1>8. /\ n \in SendRecord /\ n.at = "outbound" /\ n.of = active /\ n.joins = thread[f].joins
        /\ n.carries = thread[f].carries /\ n.version = v /\ v \in Nat
    BY <1>1, <1>7 DEF SendRecord, SendStages, ThreadRecord, SessionRecord
  <1>9. /\ send' = [send EXCEPT ![f] = n] /\ outbound' = Append(outbound, f)
        /\ unsent' = IF thread[f].joins \/ thread[f].carries = Nobody THEN unsent
                     ELSE thread[f].carries
    BY <1>2 DEF Sent
  <1>10. send'[f] = n /\ \A g \in Flows : g # f => send'[g] = send[g]
    BY <1>5, <1>9
  <1>11. v = IF active = 0 THEN 0 ELSE session[active].version
    OBVIOUS
  <1> HIDE DEF n, v
  <1>12. \A g \in Flows \ {f} :
           /\ OnItsWay(g)' <=> OnItsWay(g)
           /\ Mentions(g)' <=> Mentions(g)
           /\ Leaving(g)' <=> Leaving(g)
           /\ Fresh(g)' <=> Fresh(g)
           /\ send[g].at # "none" => (SendCancelled(g)' <=> SendCancelled(g))
    BY <1>2, <1>4, <1>5, <1>10, Elsewhere
  <1>13. ~thread[f].joins => Mentions(f)
    BY <1>1 DEF Mentions
  <1>14. OnItsWay(f)' => ~thread[f].joins /\ OnItsWay(f)
    BY <1>4, <1>8, <1>10, <1>13 DEF OnItsWay, Mentions, Leaving
  <1>15. \A g \in Flows : Busy(g)' => Busy(g)
    BY <1>2, <1>12, <1>14 DEF Busy
  <1>16. MessageTypes'
    BY <1>2, <1>5, <1>8, <1>9 DEF MInv, MessageTypes
  <1>17. ThreadShapes'
    <2>1. Shaped(f, thread'[f], lock', active, cancelVersion)
      BY <1>1, <1>3, <1>6, GoesShaped DEF Stages, Early
    <2> QED
      BY <1>2, <1>4, <2>1, ShapesKept DEF MInv
  <1>18. SendsInv'
    <2>1. outbound \in Seq(Flows) /\ DOMAIN outbound' = 1 .. Len(outbound) + 1
          /\ \A i \in DOMAIN outbound' :
               outbound'[i] = IF i <= Len(outbound) THEN outbound[i] ELSE f
      BY <1>9 DEF MInv, MessageTypes
    <2>2. \A i \in DOMAIN outbound : outbound[i] \in Flows \ {f}
      BY <1>5, <2>1 DEF MInv, SendsInv
    <2>3. \A i \in DOMAIN outbound' : send'[outbound'[i]].at = "outbound"
      BY <1>8, <1>10, <2>1, <2>2 DEF MInv, SendsInv
    <2>4. \A i, j \in DOMAIN outbound' : outbound'[i] = outbound'[j] => i = j
      BY <2>1, <2>2 DEF MInv, SendsInv
    <2>5. \A g \in Flows : send'[g].at # "none" =>
            /\ thread'[g].at \in {"leaving", "done"}
            /\ send'[g].joins = thread'[g].joins /\ send'[g].carries = thread'[g].carries
            /\ send'[g].of <= made'
            /\ send'[g].of # 0 => send'[g].version <= session'[send'[g].of].version
      BY <1>2, <1>4, <1>5, <1>7, <1>8, <1>10, <1>11 DEF MInv, SendsInv
    <2>6. \A g \in Flows : send'[g].at \in {"waiting", "turn"} => ~send'[g].joins
      BY <1>8, <1>10 DEF MInv, SendsInv
    <2>7. \A g \in strays' : thread'[g].at \in {"mentions", "leaving", "done"}
      BY <1>2, <1>4, <1>5 DEF MInv, SendsInv, MessageTypes
    <2>8. turn' \in Flows => send'[turn'].at = "turn"
      BY <1>2, <1>5, <1>10 DEF MInv, SendsInv
    <2> QED
      BY <1>2, <2>3, <2>4, <2>5, <2>6, <2>7, <2>8 DEF MInv, SendsInv
  <1>19. WayInv'
    <2>1. Running' <=> Running
      BY <1>2 DEF Running
    <2> QED
      BY <1>2, <1>8, <1>10, <1>12, <1>14, <2>1 DEF MInv, WayInv, Punctual
  <1>20. OneBusy'
    BY <1>2, <1>15 DEF MInv, OneBusy, Punctual
  <1>21. SettlingInv'
    BY <1>2, <1>4, <1>5, <1>12, <1>14 DEF MInv, SettlingInv, Punctual
  <1>22. AbortPending'
    BY <1>1, <1>2, <1>4, <1>5 DEF MInv, AbortPending
  <1>23. ResumeQuiet'
    <2> SUFFICES ASSUME NEW t \in Flows, thread'[t].op = "resume", thread'[t].at = "mentions",
                        NEW g \in Flows, send'[g].at # "none", send'[g].of = active'
                 PROVE  send'[g].joins
      BY DEF ResumeQuiet
    <2>1. t # f /\ thread[t].op = "resume" /\ thread[t].at = "mentions"
      BY <1>4, <1>5
    <2>2. lock = t
      BY <1>5, <2>1, Holder DEF MInv, Holds
    <2> QED
      BY <1>1, <1>2, <1>6, <1>8, <1>10, <2>1, <2>2 DEF MInv, ResumeQuiet, Shaped
  <1>24. OverInv'
    <2>1. \A g \in Flows : /\ send'[g].at \in Over => g # f /\ send[g].at # "none"
                           /\ send'[g].at = "waiting" => g # f
      BY <1>8, <1>10 DEF Over
    <2> QED
      BY <1>2, <1>10, <1>12, <2>1 DEF MInv, OverInv, Punctual
  <1>25. WordsInv'
    <2> SUFFICES ASSUME NEW w \in Flows
                 PROVE  /\ Fresh(w)' => /\ w \notin handed /\ unsent' # w
                                        /\ \A g \in Flows : g # w => thread'[g].carries # w
                        /\ w \in handed /\ ~Lost(w)' =>
                             /\ unsent' # w
                             /\ \A g \in Flows : thread'[g].carries = w
                                                   => ~Mentions(g)' /\ ~Leaving(g)'
      BY <1>2 DEF WordsInv
    <2>1. \A g \in Flows : thread'[g].carries = thread[g].carries
      BY <1>4, <1>5
    <2>2. Lost(w)' <=> Lost(w)
      BY <1>2, <2>1 DEF Lost, MInv, MessageTypes
    <2>3. Fresh(w)' => Fresh(w)
      BY <1>4, <1>5, <1>12 DEF Fresh, Early
    <2>4. Fresh(f)' => thread[f].joins
      BY <1>4 DEF Fresh, Early
    <2>5. Fresh(w)' => unsent' # w
      BY <1>9, <2>3, <2>4 DEF MInv, WordsInv
    <2>6. ASSUME w \in handed, ~Lost(w) PROVE unsent' # w
      BY <1>9, <1>13, <2>6 DEF MInv, WordsInv
    <2>7. ASSUME w \in handed, ~Lost(w), NEW g \in Flows, thread'[g].carries = w
          PROVE  ~Mentions(g)' /\ ~Leaving(g)'
      <3>1. CASE g # f
        BY <1>12, <2>1, <2>7, <3>1 DEF MInv, WordsInv
      <3>2. CASE g = f
        <4>1. thread[f].joins
          BY <1>13, <2>1, <2>7, <3>2 DEF MInv, WordsInv
        <4> QED
          BY <1>4, <1>8, <1>10, <3>2, <4>1 DEF Mentions, Leaving
      <3> QED
        BY <3>1, <3>2
    <2> QED
      BY <2>1, <2>2, <2>3, <2>5, <2>6, <2>7 DEF MInv, WordsInv
  <1>26. CancelsInv'
    BY <1>1, <1>2, <1>4, <1>5, <1>10 DEF MInv, CancelsInv, Cancelled
  <1> QED
    BY <1>16, <1>17, <1>18, <1>19, <1>20, <1>21, <1>22, <1>23, <1>24, <1>25, <1>26 DEF MInv

\* The send f goes to a: nothing else of it changes but the session that took it.
MovesTo(f, a) ==
    /\ send' \in [Flows -> SendRecord] /\ send'[f].at = a
    /\ send'[f].of = send[f].of /\ send'[f].version = send[f].version
    /\ send'[f].joins = send[f].joins /\ send'[f].carries = send[f].carries
    /\ \A g \in Flows : g # f => send'[g] = send[g]

\* So it does when the host takes it, and when the host is done with it.
LEMMA Moves ==
  ASSUME MInv, NEW f \in Flows, NEW a \in SendStages,
         \/ send' = [send EXCEPT ![f].at = a, ![f].on = hosted]
         \/ send' = [send EXCEPT ![f].at = a]
  PROVE  MovesTo(f, a)
  <1>1. /\ send \in [Flows -> SendRecord] /\ send[f] \in SendRecord /\ hosted \in Nat
    BY DEF MInv, MessageTypes
  <1>2. CASE send' = [send EXCEPT ![f].at = a, ![f].on = hosted]
    BY <1>1, <1>2 DEF MovesTo, SendRecord
  <1>3. CASE send' = [send EXCEPT ![f].at = a]
    BY <1>1, <1>3 DEF MovesTo, SendRecord
  <1> QED
    BY <1>2, <1>3

\* A send that leaves the chain, or goes on in the host, ends at a: in the host's turn
\* or waiting for it only when no other message is over and still to settle.
LEMMA SendGoes ==
  ASSUME MInv, IInv', WordsInv', NEW f \in Flows, NEW a \in SendStages \ {"none", "outbound"},
         send[f].at \in {"outbound", "waiting"}, MovesTo(f, a),
         a \in {"turn", "waiting", "ended"} => OnItsWay(f) /\ ~send[f].joins,
         a = "turn" => hosted # 0,
         a = "failed" => hosted = 0,
         a # "aborted",
         \/ a = "turn" /\ turn = Nobody /\ turn' = f /\ held' = FALSE
         \/ a # "turn" /\ UNCHANGED <<turn, held>>,
         a \in {"turn", "waiting"} /\ f \in Punctual /\ active # 0 => \A g \in Punctual :
            send[g].at \in Over => SendCancelled(g) \/ send[g].of # active,
         handed' \subseteq Flows,
         outbound' \in Seq(Flows),
         \A i \in DOMAIN outbound' : send'[outbound'[i]].at = "outbound",
         \A i, j \in DOMAIN outbound' : outbound'[i] = outbound'[j] => i = j,
         UNCHANGED <<hosted, active, made, session, thread, lock, strays, cancelVersion, cancelling>>
  PROVE  MInv'
  <1>1. /\ send \in [Flows -> SendRecord] /\ send[f] \in SendRecord
        /\ Flows \subseteq Threads /\ f \in Threads
    BY Names DEF MInv, MessageTypes
  <1>2. /\ send'[f].at = a /\ send'[f].of = send[f].of /\ send'[f].version = send[f].version
        /\ send'[f].joins = send[f].joins /\ send'[f].carries = send[f].carries
        /\ \A g \in Flows : g # f => send'[g] = send[g]
    BY DEF MovesTo
  <1>3. \A g \in Flows \ {f} :
           /\ OnItsWay(g)' <=> OnItsWay(g)
           /\ send[g].at # "none" => (SendCancelled(g)' <=> SendCancelled(g))
    BY <1>2, Elsewhere
  <1>4. turn # f /\ send[f].at # "none" /\ thread[f].at \in {"leaving", "done"}
    BY DEF MInv, SendsInv
  <1>5. OnItsWay(f)' => a = "waiting" /\ OnItsWay(f)
    BY <1>2, <1>4 DEF OnItsWay, Mentions, Leaving
  <1>6. \A g \in Flows : Busy(g)' => Busy(g)
    BY <1>3, <1>5 DEF Busy
  <1>7. Running' <=> Running
    BY DEF Running
  <1>8. MessageTypes'
    <2>1. send' \in [Flows -> SendRecord]
      BY DEF MovesTo
    <2>2. turn' \in Flows \cup {Drained, Nobody} /\ held' \in BOOLEAN
      BY DEF MInv, MessageTypes
    <2> QED
      BY <2>1, <2>2 DEF MInv, MessageTypes
  <1>9. ThreadShapes'
    BY DEF MInv, ThreadShapes
  <1>10. SendsInv'
    <2>1. \A g \in Flows : send'[g].at # "none" =>
            /\ thread'[g].at \in {"leaving", "done"}
            /\ send'[g].joins = thread'[g].joins /\ send'[g].carries = thread'[g].carries
            /\ send'[g].of <= made'
            /\ send'[g].of # 0 => send'[g].version <= session'[send'[g].of].version
      BY <1>2, <1>4 DEF MInv, SendsInv
    <2>2. \A g \in Flows : send'[g].at \in {"waiting", "turn"} => ~send'[g].joins
      BY <1>2 DEF MInv, SendsInv
    <2>3. turn' \in Flows => send'[turn'].at = "turn"
      BY <1>2, <1>4 DEF MInv, SendsInv
    <2>4. hosted' = 0 => turn' = Nobody
      BY DEF MInv, SendsInv
    <2> QED
      BY <2>1, <2>2, <2>3, <2>4 DEF MInv, SendsInv
  <1>11. WayInv'
    <2> SUFFICES ASSUME NEW g \in Punctual'
                 PROVE  /\ OnItsWay(g)' => Running /\ (send'[g].at # "none" => send'[g].of = active)
                        /\ turn' = g /\ active # 0 /\ ~held' => Running
      BY <1>7 DEF WayInv
    <2>1. g \in Flows /\ g \in Punctual
      BY DEF Punctual
    <2>2. CASE g # f
      BY <1>2, <1>3, <2>1, <2>2 DEF MInv, WayInv
    <2>3. CASE g = f
      <3>1. turn' = f => OnItsWay(f)
        BY <1>4
      <3> QED
        BY <1>2, <1>4, <1>5, <2>1, <2>3, <3>1 DEF MInv, WayInv
    <2> QED
      BY <2>2, <2>3
  <1>12. OneBusy'
    BY <1>6 DEF MInv, OneBusy, Punctual
  <1>13. SettlingInv'
    <2> SUFFICES ASSUME NEW t \in Flows, thread[t].at = "settling", NEW g \in Punctual'
                 PROVE  ~OnItsWay(g)' /\ (turn' = g => held')
      BY DEF SettlingInv
    <2>1. g \in Flows /\ g \in Punctual
      BY DEF Punctual
    <2>2. ~OnItsWay(g) /\ (turn = g => held)
      BY <2>1 DEF MInv, SettlingInv
    <2> QED
      BY <1>3, <1>4, <1>5, <2>1, <2>2
  <1>14. AbortPending'
    BY DEF MInv, AbortPending
  <1>15. ResumeQuiet'
    BY <1>2, <1>4 DEF MInv, ResumeQuiet
  <1>16. OverInv'
    <2> SUFFICES ASSUME NEW g \in Punctual', NEW h \in Punctual', g # h, active # 0,
                        send'[g].at \in Over, ~SendCancelled(g)', send'[g].of = active,
                        send'[h].at = "waiting" \/ turn' = h, hosted # 0
                 PROVE  FALSE
      BY DEF OverInv
    <2>1. g \in Flows /\ h \in Flows /\ g \in Punctual /\ h \in Punctual /\ Busy(h)'
      BY DEF Punctual, Busy, OnItsWay
    <2>2. CASE g = f
      <3>1. OnItsWay(f)
        BY <1>2, <2>2 DEF Over
      <3> QED
        BY <1>6, <2>1, <2>2, <3>1 DEF MInv, OneBusy, Busy
    <2>3. CASE g # f
      <3>1. send[g].at \in Over /\ ~SendCancelled(g) /\ send[g].of = active
        BY <1>2, <1>3, <2>1, <2>3 DEF Over
      <3>2. a \in {"turn", "waiting"} => h # f
        BY <2>1, <3>1
      <3>3. send[h].at = "waiting" \/ turn = h
        BY <1>2, <2>1, <3>2
      <3> QED
        BY <2>1, <3>1, <3>3 DEF MInv, OverInv
    <2> QED
      BY <2>2, <2>3
  <1>17. CancelsInv'
    BY <1>2 DEF MInv, CancelsInv, Cancelled
  <1> QED
    BY <1>8, <1>9, <1>10, <1>11, <1>12, <1>13, <1>14, <1>15, <1>16, <1>17 DEF MInv

\* Where the answer of the host leaves a send.
LEMMA AnsweredAt ==
  ASSUME MInv, NEW f \in Flows, Answered(f)
  PROVE  \E a \in {"failed", "turn", "waiting", "ended"} :
            /\ MovesTo(f, a)
            /\ a = "failed" <=> hosted = 0
            /\ a = "waiting" => Unwinding
            /\ \/ a = "turn" /\ turn = Nobody /\ turn' = f /\ held' = FALSE
               \/ a # "turn" /\ UNCHANGED <<turn, held>>
  <1> DEFINE a == CASE hosted = 0 -> "failed"
                    [] hosted # 0 /\ turn = Nobody -> "turn"
                    [] hosted # 0 /\ Unwinding -> "waiting"
                    [] OTHER -> "ended"
  <1>1. a \in SendStages /\ send' = [send EXCEPT ![f].at = a, ![f].on = hosted]
    BY DEF Answered, SendStages
  <1>2. /\ hosted = 0 => a = "failed"
        /\ hosted # 0 /\ turn = Nobody => a = "turn"
        /\ hosted # 0 /\ turn # Nobody => (a = "waiting" /\ Unwinding) \/ a = "ended"
    BY DEF Unwinding
  <1>3. MovesTo(f, a)
    BY <1>1, Moves
  <1> QED
    BY <1>2, <1>3 DEF Answered

LEMMA HostResumesMessages == ASSUME MInv, IInv', NEW f \in Flows, HostResumes(f) PROVE MInv'
  <1>1. /\ send[f].at = "waiting"
        /\ UNCHANGED <<hosted, active, made, session, thread, lock, strays, cancelVersion,
                       cancelling, unsent, outbound, handed>>
    BY DEF HostResumes, objects, section, cancels
  <1>2. PICK a \in {"failed", "turn", "ended"} :
            /\ MovesTo(f, a)
            /\ a = "turn" => hosted # 0
            /\ a = "failed" => hosted = 0
            /\ \/ a = "turn" /\ turn = Nobody /\ turn' = f /\ held' = FALSE
               \/ a # "turn" /\ UNCHANGED <<turn, held>>
    <2>1. CASE ~Unwinding /\ Answered(f)
      <3>1. PICK a \in {"failed", "turn", "waiting", "ended"} :
            /\ MovesTo(f, a)
            /\ a = "failed" <=> hosted = 0
            /\ a = "waiting" => Unwinding
            /\ \/ a = "turn" /\ turn = Nobody /\ turn' = f /\ held' = FALSE
               \/ a # "turn" /\ UNCHANGED <<turn, held>>
        BY <2>1, AnsweredAt
      <3>2. a \in {"failed", "turn", "ended"}
        BY <2>1, <3>1
      <3> QED
        BY <3>1, <3>2
    <2>2. CASE send' = [send EXCEPT ![f].at = "ended"] /\ UNCHANGED <<turn, held>>
      <3>1. MovesTo(f, "ended")
        BY <2>2, Moves DEF SendStages
      <3> QED
        BY <2>2, <3>1
    <2> QED
      BY <2>1, <2>2 DEF HostResumes
  <1>3. OnItsWay(f) /\ ~send[f].joins
    BY <1>1 DEF OnItsWay, MInv, SendsInv
  <1>4. send'[f].at = a /\ \A g \in Flows : g # f => send'[g] = send[g]
    BY <1>2 DEF MovesTo
  <1>5. \A i \in DOMAIN outbound : outbound[i] \in Flows \ {f}
    BY <1>1 DEF MInv, MessageTypes, SendsInv
  <1>6. \A i \in DOMAIN outbound' : send'[outbound'[i]].at = "outbound"
    BY <1>1, <1>4, <1>5 DEF MInv, SendsInv
  <1>7. a \in {"turn", "waiting"} /\ f \in Punctual /\ active # 0 => \A g \in Punctual :
            send[g].at \in Over => SendCancelled(g) \/ send[g].of # active
    <2> SUFFICES ASSUME a = "turn", f \in Punctual, active # 0, NEW g \in Punctual,
                        send[g].at \in Over, ~SendCancelled(g), send[g].of = active
                 PROVE  FALSE
      BY <1>1, <1>2
    <2>1. f # g /\ hosted # 0
      BY <1>1, <1>2 DEF Over
    <2> QED
      BY <1>1, <2>1 DEF MInv, OverInv
  <1>8. /\ handed' \subseteq Flows /\ outbound' \in Seq(Flows)
        /\ \A i, j \in DOMAIN outbound' : outbound'[i] = outbound'[j] => i = j
    BY <1>1 DEF MInv, MessageTypes, SendsInv
  <1>9. WordsInv'
    <2>1. \A g \in Flows : (Mentions(g)' <=> Mentions(g)) /\ (Lost(g)' <=> Lost(g))
      BY <1>1 DEF Mentions, Lost, Cancelled
    <2>2. \A g \in Flows : Leaving(g)' => Leaving(g)
      BY <1>1, <1>2, <1>4 DEF Leaving, SendCancelled
    <2>3. \A g \in Flows : Fresh(g)' => Fresh(g)
      BY <1>1, <1>2, <1>4 DEF Fresh
    <2> QED
      BY <1>1, <2>1, <2>2, <2>3 DEF MInv, WordsInv
  <1>10. a \in SendStages \ {"none", "outbound"} /\ a # "aborted"
    BY <1>2 DEF SendStages
  <1> QED
    BY <1>1, <1>2, <1>3, <1>6, <1>7, <1>8, <1>9, <1>10, SendGoes

\* The answer to a send that leaves the chain.
LEMMA LeftAt ==
  ASSUME MInv, NEW f \in Flows, send[f].at = "outbound", send[f].joins \in BOOLEAN,
         IF SendCancelled(f)
         THEN /\ send' = [send EXCEPT ![f].at = "settled"]
              /\ UNCHANGED <<unsent, handed, turn, queue, held>>
         ELSE /\ unsent' = IF send[f].joins THEN unsent ELSE Nobody
              /\ Given(f)
              /\ IF send[f].joins THEN Joined(f) ELSE Answered(f)
  PROVE  \E a \in {"failed", "turn", "waiting", "ended", "settled"} :
            /\ MovesTo(f, a)
            /\ a \in {"turn", "waiting", "ended"} => Leaving(f) /\ hosted # 0
            /\ a = "failed" => hosted = 0
            /\ \/ a = "turn" /\ turn = Nobody /\ turn' = f /\ held' = FALSE
               \/ a # "turn" /\ UNCHANGED <<turn, held>>
  <1> DEFINE b == IF hosted = 0 THEN "failed" ELSE "settled"
  <1>1. CASE SendCancelled(f)
    BY <1>1, Moves DEF SendStages
  <1>2. CASE ~SendCancelled(f) /\ send[f].joins
    <2>1. b \in SendStages /\ send' = [send EXCEPT ![f].at = b] /\ UNCHANGED <<turn, held>>
      BY <1>2 DEF Joined, SendStages
    <2>2. MovesTo(f, b)
      BY <2>1, Moves
    <2> QED
      BY <2>1, <2>2
  <1>3. CASE ~SendCancelled(f) /\ ~send[f].joins
    <2>1. Answered(f) /\ Leaving(f)
      BY <1>3 DEF Leaving
    <2>2. PICK a \in {"failed", "turn", "waiting", "ended"} :
            /\ MovesTo(f, a)
            /\ a = "failed" <=> hosted = 0
            /\ a = "waiting" => Unwinding
            /\ \/ a = "turn" /\ turn = Nobody /\ turn' = f /\ held' = FALSE
               \/ a # "turn" /\ UNCHANGED <<turn, held>>
      BY <2>1, AnsweredAt
    <2> QED
      BY <2>1, <2>2
  <1> QED
    BY <1>1, <1>2, <1>3

\* The first send of the chain leaves.
LEMMA SendLeavesMessages == ASSUME MInv, IInv', SendLeaves PROVE MInv'
  <1> DEFINE f == Head(outbound)
  <1>1. /\ outbound # <<>> /\ outbound' = Tail(outbound) /\ outbound \in Seq(Flows)
        /\ \A g \in Flows : send[g].at \in Over => SendCancelled(g) \/ send[g].of # active
        /\ UNCHANGED <<hosted, active, made, session, thread, lock, strays, cancelVersion,
                       cancelling>>
    BY DEF SendLeaves, objects, section, cancels, MInv, MessageTypes
  <1>2. /\ f \in Flows /\ f = outbound[1] /\ 1 \in DOMAIN outbound
        /\ outbound' \in Seq(Flows)
        /\ \A i \in DOMAIN outbound' : i + 1 \in DOMAIN outbound /\ i + 1 # 1
                                       /\ outbound'[i] = outbound[i + 1] /\ i \in Nat
    BY <1>1
  <1>3. IF SendCancelled(f)
        THEN /\ send' = [send EXCEPT ![f].at = "settled"]
             /\ UNCHANGED <<unsent, handed, turn, queue, held>>
        ELSE /\ unsent' = IF send[f].joins THEN unsent ELSE Nobody
             /\ Given(f)
             /\ IF send[f].joins THEN Joined(f) ELSE Answered(f)
    BY DEF SendLeaves
  <1> HIDE DEF f
  <1>4. /\ send[f].at = "outbound" /\ send[f] \in SendRecord /\ send[f].joins \in BOOLEAN
        /\ thread[f].at \in {"leaving", "done"} /\ thread[f].joins = send[f].joins
        /\ thread[f].carries = send[f].carries
    BY <1>2 DEF MInv, SendsInv, MessageTypes, SendRecord
  <1>5. PICK a \in {"failed", "turn", "waiting", "ended", "settled"} :
            /\ MovesTo(f, a)
            /\ a \in {"turn", "waiting", "ended"} => Leaving(f) /\ hosted # 0
            /\ a = "failed" => hosted = 0
            /\ \/ a = "turn" /\ turn = Nobody /\ turn' = f /\ held' = FALSE
               \/ a # "turn" /\ UNCHANGED <<turn, held>>
    BY <1>2, <1>3, <1>4, LeftAt
  <1>6. send'[f].at = a /\ \A g \in Flows : g # f => send'[g] = send[g]
    BY <1>5 DEF MovesTo
  <1>7. \A i \in DOMAIN outbound' : send'[outbound'[i]].at = "outbound"
    <2> SUFFICES ASSUME NEW i \in DOMAIN outbound' PROVE send'[outbound'[i]].at = "outbound"
      OBVIOUS
    <2>1. outbound'[i] # f /\ outbound'[i] \in Flows
      BY <1>1, <1>2 DEF MInv, SendsInv
    <2> QED
      BY <1>2, <1>6, <2>1 DEF MInv, SendsInv
  <1>8. \A i, j \in DOMAIN outbound' : outbound'[i] = outbound'[j] => i = j
    <2> SUFFICES ASSUME NEW i \in DOMAIN outbound', NEW j \in DOMAIN outbound',
                        outbound'[i] = outbound'[j]
                 PROVE  i = j
      OBVIOUS
    <2>1. i + 1 = j + 1
      BY <1>2 DEF MInv, SendsInv
    <2> QED
      BY <1>2, <2>1
  <1>9. handed' = handed \/ (handed' = handed \cup ({send[f].carries} \ {Nobody}) /\ ~SendCancelled(f))
    BY <1>3 DEF Given
  <1>10. handed' \subseteq Flows
    BY <1>4, <1>9 DEF MInv, MessageTypes, SendRecord
  <1>11. WordsInv'
    <2> SUFFICES ASSUME NEW w \in Flows
                 PROVE  /\ Fresh(w)' => /\ w \notin handed' /\ unsent' # w
                                        /\ \A g \in Flows : g # w => thread[g].carries # w
                        /\ w \in handed' /\ ~Lost(w) =>
                             /\ unsent' # w
                             /\ \A g \in Flows : thread[g].carries = w
                                                   => ~Mentions(g) /\ ~Leaving(g)'
      BY <1>1 DEF WordsInv, Lost, Mentions, Cancelled
    <2>1. \A g \in Flows : Leaving(g)' => Leaving(g) /\ g # f
      BY <1>1, <1>5, <1>6 DEF Leaving, SendCancelled
    <2>2. Fresh(w)' => Fresh(w) /\ w # f
      BY <1>1, <1>4, <1>5, <1>6 DEF Fresh, Early
    <2>3. unsent' \in {unsent, Nobody} /\ w # Nobody
      BY <1>3, ControlAssumption
    <2>4. ASSUME Fresh(w)' PROVE w \notin handed' /\ unsent' # w
      BY <1>2, <1>4, <1>9, <2>2, <2>3, <2>4 DEF MInv, WordsInv
    <2>5. ASSUME w \in handed, ~Lost(w)
          PROVE  /\ unsent' # w
                 /\ \A g \in Flows : thread[g].carries = w => ~Mentions(g) /\ ~Leaving(g)'
      BY <2>1, <2>3, <2>5 DEF MInv, WordsInv
    <2>6. ASSUME w \in handed', w \notin handed, ~Lost(w)
          PROVE  /\ unsent' # w
                 /\ \A g \in Flows : thread[g].carries = w => ~Mentions(g) /\ ~Leaving(g)'
      <3>1. w = thread[f].carries /\ ~SendCancelled(f)
        BY <1>4, <1>9, <2>6
      <3>2. CASE send[f].joins
        <4>1. w = f
          BY <1>2, <1>4, <2>3, <3>1, <3>2, Names DEF MInv, ThreadShapes, Shaped
        <4>2. Fresh(f)
          BY <1>4, <3>2 DEF Fresh
        <4>3. unsent # f /\ \A g \in Flows : g # f => thread[g].carries # f
          BY <1>2, <4>2 DEF MInv, WordsInv
        <4> QED
          BY <1>4, <2>1, <2>3, <4>1, <4>3 DEF Mentions
      <3>3. CASE ~send[f].joins
        <4>1. unsent' # w /\ Leaving(f)
          BY <1>3, <1>4, <2>3, <3>1, <3>3 DEF Leaving
        <4>2. ASSUME NEW g \in Flows, thread[g].carries = w, Mentions(g) \/ Leaving(g)'
              PROVE  FALSE
          <5>1. g # f /\ (Mentions(g) \/ Leaving(g))
            BY <1>4, <2>1, <4>2 DEF Mentions
          <5>2. g \in Punctual /\ f \in Punctual
            BY <1>2, <2>6, <3>1, <4>2 DEF Lost, Punctual
          <5> QED
            BY <4>1, <5>1, <5>2 DEF MInv, OneBusy, Busy, OnItsWay
        <4> QED
          BY <4>1, <4>2
      <3> QED
        BY <3>2, <3>3
    <2> QED
      BY <2>2, <2>4, <2>5, <2>6 DEF MInv, WordsInv
  <1>12. a \in SendStages \ {"none", "outbound"} /\ a # "aborted"
    BY <1>5 DEF SendStages
  <1>13. a \in {"turn", "waiting", "ended"} => OnItsWay(f) /\ ~send[f].joins /\ hosted # 0
    BY <1>5 DEF OnItsWay, Leaving
  <1>14. a \in {"turn", "waiting"} /\ f \in Punctual /\ active # 0 => \A g \in Punctual :
            send[g].at \in Over => SendCancelled(g) \/ send[g].of # active
    BY <1>1 DEF Punctual
  <1> QED
    BY <1>1, <1>2, <1>4, <1>5, <1>7, <1>8, <1>10, <1>11, <1>12, <1>13, <1>14, SendGoes

\* A session object goes, in the hands of t, while no message is on its way for it.
LEMMA SessionEnds ==
  ASSUME MInv, IInv', NEW t \in Threads, NEW s \in {"stopping", "leaving"}, lock = t,
         thread[t].at = "loading" \/ (thread[t].at = "mentions" /\ s = "leaving"),
         s = "stopping" => thread[t].op # "follow",
         thread' = Goes(t, s), EndActive,
         \A g \in Punctual : g # t => ~OnItsWay(g),
         UNCHANGED <<session, made, cancelVersion, cancelling, outbound, send, handed, strays,
                     lock, hosted, turn>>
  PROVE  MInv'
  <1>1. active' = 0 /\ unsent' = Nobody /\ held' = (held \/ turn # Nobody) /\ ~Running'
    BY DEF EndActive, Running
  <1>2. /\ thread'[t] = [thread[t] EXCEPT !.at = s] /\ thread[t] \in ThreadRecord
        /\ \A u \in Threads : u # t => thread'[u] = thread[u]
        /\ Flows \subseteq Threads
    <2>1. s \in Stages /\ IInv
      BY DEF Stages, MInv
    <2> QED
      BY <2>1, GoesRecord, Names
  <1>3. /\ thread'[t].at = s /\ thread'[t].joins = thread[t].joins /\ thread'[t].op = thread[t].op
        /\ thread'[t].cv = thread[t].cv /\ thread'[t].carries = thread[t].carries
    BY <1>2 DEF ThreadRecord
  <1>4. t \in Flows => send[t].at = "none"
    BY DEF MInv, SendsInv
  <1>5. \A g \in Flows : g # t =>
           /\ OnItsWay(g)' <=> OnItsWay(g)
           /\ Mentions(g)' <=> Mentions(g)
           /\ Leaving(g)' <=> Leaving(g)
           /\ Fresh(g)' <=> Fresh(g)
    BY <1>2, Elsewhere
  <1>6. t \in Flows => ~OnItsWay(t)' /\ ~Mentions(t)' /\ ~Leaving(t)'
    BY <1>3, <1>4 DEF OnItsWay, Mentions, Leaving
  <1>7. \A g \in Punctual' : g \in Flows /\ g \in Punctual /\ ~OnItsWay(g)'
    BY <1>5, <1>6 DEF Punctual
  <1>8. MessageTypes'
    BY <1>1 DEF MInv, MessageTypes
  <1>9. ThreadShapes'
    <2> SUFFICES ASSUME NEW u \in Threads
                 PROVE  Shaped(u, thread'[u], lock, 0, cancelVersion)
      BY <1>1 DEF ThreadShapes
    <2>1. CASE u # t
      BY <1>2, <2>1 DEF MInv, ThreadShapes, Shaped
    <2>2. CASE u = t
      <3>1. Shaped(t, Goes(t, s)[t], lock, active, cancelVersion)
        BY GoesShaped DEF Stages, Early
      <3> QED
        BY <1>3, <2>2, <3>1 DEF Shaped
    <2> QED
      BY <2>1, <2>2
  <1>10. SendsInv'
    <2>1. active' <= made'
      BY <1>1 DEF MInv, IInv, Typed
    <2>2. \A g \in Flows : send[g].at # "none" => g # t /\ thread'[g] = thread[g]
      BY <1>2, <1>4
    <2>3. \A g \in strays' : thread'[g].at \in {"mentions", "leaving", "done"}
      <3> TAKE g \in strays'
      <3>1. g \in Flows /\ thread[g].at \in {"mentions", "leaving", "done"}
        BY DEF MInv, SendsInv, MessageTypes
      <3>2. CASE g = t
        BY <1>3, <3>1, <3>2
      <3>3. CASE g # t
        BY <1>2, <3>1, <3>3
      <3> QED
        BY <3>2, <3>3
    <2> QED
      BY <2>1, <2>2, <2>3 DEF MInv, SendsInv
  <1>11. WayInv'
    BY <1>1, <1>7 DEF WayInv
  <1>12. OneBusy'
    BY <1>7 DEF MInv, OneBusy, Busy
  <1>13. \A u \in Flows : /\ thread'[u].at # "settling"
                          /\ ~(thread'[u].op = "resume" /\ thread'[u].at = "mentions")
    <2> SUFFICES ASSUME NEW u \in Flows, thread'[u].at = "settling"
                           \/ (thread'[u].op = "resume" /\ thread'[u].at = "mentions")
                 PROVE  FALSE
      OBVIOUS
    <2>1. u # t
      BY <1>3
    <2>2. Holds(thread[u]) /\ u \in Threads
      BY <1>2, <2>1 DEF Holds, Within
    <2> QED
      BY <2>1, <2>2, Holder DEF MInv
  <1>14. SettlingInv' /\ ResumeQuiet'
    BY <1>13 DEF SettlingInv, ResumeQuiet
  <1>15. AbortPending' /\ OverInv' /\ CancelsInv'
    BY <1>1 DEF AbortPending, OverInv, CancelsInv
  <1>16. WordsInv'
    <2>1. \A g \in Flows : thread'[g].carries = thread[g].carries
      BY <1>2, <1>3
    <2>2. \A w \in Flows : /\ Lost(w)' <=> Lost(w)
                           /\ Fresh(w)' => Fresh(w)
                           /\ Mentions(w)' => Mentions(w)
                           /\ Leaving(w)' => Leaving(w)
      <3>1. strays \subseteq Flows
        BY DEF MInv, MessageTypes
      <3>2. t \in Flows => (Fresh(t)' => Fresh(t))
        BY <1>3, <1>4 DEF Fresh, Early, Stages
      <3> QED
        BY <1>5, <1>6, <2>1, <3>1, <3>2 DEF Lost
    <2>3. \A w \in Flows : unsent' # w
      BY <1>1, ControlAssumption
    <2> QED
      BY <2>1, <2>2, <2>3 DEF MInv, WordsInv
  <1> QED
    BY <1>8, <1>9, <1>10, <1>11, <1>12, <1>14, <1>15, <1>16 DEF MInv

\* An idle session object is replaced: only strays are on their way.
LEMMA ReplaceMessages == ASSUME MInv, IInv', NEW t \in Threads, Replace(t) PROVE MInv'
  <1>1. /\ thread[t].at = "loading" /\ thread[t].op # "follow" /\ ~Running
        /\ thread' = Goes(t, "stopping") /\ EndActive
        /\ UNCHANGED <<session, made, cancelVersion, cancelling, outbound, send, handed, strays,
                       lock, hosted, turn>>
    BY DEF Replace, Replacers, Idle, Running, cancels, section
  <1>2. lock = t
    BY <1>1, Holder DEF MInv, Holds, Within
  <1>3. \A g \in Punctual : g # t => ~OnItsWay(g)
    BY <1>1 DEF MInv, WayInv
  <1> QED
    BY <1>1, <1>2, <1>3, SessionEnds

\* The session of a resumed conversation is ended: nothing was sent for it yet.
LEMMA ResumeFailsMessages == ASSUME MInv, IInv', NEW f \in Flows, ResumeFails(f) PROVE MInv'
  <1>1. /\ f \in Threads /\ Flows \subseteq Threads
        /\ thread[f].at = "mentions" /\ thread[f].op = "resume"
        /\ thread' = Goes(f, "leaving") /\ EndActive
        /\ UNCHANGED <<session, made, cancelVersion, cancelling, outbound, send, handed, strays,
                       lock, hosted, turn>>
    BY Names DEF ResumeFails, cancels, section
  <1>2. lock = f
    BY <1>1, Holder DEF MInv, Holds
  <1>3. \A g \in Punctual : g # f => ~OnItsWay(g)
    <2> SUFFICES ASSUME NEW g \in Punctual, g # f, OnItsWay(g) PROVE FALSE
      OBVIOUS
    <2>1. g \in Flows /\ g \in Threads
      BY <1>1 DEF Punctual
    <2>2. CASE Mentions(g)
      <3>1. lock = g
        BY <2>1, <2>2 DEF Mentions, MInv, ThreadShapes, Shaped
      <3> QED
        BY <1>2, <3>1
    <2>3. CASE Leaving(g) \/ send[g].at = "waiting"
      <3>1. send[g].at # "none" /\ send[g].of = active /\ ~send[g].joins
        BY <2>1, <2>3 DEF MInv, WayInv, Leaving, SendsInv
      <3> QED
        BY <1>1, <2>1, <3>1 DEF MInv, ResumeQuiet
    <2> QED
      BY <2>2, <2>3 DEF OnItsWay
  <1> QED
    BY <1>1, <1>2, <1>3, SessionEnds

\* A session object starts; whatever the host did for the one before it is gone.
LEMMA StartedMessages == ASSUME MInv, IInv', NEW t \in Threads, Started(t) PROVE MInv'
  <1> DEFINE r    == thread[t]
             new  == made + 1
             runs == IF r.op = "resume" THEN r.cv = cancelVersion ELSE r.auto
  <1>1. /\ r.at = "starting" /\ made < MaxSessions /\ r \in ThreadRecord
        /\ made' = new /\ active' = new /\ hosted' = new
        /\ session' = [session EXCEPT ![new] = [mode |-> r.mode, running |-> runs, version |-> 0]]
        /\ turn' = Nobody /\ held' = FALSE
        /\ thread' = [thread EXCEPT ![t].of = new,
                                    ![t].at = IF runs /\ ~(r.auto /\ r.bare) THEN "mentions"
                                              ELSE "leaving"]
        /\ IF r.auto /\ r.bare THEN Sent(t, new, 0, FALSE, Nobody) ELSE UNCHANGED sends
        /\ UNCHANGED <<cancelVersion, cancelling, lock>>
        /\ thread \in [Threads -> ThreadRecord] /\ session \in [Objects -> SessionRecord]
    BY DEF Started, cancels, section, MInv, IInv, Typed
  <1>2. runs \in BOOLEAN
    BY <1>1 DEF ThreadRecord
  <1>3. Shaped(t, r, lock, active, cancelVersion)
    BY DEF MInv, ThreadShapes
  <1>4. /\ lock = t /\ active = 0 /\ ~Running
    BY <1>1, Holder DEF MInv, Holds, Within, Counts, BetweenSessions, Running
  <1>5. /\ made \in Nat /\ new \in Objects /\ new # 0
        /\ session'[new] = [mode |-> r.mode, running |-> runs, version |-> 0]
        /\ \A o \in Objects : o <= made => session'[o] = session[o]
    <2>1. made \in Nat /\ new \in Objects /\ new # 0
      BY <1>1, ControlAssumption DEF MInv, IInv, Typed, Objects
    <2> QED
      BY <1>1, <2>1 DEF Objects
  <1>6. /\ thread'[t].at = (IF runs /\ ~(r.auto /\ r.bare) THEN "mentions" ELSE "leaving")
        /\ thread'[t].op = r.op /\ thread'[t].joins = r.joins /\ thread'[t].carries = r.carries
        /\ thread'[t].cv = r.cv /\ thread'[t].auto = r.auto /\ thread'[t].bare = r.bare
        /\ \A u \in Threads : u # t => thread'[u] = thread[u]
    BY <1>1 DEF ThreadRecord
  <1>7. /\ r.carries \in {t, Nobody} /\ r.cv <= cancelVersion /\ r.op # "follow"
        /\ r.auto => r.op = "switch" /\ ~r.joins /\ t \in Flows
        /\ r.auto /\ r.bare => r.carries = Nobody
        /\ runs => ~r.joins
    <2>1. t \in Flows \/ t = Reloader
      BY DEF Threads
    <2> QED
      BY <1>1, <1>3, <2>1 DEF Shaped, Early, Stages
  <1>8. Running' <=> runs
    BY <1>1, <1>2, <1>5 DEF Running
  <1> HIDE DEF runs, new
  <1>9. /\ Flows \subseteq Threads /\ (t \in Flows => send[t].at = "none" /\ t \notin strays)
        /\ send \in [Flows -> SendRecord] /\ outbound \in Seq(Flows)
    BY <1>1, Names DEF MInv, SendsInv, MessageTypes
  <1>10. /\ UNCHANGED <<handed, strays, unsent>>
         /\ \A g \in Flows : g # t => send'[g] = send[g]
         /\ ~(r.auto /\ r.bare) => UNCHANGED <<send, outbound>>
         /\ r.auto /\ r.bare =>
              /\ outbound' = Append(outbound, t)
              /\ send' = [send EXCEPT ![t] = [at |-> "outbound", of |-> new, version |-> 0,
                                              joins |-> FALSE, carries |-> Nobody,
                                              on |-> 0]]
              /\ send'[t] = [at |-> "outbound", of |-> new, version |-> 0, joins |-> FALSE,
                             carries |-> Nobody, on |-> 0]
    <2>1. CASE r.auto /\ r.bare
      <3>1. Sent(t, new, 0, FALSE, Nobody) /\ t \in Flows
        BY <1>1, <1>7, <2>1
      <3> QED
        BY <1>9, <2>1, <3>1 DEF Sent
    <2>2. CASE ~(r.auto /\ r.bare)
      BY <1>1, <2>2 DEF sends
    <2> QED
      BY <2>1, <2>2
  <1> HIDE DEF r
  <1>11. \A g \in Flows : g # t =>
           /\ OnItsWay(g)' <=> OnItsWay(g)
           /\ Mentions(g)' <=> Mentions(g)
           /\ Leaving(g)' <=> Leaving(g)
           /\ Fresh(g)' <=> Fresh(g)
           /\ send[g].at # "none" => (SendCancelled(g)' <=> SendCancelled(g))
    BY <1>1, <1>5, <1>6, <1>9, <1>10, Elsewhere
  <1>12. \A g \in Flows \ strays' : g # t => ~Busy(g)'
    <2> SUFFICES ASSUME NEW g \in Flows, g \notin strays', g # t PROVE ~Busy(g)'
      OBVIOUS
    <2>1. ~OnItsWay(g)
      BY <1>4, <1>10 DEF MInv, WayInv, Punctual
    <2> QED
      BY <1>1, <1>11, <2>1, Names DEF Busy
  <1>13. MessageTypes'
    <2>1. send' \in [Flows -> SendRecord] /\ outbound' \in Seq(Flows)
      <3>1. [at |-> "outbound", of |-> new, version |-> 0, joins |-> FALSE, carries |-> Nobody,
             on |-> 0] \in SendRecord
        BY <1>5, ControlAssumption DEF SendRecord, SendStages, Objects
      <3> QED
        BY <1>7, <1>9, <1>10, <3>1
    <2>2. hosted' \in Nat
      BY <1>1, <1>5 DEF Started, Typed, new
    <2> QED
      BY <1>1, <1>10, <2>1, <2>2 DEF MInv, MessageTypes
  <1>14. ThreadShapes'
    <2> SUFFICES ASSUME NEW u \in Threads
                 PROVE  Shaped(u, thread'[u], lock, new, cancelVersion)
      BY <1>1 DEF ThreadShapes
    <2>1. CASE u # t
      BY <1>4, <1>6, <2>1 DEF MInv, ThreadShapes, Shaped
    <2>2. CASE u = t
      BY <1>3, <1>4, <1>5, <1>6, <1>7, <2>2 DEF Shaped, Early, r
    <2> QED
      BY <2>1, <2>2
  <1> DEFINE Good(g) == /\ thread'[g].at \in {"leaving", "done"}
                        /\ send'[g].joins = thread'[g].joins /\ send'[g].carries = thread'[g].carries
                        /\ send'[g].of <= made'
                        /\ send'[g].of # 0 => send'[g].version <= session'[send'[g].of].version
  <1>15. \A g \in Flows : send'[g].at # "none" => Good(g)
    <2> SUFFICES ASSUME NEW g \in Flows, send'[g].at # "none" PROVE Good(g)
      OBVIOUS
    <2>1. CASE g # t
      <3>1. send[g].at # "none" /\ send'[g] = send[g] /\ thread'[g] = thread[g]
        BY <1>6, <1>9, <1>10, <2>1
      <3>2. send[g].of \in Nat /\ send[g].of <= made /\ (send[g].of # 0 => send[g].of \in Objects)
        BY <3>1, SentFor
      <3>3. send[g].of <= made'
        BY <1>1, <1>5, <3>2 DEF new
      <3>4. send[g].of # 0 => send[g].version <= session'[send[g].of].version
        <4>1. send[g].of # 0 => session'[send[g].of] = session[send[g].of]
          BY <1>5, <3>2
        <4> QED
          BY <3>1, <4>1, SentFor
      <3> QED
        BY <3>1, <3>3, <3>4 DEF MInv, SendsInv
    <2>2. CASE g = t
      <3>1. r.auto /\ r.bare
        BY <1>9, <1>10, <2>2
      <3>2. r.joins = FALSE /\ r.carries = Nobody
        BY <1>1, <1>7, <3>1 DEF ThreadRecord
      <3>3. send'[t] = [at |-> "outbound", of |-> new, version |-> 0, joins |-> FALSE,
                        carries |-> Nobody, on |-> 0]
        BY <1>10, <3>1
      <3>4. /\ send'[t].joins = FALSE /\ send'[t].carries = Nobody /\ send'[t].of = new
            /\ send'[t].version = 0
        BY <3>3
      <3>5. thread'[t].at = "leaving" /\ thread'[t].joins = FALSE /\ thread'[t].carries = Nobody
        BY <1>6, <3>1, <3>2
      <3>6. new <= made' /\ session'[new].version = 0
        BY <1>1, <1>5 DEF new
      <3>7. session'[send'[t].of].version = 0 /\ 0 <= 0
        BY <3>4, <3>6
      <3>8. /\ send'[t].joins = thread'[t].joins /\ send'[t].carries = thread'[t].carries
            /\ send'[t].of <= made'
            /\ send'[t].version <= session'[send'[t].of].version
        BY <3>4, <3>5, <3>6, <3>7
      <3> QED
        BY <2>2, <3>5, <3>8
    <2> QED
      BY <2>1, <2>2
  <1>16. /\ \A i \in DOMAIN outbound' : send'[outbound'[i]].at = "outbound"
         /\ \A i, j \in DOMAIN outbound' : outbound'[i] = outbound'[j] => i = j
    <2>1. CASE r.auto /\ r.bare
      <3>1. /\ DOMAIN outbound' = 1 .. Len(outbound) + 1
            /\ \A i \in DOMAIN outbound' :
                 outbound'[i] = IF i <= Len(outbound) THEN outbound[i] ELSE t
        BY <1>9, <1>10, <2>1
      <3>2. \A i \in DOMAIN outbound : outbound[i] \in Flows \ {t}
        BY <1>7, <1>9, <2>1 DEF MInv, SendsInv
      <3>3. send'[t].at = "outbound"
        BY <1>10, <2>1
      <3>4. \A i \in DOMAIN outbound : send'[outbound[i]].at = "outbound"
        BY <1>10, <3>2 DEF MInv, SendsInv
      <3>5. /\ DOMAIN outbound = 1 .. Len(outbound) /\ Len(outbound) \in Nat
            /\ \A i, j \in DOMAIN outbound : outbound[i] = outbound[j] => i = j
        BY <1>9 DEF MInv, SendsInv
      <3>6. \A i \in DOMAIN outbound' : send'[outbound'[i]].at = "outbound"
        BY <3>1, <3>3, <3>4, <3>5
      <3> QED
        BY <3>1, <3>2, <3>5, <3>6
    <2>2. CASE ~(r.auto /\ r.bare)
      BY <1>10, <2>2 DEF MInv, SendsInv
    <2> QED
      BY <2>1, <2>2
  <1>17. SendsInv'
    <2>1. \A g \in Flows : send'[g].at \in {"waiting", "turn"} => ~send'[g].joins
      BY <1>9, <1>10 DEF MInv, SendsInv
    <2>2. \A g \in strays' : thread'[g].at \in {"mentions", "leaving", "done"}
      BY <1>6, <1>9, <1>10 DEF MInv, SendsInv, MessageTypes
    <2>3. turn' \notin Flows /\ active' <= made' /\ made' \in Nat
      BY <1>1, <1>5, ControlAssumption DEF new
    <2> QED
      BY <1>1, <1>15, <1>16, <2>1, <2>2, <2>3 DEF SendsInv
  <1>18. t \in Flows =>
           /\ Mentions(t)' => runs /\ ~(r.auto /\ r.bare)
           /\ Leaving(t)' => r.auto /\ r.bare
           /\ OnItsWay(t)' => Mentions(t)' \/ Leaving(t)'
    BY <1>6, <1>9, <1>10 DEF OnItsWay, Mentions, Leaving
  <1>19. WayInv'
    <2> SUFFICES ASSUME NEW g \in Punctual'
                 PROVE  /\ OnItsWay(g)' => Running' /\ (send'[g].at # "none" => send'[g].of = active')
                        /\ turn' # g
      BY DEF WayInv
    <2>1. g \in Flows /\ g \notin strays'
      BY DEF Punctual
    <2>2. turn' # g
      BY <1>1, <2>1, ControlAssumption
    <2>3. CASE g # t
      BY <1>12, <2>1, <2>2, <2>3 DEF Busy
    <2>4. CASE g = t
      <3>1. r.auto => runs
        BY <1>7 DEF runs, r
      <3> QED
        BY <1>1, <1>8, <1>9, <1>10, <1>18, <2>1, <2>2, <2>4, <3>1
    <2> QED
      BY <2>3, <2>4
  <1>20. OneBusy'
    BY <1>12 DEF OneBusy, Punctual
  <1>21. SettlingInv'
    <2> SUFFICES ASSUME NEW u \in Flows, thread'[u].at = "settling" PROVE FALSE
      BY DEF SettlingInv
    <2>1. u # t
      BY <1>6
    <2> QED
      BY <1>4, <1>6, <1>9, <2>1, Holder DEF MInv, Holds, Within
  <1>22. AbortPending'
    BY <1>1 DEF AbortPending
  <1>23. ResumeQuiet'
    <2> SUFFICES ASSUME NEW u \in Flows, thread'[u].op = "resume", thread'[u].at = "mentions",
                        NEW g \in Flows, send'[g].at # "none", send'[g].of = active'
                 PROVE  FALSE
      BY DEF ResumeQuiet
    <2>1. u = t
      BY <1>4, <1>6, <1>9, Holder DEF MInv, Holds
    <2>2. ~(r.auto /\ r.bare) /\ send'[g] = send[g]
      BY <1>6, <1>7, <1>10, <2>1
    <2> QED
      BY <1>1, <1>5, <2>2, SentFor DEF new
  <1>24. OverInv'
    <2> SUFFICES ASSUME NEW g \in Punctual', NEW h \in Punctual', g # h,
                        send'[g].at \in Over, send'[h].at = "waiting"
                 PROVE  FALSE
      BY <1>1, Names DEF OverInv, Punctual
    <2>1. h \in Flows /\ h \notin strays'
      BY DEF Punctual
    <2>2. h = t
      BY <1>12, <2>1 DEF Busy, OnItsWay
    <2> QED
      BY <1>9, <1>10, <2>1, <2>2
  <1>25. WordsInv'
    <2>1. \A g \in Flows : thread'[g].carries = thread[g].carries
      BY <1>6, <1>9 DEF r
    <2>2. \A w \in Flows : Lost(w)' <=> Lost(w)
      BY <1>10, <2>1 DEF Lost, MInv, MessageTypes
    <2>3. t \in Flows => Fresh(t)
      BY <1>1 DEF Fresh, Early, Stages, r
    <2>4. \A w \in Flows : Fresh(w)' => Fresh(w)
      BY <1>11, <2>3
    <2>5. \A g, w \in Flows : thread'[g].carries = w /\ w \in handed /\ g = t
                                => ~Mentions(g)' /\ ~Leaving(g)'
      <3> SUFFICES ASSUME NEW w \in Flows, r.carries = w, w \in handed, t \in Flows
                   PROVE  ~Mentions(t)' /\ ~Leaving(t)'
        BY <1>6
      <3>1. r.carries = Nobody
        BY <1>7, <2>3 DEF MInv, WordsInv
      <3> QED
        BY <3>1, ControlAssumption
    <2>6. \A w \in Flows : Fresh(w)' => /\ w \notin handed' /\ unsent' # w
                                        /\ \A g \in Flows : g # w => thread'[g].carries # w
      BY <1>10, <2>1, <2>4 DEF MInv, WordsInv
    <2>7. \A w \in Flows : w \in handed' /\ ~Lost(w)' =>
            /\ unsent' # w
            /\ \A g \in Flows : thread'[g].carries = w => ~Mentions(g)' /\ ~Leaving(g)'
      BY <1>10, <1>11, <2>1, <2>2, <2>5 DEF MInv, WordsInv
    <2> QED
      BY <2>6, <2>7 DEF WordsInv
  <1>26. CancelsInv'
    <2> SUFFICES ASSUME NEW g \in Flows, send'[g].at = "outbound", thread'[g].op # "switch",
                        send'[g].of = active'
                 PROVE  FALSE
      BY DEF CancelsInv
    <2>1. send'[g] = send[g]
      BY <1>6, <1>7, <1>10
    <2> QED
      BY <1>1, <1>5, <2>1, SentFor DEF new
  <1> QED
    BY <1>13, <1>14, <1>17, <1>19, <1>20, <1>21, <1>22, <1>23, <1>24, <1>25, <1>26 DEF MInv

\* The user cancels: what was sent for the active session is called off, and what goes
\* on all the same is a stray.
LEMMA CancelMessages == ASSUME MInv, IInv', Cancel PROVE MInv'
  <1>1. /\ cancelVersion \in Nat /\ cancelVersion' = cancelVersion + 1
        /\ cancelling' = (cancelling \/ active # 0)
        /\ held' = (held \/ (active # 0 /\ hosted # 0))
        /\ session' = IF active = 0 THEN session
                      ELSE [session EXCEPT ![active].version = @ + 1, ![active].running = FALSE]
        /\ Drain(thread, Running /\ pending /\ lock = Nobody)
        /\ Astray("cancel")
        /\ UNCHANGED <<active, made, unsent, outbound, send, handed, hosted, turn>>
        /\ session \in [Objects -> SessionRecord] /\ thread \in [Threads -> ThreadRecord]
        /\ active # 0 => active \in Objects
    BY ControlAssumption DEF Cancel, MInv, IInv, Typed, Objects
  <1>2. \A o \in Objects : /\ session'[o].version \in Nat
                           /\ session[o].version <= session'[o].version
                           /\ o = active => session'[o].version = session[o].version + 1
                           /\ o # active => session'[o].version = session[o].version
    BY <1>1 DEF SessionRecord, Objects
  <1>3. /\ \A u \in Flows : u \in Threads /\ thread'[u] = thread[u]
        /\ \/ thread' = thread /\ lock' = lock
           \/ thread' = [thread EXCEPT ![Reloader] = Reload(active)] /\ lock = Nobody
    BY <1>1, Names, ControlAssumption DEF Drain
  <1>4. \A g \in Flows : thread[g].cv \in Nat /\ thread[g].cv <= cancelVersion
    BY <1>1, <1>3 DEF MInv, ThreadShapes, Shaped, ThreadRecord
  <1>5. \A g \in Flows : Mentions(g)' => Mentions(g) /\ thread[g].op = "switch"
    <2> SUFFICES ASSUME NEW g \in Flows, Mentions(g)'
                 PROVE  Mentions(g) /\ thread[g].op = "switch"
      OBVIOUS
    <2>1. thread[g].cv # cancelVersion + 1
      BY <1>1, <1>4
    <2> QED
      BY <1>1, <1>3, <2>1 DEF Mentions, Cancelled
  <1>6. \A g \in Flows : send[g].at # "none" =>
          /\ SendCancelled(g) => SendCancelled(g)'
          /\ send[g].of = active /\ active # 0 => SendCancelled(g)'
    <2> SUFFICES ASSUME NEW g \in Flows, send[g].at # "none", send[g].of # 0
                 PROVE  /\ SendCancelled(g) => SendCancelled(g)'
                        /\ send[g].of = active => SendCancelled(g)'
      BY DEF SendCancelled
    <2>1. send[g].of \in Objects /\ send[g].version <= session[send[g].of].version
      BY SentFor
    <2>2. send[g].version \in Nat /\ session[send[g].of].version \in Nat
      BY <1>1, <2>1 DEF MInv, MessageTypes, SendRecord, SessionRecord
    <2>3. send[g].of = active => session'[send[g].of].version # send[g].version
      BY <1>2, <2>1, <2>2
    <2>4. send[g].of # active => session'[send[g].of].version = session[send[g].of].version
      BY <1>2, <2>1
    <2> QED
      BY <1>1, <2>3, <2>4 DEF SendCancelled
  <1>7. \A g \in Flows : Leaving(g)' => Leaving(g) /\ (active # 0 => send[g].of # active)
    BY <1>1, <1>6 DEF Leaving
  <1>8. \A g \in Flows : OnItsWay(g)' => OnItsWay(g)
    BY <1>1, <1>5, <1>7 DEF OnItsWay
  <1>9. strays \subseteq strays' /\ strays' \subseteq Flows
    BY <1>1 DEF Astray, MInv, MessageTypes
  <1>10. \A g \in strays' : g \in strays \/ thread[g].at = "mentions" \/ send[g].at # "none"
    BY <1>1 DEF Astray
  <1>11. \A g \in Punctual' : g \in Flows /\ g \in Punctual
    BY <1>9 DEF Punctual
  <1>12. \A g \in Punctual' : ~OnItsWay(g)'
    <2> SUFFICES ASSUME NEW g \in Flows, g \notin strays', OnItsWay(g)' PROVE FALSE
      BY DEF Punctual
    <2>1. g \in Punctual /\ OnItsWay(g)
      BY <1>8, <1>9 DEF Punctual
    <2>2. Running /\ active # 0 /\ (send[g].at # "none" => send[g].of = active)
      BY <2>1 DEF MInv, WayInv, Running
    <2>3. ~Leaving(g)'
      BY <1>7, <2>2 DEF Leaving
    <2>4. Mentions(g)' => g \in strays'
      BY <1>1, <1>5, <2>2 DEF Astray, Mentions
    <2>5. send[g].at = "waiting" => g \in strays'
      BY <1>1, <2>2 DEF Astray
    <2> QED
      BY <1>1, <2>3, <2>4, <2>5 DEF OnItsWay
  <1>13. MessageTypes'
    BY <1>1, <1>9 DEF MInv, MessageTypes
  <1>14. ThreadShapes'
    <2> SUFFICES ASSUME NEW u \in Threads
                 PROVE  Shaped(u, thread'[u], lock', active, cancelVersion + 1)
      BY <1>1 DEF ThreadShapes
    <2>1. \/ thread'[u] = thread[u] /\ (lock = u => lock' = u)
          \/ thread'[u] = Reload(active) /\ u = Reloader
      BY <1>1, <1>3, Names
    <2>2. CASE thread'[u] = thread[u] /\ (lock = u => lock' = u)
      <3>1. Shaped(u, thread[u], lock, active, cancelVersion) /\ thread[u].cv \in Nat
        BY <1>1 DEF MInv, ThreadShapes, ThreadRecord
      <3>2. thread[u].cv <= cancelVersion + 1
        BY <1>1, <3>1 DEF Shaped
      <3> QED
        BY <2>2, <3>1, <3>2 DEF Shaped
    <2>3. CASE thread'[u] = Reload(active) /\ u = Reloader
      BY <1>1, <2>3 DEF Shaped, Reload, NoThread
    <2> QED
      BY <2>1, <2>2, <2>3
  <1>15. SendsInv'
    <2>1. \A g \in Flows : send'[g].at # "none" /\ send'[g].of # 0
                             => send'[g].version <= session'[send'[g].of].version
      <3> SUFFICES ASSUME NEW g \in Flows, send[g].at # "none", send[g].of # 0
                   PROVE  send[g].version <= session'[send[g].of].version
        BY <1>1
      <3>1. send[g].of \in Objects /\ send[g].version <= session[send[g].of].version
        BY SentFor
      <3>2. send[g].version \in Nat /\ session[send[g].of].version \in Nat
        BY <1>1, <3>1 DEF MInv, MessageTypes, SendRecord, SessionRecord
      <3> QED
        BY <1>2, <3>1, <3>2
    <2>2. \A g \in strays' : thread'[g].at \in {"mentions", "leaving", "done"}
      BY <1>3, <1>9, <1>10 DEF MInv, SendsInv
    <2> QED
      BY <1>1, <1>3, <2>1, <2>2 DEF MInv, SendsInv
  <1>16. WayInv'
    <2> SUFFICES ASSUME NEW g \in Punctual', turn' = g, active' # 0, ~held' PROVE FALSE
      BY <1>12 DEF WayInv
    <2>1. turn = g /\ g # Nobody /\ active # 0
      BY <1>1, <1>11, Names
    <2>2. hosted # 0
      BY <2>1 DEF MInv, SendsInv
    <2> QED
      BY <1>1, <2>1, <2>2
  <1>17. OneBusy'
    BY <1>1, <1>12 DEF OneBusy, Busy
  <1>18. SettlingInv'
    BY <1>1, <1>3, <1>11, <1>12 DEF MInv, SettlingInv
  <1>19. AbortPending'
    BY <1>1 DEF AbortPending
  <1>20. ResumeQuiet'
    BY <1>1, <1>3 DEF MInv, ResumeQuiet
  <1>21. OverInv'
    <2>1. \A g \in Flows : send'[g].at \in Over /\ send'[g].of = active' /\ active' # 0
                             => SendCancelled(g)'
      BY <1>1, <1>6 DEF Over
    <2> QED
      BY <1>11, <2>1 DEF OverInv
  <1>22. WordsInv'
    <2>1. \A w \in Flows : (Lost(w) => Lost(w)') /\ (Fresh(w)' <=> Fresh(w))
      BY <1>1, <1>3, <1>9 DEF Lost, Fresh, MInv, MessageTypes
    <2> QED
      BY <1>1, <1>3, <1>5, <1>7, <2>1 DEF MInv, WordsInv
  <1>23. CancelsInv'
    <2> SUFFICES ASSUME NEW g \in Flows, send'[g].at = "outbound", active' # 0,
                        send'[g].of = active', send'[g].version = session'[active'].version
                 PROVE  FALSE
      BY DEF CancelsInv
    <2>1. SendCancelled(g)'
      BY <1>1, <1>6
    <2> QED
      BY <2>1 DEF SendCancelled
  <1> QED
    BY <1>13, <1>14, <1>15, <1>16, <1>17, <1>18, <1>19, <1>20, <1>21, <1>22, <1>23 DEF MInv

-----------------------------------------------------------------------------
\* The initial states.
LEMMA InitMessages == Init => MInv
  <1> SUFFICES ASSUME Init PROVE MInv
    OBVIOUS
  <1>1. IInv
    BY InitInv
  <1>2. /\ \A t \in Threads : thread[t] = NoThread
        /\ \A f \in Flows : send[f] = NoSend
        /\ Flows \subseteq Threads
        /\ strays = {} /\ outbound = <<>> /\ handed = {} /\ unsent = Nobody
        /\ turn = Nobody /\ held = FALSE /\ cancelling = FALSE /\ cancelVersion = 0
        /\ active = made /\ hosted = made /\ made \in Nat
    BY Names DEF Init
  <1>3. \A f \in Flows : send[f].at = "none" /\ thread[f].at = "new" /\ thread[f].carries = Nobody
    <2>1. NoThread.at = "new" /\ NoThread.carries = Nobody /\ NoSend.at = "none"
      BY DEF NoThread, NoSend
    <2> QED
      BY <1>2, <2>1
  <1>4. MessageTypes
    <2>1. NoSend \in SendRecord
      BY DEF NoSend, SendRecord, SendStages
    <2>2. send \in [Flows -> SendRecord]
      BY <2>1 DEF Init
    <2>3. outbound \in Seq(Flows)
      BY <1>2
    <2> QED
      BY <1>2, <2>2, <2>3 DEF MessageTypes
  <1>5. ThreadShapes
    BY <1>2 DEF ThreadShapes, Shaped, NoThread
  <1>6. SendsInv
    BY <1>2, <1>3, Names DEF SendsInv, Threads
  <1>7. \A f \in Flows : ~OnItsWay(f) /\ ~Busy(f)
    BY <1>2, <1>3, Names DEF OnItsWay, Busy, Mentions, Leaving, Threads
  <1>8. WayInv /\ OneBusy /\ SettlingInv /\ AbortPending /\ ResumeQuiet
    BY <1>2, <1>3, <1>7 DEF WayInv, OneBusy, SettlingInv, AbortPending, ResumeQuiet, Punctual, Busy
  <1>9. OverInv /\ CancelsInv
    BY <1>3 DEF OverInv, CancelsInv, Punctual, Over
  <1>10. WordsInv
    BY <1>2, <1>3, Names DEF WordsInv
  <1> QED
    BY <1>1, <1>4, <1>5, <1>6, <1>8, <1>9, <1>10 DEF MInv

\* Every step keeps the messages in order.
LEMMA StepMessages == MInv /\ [Next]_vars => MInv'
  <1> SUFFICES ASSUME MInv, [Next]_vars PROVE MInv'
    OBVIOUS
  <1>1. IInv'
    BY StepInv DEF MInv
  <1>2. CASE UNCHANGED vars
    BY <1>1, <1>2, HostMessages
  <1>3. ASSUME NEW f \in Flows,
               \/ \E m \in Modes, auto, bare \in BOOLEAN : Switch(f, m, auto, bare)
               \/ \E bare \in BOOLEAN : Follow(f, bare)
               \/ EnterSwitch(f) \/ AbortForSwitch(f) \/ Aborted(f)
               \/ Waited(f) \/ EnterFollow(f) \/ Settled(f) \/ Prepared(f) \/ PrepareFails(f)
               \/ TextReady(f) \/ TextCancelled(f) \/ ResumeFails(f)
               \/ HostResumes(f) \/ SendSettles(f)
        PROVE  MInv'
    <2>1. f \in Threads
      BY Names
    <2>2. CASE \E m \in Modes, auto, bare \in BOOLEAN : Switch(f, m, auto, bare)
      BY <1>1, <2>2, SwitchMessages
    <2>3. CASE \E bare \in BOOLEAN : Follow(f, bare)
      BY <1>1, <2>3, FollowMessages
    <2>4. CASE EnterSwitch(f) \/ AbortForSwitch(f) \/ Aborted(f)
      BY <1>1, <2>4, EnterSwitchMessages, AbortForSwitchMessages, AbortedMessages
    <2>5. CASE Waited(f) \/ PrepareFails(f)
      BY <1>1, <2>1, <2>5, GoesOn
    <2>6. CASE EnterFollow(f) \/ Settled(f) \/ Prepared(f)
      BY <1>1, <2>6, EnterFollowMessages, SettledMessages, PreparedMessages
    <2>7. CASE TextReady(f) \/ TextCancelled(f) \/ ResumeFails(f)
      BY <1>1, <2>7, TextReadyMessages, TextCancelledMessages, ResumeFailsMessages
    <2>8. CASE HostResumes(f) \/ SendSettles(f)
      BY <1>1, <2>8, HostResumesMessages, SendSettlesMessages
    <2> QED
      BY <1>3, <2>2, <2>3, <2>4, <2>5, <2>6, <2>7, <2>8
  <1>4. ASSUME NEW t \in Threads,
               \/ LoadFails(t) \/ Refused(t) \/ Replace(t) \/ Stopped(t) \/ Started(t)
               \/ StartFails(t) \/ Leave(t)
        PROVE  MInv'
    <2>1. CASE LoadFails(t) \/ Refused(t) \/ Stopped(t) \/ StartFails(t)
      BY <1>1, <2>1, GoesOn
    <2>2. CASE Replace(t) \/ Started(t) \/ Leave(t)
      BY <1>1, <2>2, ReplaceMessages, StartedMessages, LeaveMessages
    <2> QED
      BY <1>4, <2>1, <2>2
  <1>5. CASE TurnEnds \/ TurnFails
    <2>1. PICK outcome \in Over : TurnOver(outcome) /\ hosted' \in {hosted, 0} /\ held' \in BOOLEAN
      BY <1>5 DEF TurnEnds, TurnFails, Over, MInv, MessageTypes
    <2> QED
      BY <1>1, <2>1, TurnOverMessages
  <1>6. CASE NewTools \/ SendLeaves \/ Cancel
    BY <1>1, <1>6, NewToolsMessages, SendLeavesMessages, CancelMessages
  <1>7. CASE DrainQueue \/ CancelDone
    BY <1>1, <1>7, HostMessages
  <1>8. CASE \E o \in Objects : StopDone(o)
    BY <1>1, <1>8, StopDoneMessages
  <1> QED
    BY <1>2, <1>3, <1>4, <1>5, <1>6, <1>7, <1>8 DEF Next, Quiet

\* The messages on their way to the host are in order in every state.
THEOREM MessagesInOrder == Spec => []MInv
  <1> QED
    BY InitMessages, StepMessages, PTL DEF Spec

-----------------------------------------------------------------------------
\* A send is settled, or leaves the chain, in two ways only.
LEMMA SendMoves ==
  ASSUME MInv, Next, NEW f \in Flows, send'[f].at # send[f].at,
         send'[f].at = "settled" \/ send[f].at = "outbound"
  PROVE  SendLeaves \/ SendSettles(f)
  <1>1. send \in [Flows -> SendRecord] /\ send' # send
    BY DEF MInv, MessageTypes
  <1>2. ASSUME NEW g \in Flows,
               \/ \E m \in Modes, auto, bare \in BOOLEAN : Switch(g, m, auto, bare)
               \/ \E bare \in BOOLEAN : Follow(g, bare)
               \/ EnterSwitch(g) \/ AbortForSwitch(g) \/ Aborted(g)
               \/ Waited(g) \/ EnterFollow(g) \/ Settled(g) \/ Prepared(g) \/ PrepareFails(g)
               \/ TextCancelled(g) \/ ResumeFails(g)
        PROVE  FALSE
    BY <1>1, <1>2 DEF Switch, Follow, EnterSwitch, AbortForSwitch, Aborted, Waited, EnterFollow,
         Settled, Prepared, PrepareFails, TextCancelled, ResumeFails, sends
  <1>3. ASSUME NEW t \in Threads,
               LoadFails(t) \/ Refused(t) \/ Replace(t) \/ Stopped(t) \/ StartFails(t) \/ Leave(t)
        PROVE  FALSE
    BY <1>1, <1>3 DEF LoadFails, Refused, Replace, Stopped, StartFails, Leave, sends
  <1>4. CASE NewTools \/ DrainQueue \/ Cancel \/ CancelDone \/ (Quiet /\ UNCHANGED vars)
    BY <1>1, <1>4 DEF NewTools, DrainQueue, Cancel, CancelDone, vars, sends
  <1>5. ASSUME NEW t \in Flows, NEW o, NEW v, NEW joins, NEW carries, Sent(t, o, v, joins, carries),
               thread[t].at \in {"mentions", "starting"}
        PROVE  FALSE
    <2>1. send[t].at = "none"
      BY <1>5 DEF MInv, SendsInv
    <2>2. send'[t].at = "outbound" /\ \A g \in Flows : g # t => send'[g] = send[g]
      BY <1>1, <1>5 DEF Sent
    <2> QED
      BY <2>1, <2>2
  <1>6. ASSUME NEW g \in Flows, TextReady(g) PROVE FALSE
    BY <1>5, <1>6 DEF TextReady, Submit
  <1>7. ASSUME NEW t \in Threads, Started(t) PROVE FALSE
    <2>1. thread[t].at = "starting" /\ thread[t].auto
            /\ Sent(t, made + 1, 0, FALSE, Nobody)
      BY <1>1, <1>7 DEF Started, sends
    <2>2. t \in Flows
      <3>1. Shaped(t, thread[t], lock, active, cancelVersion)
        BY DEF MInv, ThreadShapes
      <3> QED
        BY <2>1, <3>1 DEF Shaped, Threads
    <2> QED
      BY <1>5, <2>1, <2>2
  <1>8. ASSUME NEW g \in Flows, HostResumes(g) PROVE FALSE
    <2>1. /\ send[g].at = "waiting"
          /\ Answered(g) \/ send' = [send EXCEPT ![g].at = "ended"]
      BY <1>8 DEF HostResumes
    <2>2. PICK a \in {"failed", "turn", "waiting", "ended"} : MovesTo(g, a)
      BY <2>1, AnsweredAt, Moves DEF SendStages
    <2>3. send'[g].at = a /\ \A h \in Flows : h # g => send'[h] = send[h]
      BY <2>2 DEF MovesTo
    <2> QED
      BY <2>1, <2>2, <2>3
  <1>9. ASSUME NEW outcome \in Over,
               send' = IF turn \in Flows THEN [send EXCEPT ![turn].at = outcome] ELSE send
        PROVE  FALSE
    <2>1. turn \in Flows /\ send[turn].at = "turn"
      BY <1>1, <1>9 DEF MInv, SendsInv
    <2>2. send'[turn].at = outcome /\ \A h \in Flows : h # turn => send'[h] = send[h]
      BY <1>1, <1>9, <2>1 DEF SendRecord
    <2> QED
      BY <2>1, <2>2 DEF Over
  <1>10. ASSUME TurnEnds \/ TurnFails \/ \E o \in Objects : StopDone(o) PROVE FALSE
    BY <1>9, <1>10 DEF TurnEnds, TurnFails, TurnOver, StopDone, Over
  <1>11. ASSUME NEW g \in Flows, SendSettles(g), g # f PROVE FALSE
    BY <1>1, <1>11 DEF SendSettles
  <1> QED
    BY <1>2, <1>3, <1>4, <1>6, <1>7, <1>8, <1>10, <1>11 DEF Next

\* The send that leaves the chain without being called off is the first one.
LEMMA SendGiven ==
  ASSUME MInv, SendLeaves, NEW f \in Flows, send[f].at = "outbound",
         send'[f].at \notin {"outbound", "settled"}
  PROVE  ~SendCancelled(f)
  <1> DEFINE h == Head(outbound)
  <1>1. h \in Flows /\ send[h].at = "outbound" /\ send[h].joins \in BOOLEAN
    <2>1. outbound # <<>> /\ outbound \in Seq(Flows)
      BY DEF SendLeaves, MInv, MessageTypes
    <2>2. h = outbound[1] /\ 1 \in DOMAIN outbound /\ h \in Flows
      BY <2>1
    <2> QED
      BY <2>2 DEF MInv, SendsInv, MessageTypes, SendRecord
  <1>2. IF SendCancelled(h)
        THEN /\ send' = [send EXCEPT ![h].at = "settled"]
             /\ UNCHANGED <<unsent, handed, turn, queue, held>>
        ELSE /\ unsent' = IF send[h].joins THEN unsent ELSE Nobody
             /\ Given(h)
             /\ IF send[h].joins THEN Joined(h) ELSE Answered(h)
    BY DEF SendLeaves
  <1> HIDE DEF h
  <1>3. PICK a : MovesTo(h, a)
    BY <1>1, <1>2, LeftAt
  <1>4. send \in [Flows -> SendRecord]
    BY DEF MInv, MessageTypes
  <1>5. f = h
    BY <1>3 DEF MovesTo
  <1>6. ~SendCancelled(h)
    <2> SUFFICES ASSUME SendCancelled(h) PROVE FALSE
      OBVIOUS
    <2>1. send' = [send EXCEPT ![h].at = "settled"]
      BY <1>2
    <2>2. send'[h].at = "settled"
      BY <1>1, <1>4, <2>1 DEF SendRecord
    <2> QED
      BY <1>5, <2>2
  <1> QED
    BY <1>5, <1>6

\* A send that settles marks no session idle in which another message has its turn,
\* strays apart (fireAndForgetSend, isSuperseded).
THEOREM SettlesSpareOthers == Spec => SettleSparesOthers
  <1> DEFINE A == \A f \in Flows :
         send'[f].at = "settled" /\ send[f].at # "settled" /\ Running
             /\ active' # 0 /\ ~session'[active'].running
             /\ turn \in Flows \ {f} /\ send[turn].of = active
         => {f, turn} \cap strays # {}
  <1>1. MInv /\ [Next]_vars => [A]_vars
    <2> SUFFICES ASSUME MInv, Next, NEW f \in Flows,
                        send'[f].at = "settled", send[f].at # "settled", Running,
                        active' # 0, ~session'[active'].running,
                        turn \in Flows \ {f}, send[turn].of = active,
                        f \notin strays, turn \notin strays
                 PROVE  FALSE
      BY DEF vars
    <2>1. CASE SendLeaves
      BY <2>1 DEF SendLeaves, objects, Running
    <2>2. CASE SendSettles(f)
      <3>1. send[f].at \in Over /\ active' = active
        BY <2>2 DEF SendSettles
      <3>2. session' # session
        BY <3>1 DEF Running
      <3>3. ~Superseded(f)
        BY <2>2, <3>2 DEF SendSettles
      <3>4. hosted = 0
        BY <3>1, <3>3 DEF MInv, OverInv, Superseded, Punctual, Running
      <3> QED
        BY <3>4, ControlAssumption DEF MInv, SendsInv
    <2> QED
      BY <2>1, <2>2, SendMoves
  <1> QED
    BY <1>1, MessagesInOrder, PTL DEF Spec, SettleSparesOthers

\* What was sent before a cancel for the session that was cancelled stays home, but for
\* the plan that is executed (cancelActiveTurn, wasCancelled).
THEOREM CancelledAreNotSent == Spec => CancelledStaysHome
  <1> DEFINE A == \A f \in Flows :
         send[f].at = "outbound" /\ send'[f].at \notin {"outbound", "settled"}
             /\ thread[f].op # "switch" /\ active # 0 /\ send[f].of = active
         => ~Cancelled(f)
  <1>1. MInv /\ [Next]_vars => [A]_vars
    <2> SUFFICES ASSUME MInv, Next, NEW f \in Flows,
                        send[f].at = "outbound", send'[f].at \notin {"outbound", "settled"},
                        thread[f].op # "switch", active # 0, send[f].of = active
                 PROVE  ~Cancelled(f)
      BY DEF vars
    <2>1. SendLeaves
      BY SendMoves DEF SendSettles, Over
    <2>2. ~SendCancelled(f)
      BY <2>1, SendGiven
    <2> QED
      BY <2>2 DEF MInv, CancelsInv, SendCancelled
  <1> QED
    BY <1>1, MessagesInOrder, PTL DEF Spec, CancelledStaysHome

\* The words of a message are handed to the host at most once, unless a message that
\* carried them is a stray (unsentRequests; "A bare Resume must deliver it once").
THEOREM WordsHandedOnce == Spec => HandedOnce
  <1> DEFINE A == \A f \in Flows :
         send[f].at = "outbound" /\ send'[f].at \notin {"outbound", "settled"}
             /\ send[f].carries \in handed
         => \E g \in strays : thread[g].carries = send[f].carries
  <1>1. MInv /\ [Next]_vars => [A]_vars
    <2> SUFFICES ASSUME MInv, Next, NEW f \in Flows,
                        send[f].at = "outbound", send'[f].at \notin {"outbound", "settled"},
                        send[f].carries \in handed, ~Lost(send[f].carries)
                 PROVE  FALSE
      BY DEF vars, Lost
    <2>1. ~SendCancelled(f)
      BY SendMoves, SendGiven DEF SendSettles, Over
    <2>2. send[f].carries \in Flows /\ thread[f].carries = send[f].carries
          /\ thread[f].joins = send[f].joins
      BY DEF MInv, MessageTypes, SendsInv
    <2>3. CASE send[f].joins
      <3>1. send[f].carries = f
        <4>1. thread[f].joins /\ f \in Threads /\ send[f].carries # Nobody
          BY <2>2, <2>3, Names
        <4>2. Shaped(f, thread[f], lock, active, cancelVersion)
          BY <4>1 DEF MInv, ThreadShapes
        <4> QED
          BY <2>2, <4>1, <4>2 DEF Shaped
      <3> QED
        BY <2>2, <2>3, <3>1 DEF MInv, WordsInv, Fresh
    <2>4. CASE ~send[f].joins
      BY <2>1, <2>2, <2>4 DEF MInv, WordsInv, Leaving
    <2> QED
      BY <2>3, <2>4
  <1> QED
    BY <1>1, MessagesInOrder, PTL DEF Spec, HandedOnce
=============================================================================
