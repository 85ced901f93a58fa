----------------------------- MODULE OAuthRefresh -----------------------------
(***************************************************************************)
(* How the sessions of several processes share one provider's OAuth        *)
(* credentials.  RuntimeOAuthTokenManager.resolveProviderApiKey joins the  *)
(* resolution in flight of its manager or starts one, which takes the lock *)
(* that all managers and processes share (withOAuthRefreshLock), reads the *)
(* settings file, refreshes when the token is about to expire or the       *)
(* caller was refused with it, and saves the rotated credentials unless    *)
(* somebody replaced them meanwhile.                                       *)
(*                                                                         *)
(* Credentials are numbered in the order they are issued, 0 stands for     *)
(* "signed out".  A refresh token is good for one refresh.  JavaScript of  *)
(* one process runs to its next await: "turn" says which manager of a      *)
(* process, if any, is in the middle of such a stretch, and other          *)
(* processes may read or write the settings file between its steps.        *)
(***************************************************************************)
EXTENDS Integers

CONSTANTS
    Processes,      \* processes that share the settings file
    Managers,       \* their RuntimeOAuthTokenManagers
    ProcessOf,      \* the process of a manager
    Calls,          \* calls of resolveProviderApiKey, each made once
    ManagerOf,      \* the manager a call goes to
    UserProcesses,  \* processes in which the user signs in and out
    MayDie,         \* processes that may die at any point
    MaxIssued       \* bound: credentials issued in a behaviour

ASSUME OAuthAssumption ==
    /\ ProcessOf \in [Managers -> Processes]
    /\ ManagerOf \in [Calls -> Managers]
    /\ UserProcesses \subseteq Processes
    /\ MayDie \subseteq Processes
    /\ MaxIssued \in Nat \ {0}

Free == "free"
ASSUME FreeAssumption == Free \notin Managers

VARIABLES
    stored,     \* the credentials in the settings file
    issued,     \* the newest credentials there are
    expired,    \* credentials within the refresh buffer of their expiry
    spent,      \* credentials whose refresh token the server has taken
    lost,       \* spent ones whose successor never reached the settings file
    reused,     \* credentials whose refresh token was presented when spent
    lock,       \* the manager that holds the lock, or Free
    turn,       \* the manager in a synchronous stretch, per process, or Free
    flight,     \* the resolution in flight, per manager
    call        \* the callers

server == <<issued, expired, spent, lost, reused>>
vars == <<stored, server, lock, turn, flight, call>>

Credentials == 0 .. MaxIssued
Outcomes    == {"token", "null", "reauth", "error"}
Stages      == {"idle", "begin", "polling", "entered", "asking", "replied", "rejected", "saving"}

\* The types, and that a manager past the lock's entry holds the lock.
TypeOK ==
    /\ stored \in Credentials
    /\ issued \in Credentials
    /\ expired \subseteq Credentials /\ spent \subseteq Credentials
    /\ lost \subseteq spent /\ reused \subseteq spent
    /\ lock \in Managers \cup {Free}
    /\ turn \in [Processes -> Managers \cup {Free}]
    /\ flight \in [Managers -> [stage : Stages, force : BOOLEAN,
            original : Credentials, settings : Credentials, next : Credentials]]
    /\ call \in [Calls -> [state : {"idle", "waiting"} \cup Outcomes, force : BOOLEAN,
            at : Credentials, seen : SUBSET Credentials, token : Credentials, asked : BOOLEAN]]
    /\ \A m \in Managers :
            lock = m <=> flight[m].stage \notin {"idle", "begin", "polling"}

NoFlight == [stage |-> "idle", force |-> FALSE, original |-> 0, settings |-> 0, next |-> 0]
NoCall   == [state |-> "idle", force |-> FALSE, at |-> 0, seen |-> {}, token |-> 0, asked |-> FALSE]

\* A user signed in once; nobody resolves anything yet.
Init ==
    /\ stored = 1 /\ issued = 1
    /\ expired = {} /\ spent = {} /\ lost = {} /\ reused = {}
    /\ lock = Free
    /\ turn = [p \in Processes |-> Free]
    /\ flight = [m \in Managers |-> NoFlight]
    /\ call = [c \in Calls |-> NoCall]

-----------------------------------------------------------------------------

Runs(m)  == turn[ProcessOf[m]] = m
Idle(p)  == turn[p] = Free
Stage(m, s) == flight' = [flight EXCEPT ![m].stage = s]
TakeTurn(m)  == turn' = [turn EXCEPT ![ProcessOf[m]] = m]
LeaveTurn(m) == turn' = [turn EXCEPT ![ProcessOf[m]] = Free]

WaitingOn(m) == {c \in Calls : ManagerOf[c] = m /\ call[c].state = "waiting"}

\* What a write of credentials n leaves the waiting callers with.
Witnessed(n) == [c \in Calls |->
    IF call[c].state = "waiting" THEN [call[c] EXCEPT !.seen = @ \cup {n}] ELSE call[c]]

\* The shared promise settles: everyone who joined it has the same answer.
\* What a call witnessed is of interest only with a token in its hand.
Answered(calls, m, outcome, n) == [c \in Calls |->
    IF c \notin WaitingOn(m) THEN calls[c]
    ELSE IF outcome = "token" THEN [calls[c] EXCEPT !.state = "token", !.token = n]
    ELSE [NoCall EXCEPT !.state = outcome]]

\* Mutant: the lock is given back when the resolution succeeds only.
Finish_OnSuccessOnly(m, outcome, n) ==
    /\ flight' = [flight EXCEPT ![m] = IF outcome \in {"token", "null"} \/ lock # m
                                         THEN NoFlight ELSE [@ EXCEPT !.stage = "rejected"]]
    /\ lock' = IF lock = m /\ outcome \in {"token", "null"} THEN Free ELSE lock
    /\ call' = Answered(Witnessed(stored'), m, outcome, n)
    /\ LeaveTurn(m)

\* The resolution ends: ROLLBACK gives the lock back, the entry of
\* refreshInFlight goes, the promise settles.
Finish(m, outcome, n) ==
    /\ flight' = [flight EXCEPT ![m] = NoFlight]
    /\ lock' = IF lock = m THEN Free ELSE lock
    /\ call' = Answered(Witnessed(stored'), m, outcome, n)
    /\ LeaveTurn(m)

-----------------------------------------------------------------------------
(* resolveProviderApiKey and the lock                                      *)

\* A resolution of the manager is in flight: the caller shares its promise,
\* forced or not, and the request that may be under way.
Join(c, force) ==
    LET m == ManagerOf[c] IN
    /\ call[c].state = "idle" /\ Idle(ProcessOf[m])
    /\ flight[m].stage # "idle"
    /\ call' = [call EXCEPT ![c] = [NoCall EXCEPT !.state = "waiting", !.force = force,
                            !.at = stored, !.seen = {stored},
                            !.asked = flight[m].stage \in {"asking", "replied", "rejected"}]]
    /\ UNCHANGED <<stored, server, lock, turn, flight>>

\* No credentials: nothing to resolve.
NothingToResolve(c) ==
    LET m == ManagerOf[c] IN
    /\ call[c].state = "idle" /\ Idle(ProcessOf[m])
    /\ flight[m].stage = "idle" /\ stored = 0
    /\ call' = [call EXCEPT ![c] = [NoCall EXCEPT !.state = "null"]]
    /\ UNCHANGED <<stored, server, lock, turn, flight>>

Begin(c, force) ==
    LET m == ManagerOf[c] IN
    /\ call[c].state = "idle" /\ Idle(ProcessOf[m])
    /\ flight[m].stage = "idle" /\ stored # 0
    /\ flight' = [flight EXCEPT ![m] =
            [NoFlight EXCEPT !.stage = "begin", !.force = force, !.original = stored]]
    /\ call' = [call EXCEPT ![c] = [NoCall EXCEPT !.state = "waiting", !.force = force,
                                        !.at = stored, !.seen = {stored}]]
    /\ TakeTurn(m)
    /\ UNCHANGED <<stored, server, lock>>

\* The first try belongs to the caller's stretch, the later ones to a timer.
MayTry(m) ==
    \/ flight[m].stage = "begin" /\ Runs(m)
    \/ flight[m].stage = "polling" /\ Idle(ProcessOf[m])

\* Mutant: the lock is one of the process, not of the machine.
Locked_SameProcess(m) == lock # Free /\ ProcessOf[lock] = ProcessOf[m]

Locked(m) == lock # Free

\* Whether the token is still the one the caller found: another holder may
\* have rotated it while this one waited.
\* Mutant: it is not compared.
StillForced_Always(m) == flight[m].force
StillForced(m) == flight[m].force /\ flight[m].original = stored

\* BEGIN EXCLUSIVE succeeds; the file is compared with what the caller found.
Enter(m) ==
    /\ MayTry(m) /\ ~Locked(m)
    /\ lock' = m
    /\ flight' = [flight EXCEPT ![m].stage = "entered", ![m].force = StillForced(m)]
    /\ TakeTurn(m)
    /\ UNCHANGED <<stored, server, call>>

\* SQLITE_BUSY: try again in 25 ms.
Busy(m) ==
    /\ flight[m].stage = "begin" /\ Runs(m) /\ Locked(m)
    /\ Stage(m, "polling")
    /\ LeaveTurn(m)
    /\ UNCHANGED <<stored, server, lock, call>>

\* Busy for a minute: the resolution fails.
GiveUp(m) ==
    /\ flight[m].stage = "polling" /\ Idle(ProcessOf[m]) /\ Locked(m)
    /\ UNCHANGED <<stored, server>>
    /\ Finish(m, "error", 0)

-----------------------------------------------------------------------------
(* resolveProviderApiKeyInternal, under the lock                           *)

SignedOutMeanwhile(m) ==
    /\ flight[m].stage = "entered" /\ Runs(m)
    /\ stored = 0
    /\ UNCHANGED <<stored, server>>
    /\ Finish(m, "null", 0)

\* The file is read again; a token with time left is good, unless the caller
\* was refused with it.  The handler answers in a microtask, so the stretch
\* goes on.
StillGood(m) ==
    /\ flight[m].stage = "entered" /\ Runs(m)
    /\ stored # 0 /\ ~flight[m].force /\ stored \notin expired
    /\ flight' = [flight EXCEPT ![m].stage = "replied", ![m].settings = stored, ![m].next = stored]
    /\ UNCHANGED <<stored, server, lock, turn, call>>

AskServer(m) ==
    /\ flight[m].stage = "entered" /\ Runs(m)
    /\ stored # 0 /\ (flight[m].force \/ stored \in expired)
    /\ flight' = [flight EXCEPT ![m].stage = "asking", ![m].settings = stored]
    /\ call' = [c \in Calls |-> IF c \in WaitingOn(m) /\ call[c].at = stored
                                  THEN [call[c] EXCEPT !.asked = TRUE] ELSE call[c]]
    /\ LeaveTurn(m)
    /\ UNCHANGED <<stored, server, lock>>

Presented(m) ==
    /\ spent' = spent \cup {flight[m].settings}
    /\ reused' = IF flight[m].settings \in spent THEN reused \cup {flight[m].settings} ELSE reused

\* The server exchanges the refresh token for new credentials.
Rotate(m) ==
    /\ flight[m].stage = "asking" /\ flight[m].settings \notin spent
    /\ issued < MaxIssued
    /\ issued' = issued + 1
    /\ Presented(m)
    /\ flight' = [flight EXCEPT ![m].stage = "replied", ![m].next = issued + 1]
    /\ UNCHANGED <<stored, expired, lost, lock, turn, call>>

\* A spent refresh token is an invalid grant.
Refuse(m) ==
    /\ flight[m].stage = "asking" /\ flight[m].settings \in spent
    /\ Presented(m)
    /\ Stage(m, "rejected")
    /\ UNCHANGED <<stored, issued, expired, lost, lock, turn, call>>

\* The request or its answer is lost, or the answer is malformed.  Before
\* expiry the old token still serves, close to it the error is thrown.
Unreachable(m) ==
    /\ flight[m].stage = "asking" /\ Idle(ProcessOf[m])
    /\ \/ UNCHANGED <<spent, lost>>
       \/ spent' = spent \cup {flight[m].settings} /\ lost' = lost \cup {flight[m].settings}
    /\ UNCHANGED <<stored, issued, expired, reused>>
    /\ \/ /\ flight' = [flight EXCEPT ![m].stage = "replied", ![m].next = flight[m].settings]
          /\ UNCHANGED <<lock, turn, call>>
       \/ /\ flight[m].settings \in expired
          /\ Finish(m, "error", 0)

\* Mutant: the file is not read again after the refresh.
Replaced_Unchecked(m) == FALSE

\* Somebody signed out or in during the refresh: what it brought is dropped.
Replaced(m) == stored # flight[m].settings

GoesOn(m) == Runs(m) \/ Idle(ProcessOf[m])

Drop(m) ==
    /\ flight[m].stage \in {"replied", "rejected"} /\ GoesOn(m)
    /\ Replaced(m)
    /\ UNCHANGED <<stored, server>>
    /\ Finish(m, "null", 0)

AskUser(m) ==
    /\ flight[m].stage = "rejected" /\ Idle(ProcessOf[m])
    /\ ~Replaced(m)
    /\ UNCHANGED <<stored, server>>
    /\ Finish(m, "reauth", 0)

\* Not refreshed: there is nothing to save.
Keep(m) ==
    /\ flight[m].stage = "replied" /\ GoesOn(m)
    /\ ~Replaced(m) /\ flight[m].next = flight[m].settings
    /\ UNCHANGED <<stored, server>>
    /\ Finish(m, "token", flight[m].next)

Recheck(m) ==
    /\ flight[m].stage = "replied" /\ Idle(ProcessOf[m])
    /\ ~Replaced(m) /\ flight[m].next # flight[m].settings
    /\ Stage(m, "saving")
    /\ TakeTurn(m)
    /\ UNCHANGED <<stored, server, lock, call>>

\* saveProviderSettings, in the same stretch as the check.
Save(m) ==
    /\ flight[m].stage = "saving" /\ Runs(m)
    /\ stored' = flight[m].next
    /\ UNCHANGED server
    /\ Finish(m, "token", flight[m].next)

\* The file cannot be written: the error is thrown and the successor is gone,
\* while the file still holds the token that was spent for it.
SaveFails(m) ==
    /\ flight[m].stage = "saving" /\ Runs(m)
    /\ lost' = lost \cup {flight[m].settings}
    /\ UNCHANGED <<stored, issued, expired, spent, reused>>
    /\ Finish(m, "error", 0)

-----------------------------------------------------------------------------
(* The user, time and death                                                *)

SignIn(p) ==
    /\ Idle(p) /\ issued < MaxIssued
    /\ issued' = issued + 1
    /\ stored' = issued + 1
    /\ call' = Witnessed(issued + 1)
    /\ UNCHANGED <<expired, spent, lost, reused, lock, turn, flight>>

SignOut(p) ==
    /\ Idle(p) /\ stored # 0
    /\ stored' = 0
    /\ call' = Witnessed(0)
    /\ UNCHANGED <<server, lock, turn, flight>>

Expire ==
    /\ stored \notin expired \cup {0}
    /\ expired' = expired \cup {stored}
    /\ UNCHANGED <<stored, issued, spent, lost, reused, lock, turn, flight, call>>

\* The operating system releases the lock; credentials that were under way
\* are lost, and a request may still reach the server.
Die(p) ==
    LET gone    == {m \in Managers : ProcessOf[m] = p}
        rotated == {flight[m].settings : m \in {k \in gone :
                        flight[k].stage \in {"replied", "saving"} /\ flight[k].next # flight[k].settings}}
        asked   == {flight[m].settings : m \in {k \in gone : flight[k].stage = "asking"}}
    IN
    /\ flight' = [m \in Managers |-> IF m \in gone THEN NoFlight ELSE flight[m]]
    /\ lock' = IF lock \in gone THEN Free ELSE lock
    /\ turn' = [turn EXCEPT ![p] = Free]
    /\ call' = [c \in Calls |-> IF ManagerOf[c] \in gone THEN NoCall ELSE call[c]]
    /\ \E late \in SUBSET asked :
            /\ spent' = spent \cup late
            /\ lost' = lost \cup rotated \cup late
    /\ UNCHANGED <<stored, issued, expired, reused>>

Resolve(m) ==
    \/ Enter(m) \/ Busy(m) \/ GiveUp(m)
    \/ SignedOutMeanwhile(m) \/ StillGood(m) \/ AskServer(m)
    \/ Rotate(m) \/ Refuse(m) \/ Unreachable(m)
    \/ Drop(m) \/ AskUser(m) \/ Keep(m) \/ Recheck(m)
    \/ Save(m) \/ SaveFails(m)

Next ==
    \/ \E c \in Calls, force \in BOOLEAN : Join(c, force) \/ Begin(c, force)
    \/ \E c \in Calls : NothingToResolve(c)
    \/ \E m \in Managers : Resolve(m)
    \/ \E p \in UserProcesses : SignIn(p) \/ SignOut(p)
    \/ Expire
    \/ \E p \in MayDie : Die(p)

Spec == Init /\ [][Next]_vars

\* The event loop of a process serves its callbacks in turn, so what is due is
\* not passed over for ever; the server answers or the request times out.
FairSpec == Spec /\ \A m \in Managers : SF_vars(Resolve(m))

-----------------------------------------------------------------------------
(* Properties                                                              *)

\* "Serialize refresh/read/save": whoever presents a refresh token that was
\* already used does so only because its successor never reached the settings
\* file: the answer was lost, the process that used it died, or the write threw.
\* Concurrent sessions, managers and processes never do.
SpentOnlyAfterLoss == reused \subseteq lost

\* Everyone who gets a token, by a resolution of its own or somebody else's,
\* gets one that was the stored one at some moment of its call.
AnswerWasStored ==
    \A c \in Calls : call[c].state = "token" => call[c].token \in call[c].seen

\* "Never resurrect/overwrite credentials it replaced": what a refresh saves
\* replaces the credentials it refreshed, and no other.
NeverResurrects ==
    [][\A m \in Managers : (flight[m].stage = "saving" /\ stored' # stored
                               /\ stored' = flight[m].next)
            => stored = flight[m].settings]_vars

\* A refresh is asked for only a token close to its expiry, or one that a
\* caller was refused with: not for what another holder just brought.
NoNeedlessRefresh ==
    [][\A m \in Managers : (flight[m].stage = "entered" /\ flight'[m].stage = "asking")
            => \/ flight'[m].settings \in expired
               \/ \E c \in WaitingOn(m) : call[c].force /\ call[c].at = flight'[m].settings]_vars

\* A holder gives the lock back, however its refresh ends.
LockGivenBack == \A m \in Managers : lock = m ~> lock # m
=============================================================================
