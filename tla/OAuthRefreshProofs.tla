------------------------- MODULE OAuthRefreshProofs -------------------------
(***************************************************************************)
(* Safety of OAuthRefresh for any number of processes, managers and calls. *)
(***************************************************************************)
EXTENDS OAuthRefresh, TLAPS

FlightRecord == [stage : Stages, force : BOOLEAN, original : Credentials,
                 settings : Credentials, next : Credentials]
CallRecord == [state : {"idle", "waiting"} \cup Outcomes, force : BOOLEAN, at : Credentials,
               seen : SUBSET Credentials, token : Credentials, asked : BOOLEAN]

\* A refresh brought new credentials, which are not saved yet.
Rotated(r) == r.stage \in {"replied", "saving"} /\ r.next # r.settings

\* Nobody knows of credentials that are not issued yet.
IssuedInv ==
    /\ stored <= issued
    /\ \A n \in spent : n <= issued
    /\ \A m \in Managers : flight[m].settings <= issued /\ flight[m].next <= issued

\* What was rotated is spent and its successor is not; only that is saved.
RotatedInv ==
    \A m \in Managers :
        /\ Rotated(flight[m]) => flight[m].settings \in spent /\ flight[m].next \notin spent
        /\ flight[m].stage = "saving" => Rotated(flight[m])

\* The stored credentials are good, unless their successor is lost or about to be
\* saved, and so are those that are presented.
StoredInv ==
    /\ stored # 0 /\ stored \in spent \ lost =>
         \E m \in Managers : Rotated(flight[m]) /\ flight[m].settings = stored
    /\ \A m \in Managers :
         flight[m].stage = "asking" /\ flight[m].settings \in spent
            => flight[m].settings \in lost

IInv ==
    /\ TypeOK
    /\ IssuedInv
    /\ RotatedInv
    /\ StoredInv
    /\ SpentOnlyAfterLoss
    /\ AnswerWasStored

-----------------------------------------------------------------------------
\* The user signs in and out in the only process there is, or not at all.
OneUserProcess == \A p \in UserProcesses : Processes = {p}

\* A manager in a stretch that began with a look at the file has the turn, and the
\* file is what it saw.
StretchInv ==
    \A m \in Managers :
        /\ flight[m].stage \in {"begin", "entered", "saving"} => Runs(m)
        /\ flight[m].stage = "saving" => stored = flight[m].settings
        /\ flight[m].stage = "entered" /\ flight[m].force => stored = flight[m].original

\* A forced resolution has a caller that was refused with the token it found.
ForcedInv ==
    \A m \in Managers :
        flight[m].stage \in {"begin", "polling", "entered"} /\ flight[m].force =>
            \E c \in WaitingOn(m) : call[c].force /\ call[c].at = flight[m].original

UserInv == IInv /\ StretchInv /\ ForcedInv

-----------------------------------------------------------------------------
\* What TypeOK says of flights and calls.
LEMMA Types ==
  ASSUME TypeOK
  PROVE  flight \in [Managers -> FlightRecord] /\ call \in [Calls -> CallRecord]
  BY DEF TypeOK, FlightRecord, CallRecord

\* A manager past the entry of the lock is the only one.
LEMMA Alone ==
  ASSUME TypeOK, NEW m \in Managers, flight[m].stage \notin {"idle", "begin", "polling"}
  PROVE  /\ lock = m
         /\ \A k \in Managers : k # m => flight[k].stage \in {"idle", "begin", "polling"}
  BY DEF TypeOK

\* The numbers of credentials.
LEMMA Numbers == Credentials \subseteq Int /\ 0 \in Credentials /\ 1 \in Credentials
  BY OAuthAssumption DEF Credentials

\* NoFlight and NoCall are what their names say.
LEMMA Nothing == NoFlight \in FlightRecord /\ NoCall \in CallRecord
  BY Numbers DEF NoFlight, NoCall, FlightRecord, CallRecord, Stages

\* The initial states.
LEMMA InitInv == Init => UserInv
  <1> SUFFICES ASSUME Init PROVE UserInv
    OBVIOUS
  <1>1. \A m \in Managers : flight[m] = NoFlight
    BY DEF Init
  <1>2. TypeOK
    <2>1. turn \in [Processes -> Managers \cup {Free}]
      BY DEF Init
    <2>2. flight \in [Managers -> FlightRecord] /\ call \in [Calls -> CallRecord]
      BY Nothing DEF Init
    <2>3. \A m \in Managers :
            lock = m <=> flight[m].stage \notin {"idle", "begin", "polling"}
      BY <1>1, FreeAssumption DEF Init, NoFlight
    <2> QED
      BY <2>1, <2>2, <2>3, Numbers DEF Init, TypeOK, FlightRecord, CallRecord
  <1>3. IssuedInv
    BY <1>1 DEF Init, IssuedInv, NoFlight
  <1>4. RotatedInv /\ StoredInv /\ SpentOnlyAfterLoss
    BY <1>1 DEF Init, RotatedInv, StoredInv, Rotated, NoFlight, SpentOnlyAfterLoss
  <1>5. AnswerWasStored
    BY DEF Init, AnswerWasStored, NoCall
  <1>6. StretchInv /\ ForcedInv
    BY <1>1 DEF StretchInv, ForcedInv, NoFlight
  <1> QED
    BY <1>2, <1>3, <1>4, <1>5, <1>6 DEF IInv, UserInv

-----------------------------------------------------------------------------
\* A write of credentials n is witnessed by the callers.
LEMMA WitnessedInv ==
  ASSUME TypeOK, AnswerWasStored, NEW n \in Credentials, call' = Witnessed(n)
  PROVE  call' \in [Calls -> CallRecord] /\ AnswerWasStored'
  <1>1. call \in [Calls -> CallRecord]
    BY Types
  <1>2. \A c \in Calls : /\ call'[c] \in CallRecord
                         /\ call'[c].state = call[c].state /\ call'[c].token = call[c].token
                         /\ call[c].seen \subseteq call'[c].seen
    BY <1>1 DEF Witnessed, CallRecord
  <1>3. call' = [c \in Calls |-> call'[c]]
    BY DEF Witnessed
  <1> QED
    BY <1>2, <1>3 DEF AnswerWasStored

\* The end of a resolution.
LEMMA FinishInv ==
  ASSUME TypeOK, AnswerWasStored, NEW m \in Managers, NEW outcome \in Outcomes,
         NEW n \in Credentials, stored' \in Credentials, Finish(m, outcome, n),
         outcome = "token" => n = stored'
  PROVE  /\ flight' \in [Managers -> FlightRecord] /\ call' \in [Calls -> CallRecord]
         /\ lock' \in Managers \cup {Free}
         /\ turn' \in [Processes -> Managers \cup {Free}]
         /\ (\A k \in Managers :
               lock = k <=> flight[k].stage \notin {"idle", "begin", "polling"})'
         /\ flight'[m] = NoFlight
         /\ \A k \in Managers : k # m => flight'[k] = flight[k]
         /\ AnswerWasStored'
  <1>1. flight \in [Managers -> FlightRecord] /\ call \in [Calls -> CallRecord]
    BY Types
  <1>2. /\ flight' \in [Managers -> FlightRecord] /\ flight'[m] = NoFlight
        /\ \A k \in Managers : k # m => flight'[k] = flight[k]
    BY <1>1, Nothing DEF Finish
  <1>3. /\ lock' \in Managers \cup {Free}
        /\ turn' \in [Processes -> Managers \cup {Free}]
    BY DEF Finish, TypeOK, LeaveTurn
  <1>4. (\A k \in Managers :
               lock = k <=> flight[k].stage \notin {"idle", "begin", "polling"})'
    BY <1>2, FreeAssumption DEF Finish, TypeOK, NoFlight
  <1> DEFINE seen == Witnessed(stored')
  <1>5. \A c \in Calls : /\ seen[c] \in CallRecord
                         /\ seen[c].state = call[c].state /\ seen[c].token = call[c].token
                         /\ call[c].seen \subseteq seen[c].seen
                         /\ call[c].state = "waiting" => stored' \in seen[c].seen
    BY <1>1 DEF Witnessed, CallRecord
  <1> HIDE DEF seen
  <1>6. call' = [c \in Calls |->
          IF c \notin WaitingOn(m) THEN seen[c]
          ELSE IF outcome = "token" THEN [seen[c] EXCEPT !.state = "token", !.token = n]
          ELSE [NoCall EXCEPT !.state = outcome]]
    BY DEF Finish, Answered, seen
  <1>7. ASSUME NEW c \in Calls
        PROVE  /\ call'[c] \in CallRecord
               /\ (call[c].state = "token" => call[c].token \in call[c].seen)'
    <2>1. CASE c \notin WaitingOn(m)
      BY <1>5, <1>6, <2>1 DEF AnswerWasStored
    <2>2. CASE c \in WaitingOn(m) /\ outcome = "token"
      BY <1>5, <1>6, <2>2 DEF WaitingOn, CallRecord, Outcomes
    <2>3. CASE c \in WaitingOn(m) /\ outcome # "token"
      <3>1. call'[c] = [NoCall EXCEPT !.state = outcome]
        BY <1>6, <2>3
      <3> QED
        BY <2>3, <3>1, Nothing DEF NoCall, CallRecord
    <2> QED
      BY <2>1, <2>2, <2>3
  <1>8. call' \in [Calls -> CallRecord] /\ AnswerWasStored'
    BY <1>6, <1>7 DEF AnswerWasStored
  <1> QED
    BY <1>2, <1>3, <1>4, <1>8

\* A resolution ends, and nothing it rotated is still expected to be saved.
LEMMA EndsInv ==
  ASSUME IInv, NEW m \in Managers, NEW outcome \in Outcomes, NEW n \in Credentials,
         Finish(m, outcome, n), UNCHANGED <<stored, server>>, outcome = "token" => n = stored,
         Rotated(flight[m]) => flight[m].settings # stored
  PROVE  IInv'
  <1>1. stored' \in Credentials /\ (outcome = "token" => n = stored')
    BY DEF IInv, TypeOK
  <1>2. /\ flight' \in [Managers -> FlightRecord] /\ call' \in [Calls -> CallRecord]
        /\ lock' \in Managers \cup {Free}
        /\ turn' \in [Processes -> Managers \cup {Free}]
        /\ (\A k \in Managers :
               lock = k <=> flight[k].stage \notin {"idle", "begin", "polling"})'
        /\ flight'[m] = NoFlight
        /\ \A k \in Managers : k # m => flight'[k] = flight[k]
        /\ AnswerWasStored'
    BY <1>1, FinishInv DEF IInv
  <1>3. TypeOK'
    BY <1>2, Types DEF IInv, TypeOK, server, FlightRecord, CallRecord
  <1>4. IssuedInv'
    BY <1>2, Numbers DEF IInv, IssuedInv, TypeOK, server, NoFlight, Credentials
  <1>5. RotatedInv'
    BY <1>2 DEF IInv, RotatedInv, Rotated, server, NoFlight
  <1>6. StoredInv' /\ SpentOnlyAfterLoss'
    BY <1>2 DEF IInv, StoredInv, SpentOnlyAfterLoss, Rotated, server, NoFlight
  <1> QED
    BY <1>2, <1>3, <1>4, <1>5, <1>6 DEF IInv

\* A flight goes on, and nothing it rotated is forgotten or invented.
LEMMA GoesOnInv ==
  ASSUME IInv, NEW m \in Managers, NEW r \in FlightRecord,
         flight' = [flight EXCEPT ![m] = r], UNCHANGED <<stored, server>>,
         lock' \in Managers \cup {Free},
         \A k \in Managers \ {m} : lock' = k <=> lock = k,
         lock' = m <=> r.stage \notin {"idle", "begin", "polling"},
         turn' \in [Processes -> Managers \cup {Free}],
         call' \in [Calls -> CallRecord], AnswerWasStored',
         Rotated(r) <=> Rotated(flight[m]), r.stage = "saving" => Rotated(r),
         Rotated(r) => r.settings = flight[m].settings /\ r.next = flight[m].next,
         r.settings <= issued /\ r.next <= issued,
         r.stage = "asking" /\ r.settings \in spent => r.settings \in lost
  PROVE  IInv'
  <1>1. /\ flight' \in [Managers -> FlightRecord] /\ flight'[m] = r
        /\ \A k \in Managers : k # m => flight'[k] = flight[k]
    BY Types DEF IInv
  <1>2. TypeOK'
    BY <1>1, Types DEF IInv, TypeOK, server, FlightRecord, CallRecord
  <1>3. IssuedInv'
    BY <1>1 DEF IInv, IssuedInv, server
  <1>4. RotatedInv'
    BY <1>1 DEF IInv, RotatedInv, Rotated, server
  <1>5. StoredInv' /\ SpentOnlyAfterLoss'
    <2>1. ASSUME stored # 0, stored \in spent \ lost
          PROVE  \E k \in Managers : Rotated(flight'[k]) /\ flight'[k].settings = stored
      <3>1. PICK k \in Managers : Rotated(flight[k]) /\ flight[k].settings = stored
        BY <2>1 DEF IInv, StoredInv
      <3>2. CASE k = m
        BY <1>1, <3>1, <3>2
      <3>3. CASE k # m
        BY <1>1, <3>1, <3>3
      <3> QED
        BY <3>2, <3>3
    <2> QED
      BY <1>1, <2>1 DEF IInv, StoredInv, SpentOnlyAfterLoss, server, Rotated
  <1> QED
    BY <1>2, <1>3, <1>4, <1>5 DEF IInv

\* Steps of the callers.
LEMMA CallersInv ==
  ASSUME IInv, NEW c \in Calls, NEW force \in BOOLEAN,
         Join(c, force) \/ NothingToResolve(c) \/ Begin(c, force)
  PROVE  IInv'
  <1>1. ManagerOf[c] \in Managers /\ call \in [Calls -> CallRecord] /\ stored \in Credentials
    BY Types, OAuthAssumption DEF IInv, TypeOK
  <1> DEFINE m == ManagerOf[c]
             r == [NoFlight EXCEPT !.stage = "begin", !.force = force, !.original = stored]
  <1>2. /\ call' \in [Calls -> CallRecord]
        /\ call'[c].state # "token"
        /\ \A d \in Calls : d # c => call'[d] = call[d]
    <2>1. CASE Join(c, force)
      <3> DEFINE asked == flight[m].stage \in {"asking", "replied", "rejected"}
                 new   == [NoCall EXCEPT !.state = "waiting", !.force = force,
                              !.at = stored, !.seen = {stored}, !.asked = asked]
      <3>1. call' = [call EXCEPT ![c] = new]
        BY <2>1 DEF Join
      <3>2. asked \in BOOLEAN
        OBVIOUS
      <3> HIDE DEF asked
      <3>3. new \in CallRecord /\ new.state = "waiting"
        BY <1>1, <3>2, Nothing DEF CallRecord, NoCall
      <3> HIDE DEF new
      <3> QED
        BY <1>1, <3>1, <3>3
    <2>2. CASE NothingToResolve(c)
      <3> DEFINE new == [NoCall EXCEPT !.state = "null"]
      <3>1. call' = [call EXCEPT ![c] = new]
        BY <2>2 DEF NothingToResolve
      <3>2. new \in CallRecord /\ new.state = "null"
        BY Nothing DEF CallRecord, NoCall, Outcomes
      <3> HIDE DEF new
      <3> QED
        BY <1>1, <3>1, <3>2
    <2>3. CASE Begin(c, force)
      <3> DEFINE new == [NoCall EXCEPT !.state = "waiting", !.force = force, !.at = stored,
                                       !.seen = {stored}]
      <3>1. call' = [call EXCEPT ![c] = new]
        BY <2>3 DEF Begin
      <3>2. new \in CallRecord /\ new.state = "waiting"
        BY <1>1, Nothing DEF CallRecord, NoCall
      <3> HIDE DEF new
      <3> QED
        BY <1>1, <3>1, <3>2
    <2> QED
      BY <2>1, <2>2, <2>3
  <1>3. AnswerWasStored'
    BY <1>2 DEF IInv, AnswerWasStored
  <1>4. CASE Begin(c, force)
    <2>1. /\ flight' = [flight EXCEPT ![m] = r] /\ UNCHANGED <<stored, server, lock>>
          /\ flight[m].stage = "idle"
      BY <1>4 DEF Begin
    <2>2. r \in FlightRecord /\ r.stage = "begin" /\ r.settings = 0 /\ r.next = 0
      BY <1>1, Nothing, Numbers DEF NoFlight, FlightRecord, Stages
    <2>3. turn' \in [Processes -> Managers \cup {Free}]
      BY <1>1, <1>4 DEF Begin, TakeTurn, IInv, TypeOK
    <2>4. lock # m /\ lock' \in Managers \cup {Free} /\ 0 <= issued
      BY <1>1, <2>1, OAuthAssumption DEF IInv, TypeOK, Credentials
    <2> HIDE DEF r, m
    <2> QED
      BY <1>1, <1>2, <1>3, <2>1, <2>2, <2>3, <2>4, GoesOnInv DEF Rotated, m
  <1>5. CASE ~Begin(c, force)
    <2>1. UNCHANGED <<stored, server, lock, turn, flight>>
      BY <1>5 DEF Join, NothingToResolve
    <2>2. TypeOK'
      BY <1>2, <2>1, Types DEF IInv, TypeOK, server, FlightRecord, CallRecord
    <2> QED
      BY <1>3, <2>1, <2>2 DEF IInv, IssuedInv, RotatedInv, StoredInv, SpentOnlyAfterLoss, server
  <1> QED
    BY <1>4, <1>5

-----------------------------------------------------------------------------
\* Steps of a resolution that leave the credentials alone.
LEMMA EnterInv ==
  ASSUME IInv, NEW m \in Managers, Enter(m)
  PROVE  IInv'
  <1> DEFINE r == [flight[m] EXCEPT !.stage = "entered", !.force = StillForced(m)]
  <1>1. flight[m] \in FlightRecord /\ flight[m].stage \in {"begin", "polling"}
    BY Types DEF IInv, Enter, MayTry
  <1>2. r \in FlightRecord /\ r.stage = "entered"
    BY <1>1 DEF FlightRecord, Stages, StillForced
  <1>3. flight' = [flight EXCEPT ![m] = r]
    BY DEF Enter
  <1>4. r.settings = flight[m].settings /\ r.next = flight[m].next
    BY <1>1 DEF FlightRecord
  <1> HIDE DEF r
  <1>5. lock = Free /\ lock' = m /\ m # Free
    BY FreeAssumption DEF Enter, Locked
  <1>6. /\ turn' \in [Processes -> Managers \cup {Free}]
        /\ UNCHANGED <<stored, server>> /\ call' \in [Calls -> CallRecord] /\ AnswerWasStored'
    BY Types DEF Enter, TakeTurn, IInv, TypeOK, AnswerWasStored
  <1>7. \A k \in Managers \ {m} : lock' = k <=> lock = k
    BY <1>5, FreeAssumption
  <1> QED
    BY <1>1, <1>2, <1>3, <1>4, <1>5, <1>6, <1>7, GoesOnInv DEF Rotated, IInv, IssuedInv

LEMMA BusyInv ==
  ASSUME IInv, NEW m \in Managers, Busy(m)
  PROVE  IInv'
  <1> DEFINE r == [flight[m] EXCEPT !.stage = "polling"]
  <1>1. flight[m] \in FlightRecord /\ flight[m].stage = "begin"
    BY Types DEF IInv, Busy
  <1>2. r \in FlightRecord /\ r.stage = "polling"
    BY <1>1 DEF FlightRecord, Stages
  <1>3. flight' = [flight EXCEPT ![m] = r] /\ lock' = lock
    BY DEF Busy, Stage
  <1>4. r.settings = flight[m].settings /\ r.next = flight[m].next
    BY <1>1 DEF FlightRecord
  <1> HIDE DEF r
  <1>5. lock # m /\ lock \in Managers \cup {Free}
    BY <1>1 DEF IInv, TypeOK
  <1>6. /\ turn' \in [Processes -> Managers \cup {Free}]
        /\ UNCHANGED <<stored, server>> /\ call' \in [Calls -> CallRecord] /\ AnswerWasStored'
    BY Types DEF Busy, LeaveTurn, IInv, TypeOK, AnswerWasStored
  <1> QED
    BY <1>1, <1>2, <1>3, <1>4, <1>5, <1>6, GoesOnInv DEF Rotated, IInv, IssuedInv

LEMMA StillGoodInv ==
  ASSUME IInv, NEW m \in Managers, StillGood(m)
  PROVE  IInv'
  <1> DEFINE r == [flight[m] EXCEPT !.stage = "replied", !.settings = stored, !.next = stored]
  <1>1. flight[m] \in FlightRecord /\ flight[m].stage = "entered"
    BY Types DEF IInv, StillGood
  <1>2. /\ r \in FlightRecord /\ r.stage = "replied" /\ r.settings = stored /\ r.next = stored
        /\ stored <= issued
    BY <1>1 DEF FlightRecord, Stages, IInv, TypeOK, IssuedInv
  <1>3. flight' = [flight EXCEPT ![m] = r] /\ UNCHANGED <<stored, server, lock, turn, call>>
    BY DEF StillGood
  <1> HIDE DEF r
  <1>4. /\ lock = m /\ turn \in [Processes -> Managers \cup {Free}]
        /\ call \in [Calls -> CallRecord] /\ AnswerWasStored'
    BY <1>1, <1>3, Types, Alone DEF IInv, TypeOK, AnswerWasStored
  <1> QED
    BY <1>1, <1>2, <1>3, <1>4, GoesOnInv DEF Rotated

\* What is stored while a resolution has just entered is good, or lost.
LEMMA StoredWhenEntered ==
  ASSUME IInv, NEW m \in Managers, flight[m].stage \in {"entered", "rejected"}
  PROVE  stored # 0 /\ stored \in spent => stored \in lost
  BY Alone DEF IInv, StoredInv, Rotated

LEMMA AskServerInv ==
  ASSUME IInv, NEW m \in Managers, AskServer(m)
  PROVE  IInv'
  <1> DEFINE r == [flight[m] EXCEPT !.stage = "asking", !.settings = stored]
  <1>1. flight[m] \in FlightRecord /\ flight[m].stage = "entered"
    BY Types DEF IInv, AskServer
  <1>2. /\ r \in FlightRecord /\ r.stage = "asking" /\ r.settings = stored
        /\ r.next = flight[m].next /\ stored <= issued /\ r.next <= issued
    BY <1>1 DEF FlightRecord, Stages, IInv, TypeOK, IssuedInv
  <1>3. flight' = [flight EXCEPT ![m] = r] /\ UNCHANGED <<stored, server, lock>>
    BY DEF AskServer
  <1> HIDE DEF r
  <1>4. lock = m /\ turn' \in [Processes -> Managers \cup {Free}]
    BY <1>1, Alone DEF IInv, TypeOK, AskServer, LeaveTurn
  <1>5. \A c \in Calls : /\ call'[c] \in CallRecord
                         /\ call'[c].state = call[c].state
                         /\ call'[c].token = call[c].token /\ call'[c].seen = call[c].seen
    BY Types DEF AskServer, CallRecord, IInv
  <1>6. call' = [c \in Calls |-> call'[c]]
    BY DEF AskServer
  <1>7. call' \in [Calls -> CallRecord] /\ AnswerWasStored'
    BY <1>5, <1>6 DEF IInv, AnswerWasStored
  <1>8. stored \in spent => stored \in lost
    BY <1>1, StoredWhenEntered DEF AskServer
  <1> QED
    BY <1>1, <1>2, <1>3, <1>4, <1>7, <1>8, GoesOnInv DEF Rotated

\* Steps that end a resolution without a write.
LEMMA EndingInv ==
  ASSUME IInv, NEW m \in Managers,
         GiveUp(m) \/ SignedOutMeanwhile(m) \/ Drop(m) \/ AskUser(m) \/ Keep(m)
  PROVE  IInv'
  <1>1. flight[m] \in FlightRecord /\ UNCHANGED <<stored, server>>
    BY Types DEF IInv, GiveUp, SignedOutMeanwhile, Drop, AskUser, Keep
  <1>2. Rotated(flight[m]) => flight[m].settings # stored
    BY DEF GiveUp, SignedOutMeanwhile, Drop, AskUser, Keep, Replaced, Rotated
  <1>3. \E outcome \in Outcomes, n \in Credentials :
            Finish(m, outcome, n) /\ (outcome = "token" => n = stored)
    <2>1. CASE Keep(m)
      <3>1. Finish(m, "token", flight[m].next) /\ flight[m].next = stored
        BY <2>1 DEF Keep, Replaced
      <3> QED
        BY <1>1, <3>1 DEF Outcomes, FlightRecord
    <2>2. CASE GiveUp(m) \/ SignedOutMeanwhile(m) \/ Drop(m) \/ AskUser(m)
      BY <2>2, Numbers DEF GiveUp, SignedOutMeanwhile, Drop, AskUser, Outcomes
    <2> QED
      BY <2>1, <2>2
  <1> QED
    BY <1>1, <1>2, <1>3, EndsInv

LEMMA RecheckInv ==
  ASSUME IInv, NEW m \in Managers, Recheck(m)
  PROVE  IInv'
  <1> DEFINE r == [flight[m] EXCEPT !.stage = "saving"]
  <1>1. /\ flight[m] \in FlightRecord /\ flight[m].stage = "replied"
        /\ flight[m].next # flight[m].settings
    BY Types DEF IInv, Recheck
  <1>2. /\ r \in FlightRecord /\ r.stage = "saving"
        /\ r.settings = flight[m].settings /\ r.next = flight[m].next
    BY <1>1 DEF FlightRecord, Stages
  <1>3. flight' = [flight EXCEPT ![m] = r] /\ UNCHANGED <<stored, server, lock, call>>
    BY DEF Recheck, Stage
  <1> HIDE DEF r
  <1>4. /\ lock = m /\ turn' \in [Processes -> Managers \cup {Free}]
        /\ call \in [Calls -> CallRecord] /\ AnswerWasStored'
    BY <1>1, <1>3, Types, Alone DEF IInv, TypeOK, AnswerWasStored, Recheck, TakeTurn
  <1> QED
    BY <1>1, <1>2, <1>3, <1>4, GoesOnInv DEF Rotated, IInv, IssuedInv

-----------------------------------------------------------------------------
\* Steps of the server and of the settings file.
LEMMA RotateInv ==
  ASSUME IInv, NEW m \in Managers, Rotate(m)
  PROVE  IInv'
  <1> DEFINE s == flight[m].settings
             r == [flight[m] EXCEPT !.stage = "replied", !.next = issued + 1]
  <1>1. /\ flight[m] \in FlightRecord /\ flight[m].stage = "asking"
        /\ s \in Credentials /\ s \notin spent /\ issued \in Int /\ s <= issued
    BY Types, Numbers DEF IInv, Rotate, FlightRecord, TypeOK, IssuedInv
  <1>2. issued + 1 \in Credentials
    BY OAuthAssumption DEF IInv, TypeOK, Rotate, Credentials
  <1>3. r \in FlightRecord /\ r.stage = "replied" /\ r.settings = s /\ r.next = issued + 1
    BY <1>1, <1>2 DEF FlightRecord, Stages
  <1>4. /\ flight' = [flight EXCEPT ![m] = r] /\ issued' = issued + 1
        /\ spent' = spent \cup {s} /\ reused' = reused
        /\ UNCHANGED <<stored, expired, lost, lock, turn, call>>
    BY <1>1 DEF Rotate, Presented
  <1> HIDE DEF r, s
  <1>5. /\ flight' \in [Managers -> FlightRecord] /\ flight'[m] = r
        /\ \A k \in Managers : k # m => flight'[k] = flight[k]
    BY <1>3, <1>4, Types DEF IInv
  <1>6. /\ \A k \in Managers : k # m =>
             flight[k].stage \in {"idle", "begin", "polling"} /\ ~Rotated(flight'[k])
        /\ lock = m /\ ~Rotated(flight[m]) /\ Rotated(r)
    BY <1>1, <1>3, <1>5, Alone DEF IInv, Rotated
  <1>7. TypeOK'
    BY <1>1, <1>2, <1>3, <1>4, <1>5, <1>6, Types
    DEF IInv, TypeOK, FlightRecord, CallRecord
  <1>8. IssuedInv'
    <2>1. stored \in Int /\ \A n \in spent : n \in Int
      BY Numbers DEF IInv, TypeOK
    <2>2. \A k \in Managers : flight[k].settings \in Int /\ flight[k].next \in Int
      BY Types, Numbers DEF IInv, FlightRecord
    <2>3. stored' <= issued' /\ \A n \in spent' : n <= issued'
      BY <1>1, <1>4, <2>1, Numbers DEF IInv, IssuedInv
    <2>4. ASSUME NEW k \in Managers
          PROVE  flight'[k].settings <= issued' /\ flight'[k].next <= issued'
      <3>1. CASE k = m
        BY <1>1, <1>3, <1>4, <1>5, <3>1, Numbers
      <3>2. CASE k # m
        BY <1>1, <1>4, <1>5, <2>2, <3>2 DEF IInv, IssuedInv
      <3> QED
        BY <3>1, <3>2
    <2> QED
      BY <2>3, <2>4 DEF IssuedInv
  <1>9. RotatedInv'
    <2>1. issued + 1 \notin spent'
      BY <1>1, <1>4, Numbers DEF IInv, IssuedInv, TypeOK
    <2> QED
      BY <1>3, <1>4, <1>5, <1>6, <2>1 DEF RotatedInv, Rotated
  <1>10. StoredInv' /\ SpentOnlyAfterLoss' /\ AnswerWasStored'
    BY <1>3, <1>4, <1>5, <1>6 DEF IInv, StoredInv, SpentOnlyAfterLoss, AnswerWasStored, Rotated
  <1> QED
    BY <1>7, <1>8, <1>9, <1>10 DEF IInv

LEMMA RefuseInv ==
  ASSUME IInv, NEW m \in Managers, Refuse(m)
  PROVE  IInv'
  <1> DEFINE s == flight[m].settings
             r == [flight[m] EXCEPT !.stage = "rejected"]
  <1>1. flight[m] \in FlightRecord /\ flight[m].stage = "asking" /\ s \in spent /\ s \in lost
    BY Types DEF IInv, Refuse, StoredInv
  <1>2. /\ r \in FlightRecord /\ r.stage = "rejected"
        /\ r.settings = s /\ r.next = flight[m].next
    BY <1>1 DEF FlightRecord, Stages
  <1>3. /\ flight' = [flight EXCEPT ![m] = r] /\ spent' = spent /\ reused' = reused \cup {s}
        /\ UNCHANGED <<stored, issued, expired, lost, lock, turn, call>>
    BY <1>1 DEF Refuse, Presented, Stage
  <1> HIDE DEF r, s
  <1>4. /\ flight' \in [Managers -> FlightRecord] /\ flight'[m] = r
        /\ \A k \in Managers : k # m => flight'[k] = flight[k]
    BY <1>2, <1>3, Types DEF IInv
  <1>5. TypeOK'
    BY <1>1, <1>2, <1>3, <1>4, Alone, Types DEF IInv, TypeOK, FlightRecord, CallRecord
  <1>6. IssuedInv' /\ RotatedInv'
    BY <1>1, <1>2, <1>3, <1>4 DEF IInv, IssuedInv, RotatedInv, Rotated, s
  <1>7. StoredInv' /\ SpentOnlyAfterLoss' /\ AnswerWasStored'
    BY <1>1, <1>2, <1>3, <1>4, Alone
    DEF IInv, StoredInv, SpentOnlyAfterLoss, AnswerWasStored, Rotated
  <1> QED
    BY <1>5, <1>6, <1>7 DEF IInv

LEMMA UnreachableInv ==
  ASSUME IInv, NEW m \in Managers, Unreachable(m)
  PROVE  IInv'
  <1> DEFINE s == flight[m].settings
             r == [flight[m] EXCEPT !.stage = "replied", !.next = s]
  <1>1. /\ flight[m] \in FlightRecord /\ flight[m].stage = "asking" /\ s \in Credentials
        /\ s <= issued /\ lock = m
    BY Types, Alone DEF IInv, Unreachable, FlightRecord, IssuedInv
  <1>2. /\ UNCHANGED <<stored, issued, expired, reused>>
        /\ \/ UNCHANGED <<spent, lost>>
           \/ spent' = spent \cup {s} /\ lost' = lost \cup {s}
    BY DEF Unreachable
  <1>3. r \in FlightRecord /\ r.stage = "replied" /\ r.settings = s /\ r.next = s
    BY <1>1 DEF FlightRecord, Stages
  <1> HIDE DEF r, s
  <1>4. /\ flight' \in [Managers -> FlightRecord] /\ call' \in [Calls -> CallRecord]
        /\ lock' \in Managers \cup {Free}
        /\ turn' \in [Processes -> Managers \cup {Free}]
        /\ (\A k \in Managers :
               lock = k <=> flight[k].stage \notin {"idle", "begin", "polling"})'
        /\ flight'[m] \in {r, NoFlight}
        /\ \A k \in Managers : k # m => flight'[k] = flight[k]
        /\ AnswerWasStored'
    <2>1. CASE flight' = [flight EXCEPT ![m] = r] /\ UNCHANGED <<lock, turn, call>>
      <3>1. /\ flight' \in [Managers -> FlightRecord] /\ flight'[m] = r
            /\ \A k \in Managers : k # m => flight'[k] = flight[k]
        BY <1>3, <2>1, Types DEF IInv
      <3>2. (\A k \in Managers :
               lock = k <=> flight[k].stage \notin {"idle", "begin", "polling"})'
        BY <1>1, <1>3, <2>1, <3>1 DEF IInv, TypeOK
      <3> QED
        BY <2>1, <3>1, <3>2, Types DEF IInv, TypeOK, AnswerWasStored
    <2>2. CASE Finish(m, "error", 0)
      <3> DEFINE outcome == "error"
      <3>1. Finish(m, outcome, 0) /\ outcome \in Outcomes /\ outcome # "token"
        BY <2>2 DEF Outcomes
      <3> HIDE DEF outcome
      <3> QED
        BY <1>2, <3>1, Numbers, FinishInv DEF IInv, TypeOK
    <2> QED
      BY <2>1, <2>2 DEF Unreachable, r, s
  <1>5. ~Rotated(flight'[m]) /\ flight'[m].stage \notin {"asking", "saving"}
    BY <1>3, <1>4 DEF Rotated, NoFlight
  <1>6. \A k \in Managers : k # m =>
            flight[k].stage \in {"idle", "begin", "polling"}
    BY <1>1, Alone DEF IInv
  <1>7. TypeOK'
    BY <1>1, <1>2, <1>4 DEF IInv, TypeOK, FlightRecord, CallRecord
  <1>8. IssuedInv'
    <2>1. 0 <= issued
      BY OAuthAssumption DEF IInv, TypeOK, Credentials
    <2> QED
      BY <1>1, <1>2, <1>3, <1>4, <2>1 DEF IInv, IssuedInv, NoFlight
  <1>9. RotatedInv'
    BY <1>4, <1>5, <1>6 DEF RotatedInv, Rotated
  <1>10. StoredInv' /\ SpentOnlyAfterLoss'
    BY <1>1, <1>2, <1>4, <1>5, <1>6 DEF IInv, StoredInv, SpentOnlyAfterLoss, Rotated
  <1> QED
    BY <1>4, <1>7, <1>8, <1>9, <1>10 DEF IInv

LEMMA SaveInv ==
  ASSUME IInv, NEW m \in Managers, Save(m)
  PROVE  IInv'
  <1> DEFINE n == flight[m].next
             outcome == "token"
  <1>1. /\ flight[m].stage = "saving" /\ n \in Credentials /\ n <= issued /\ n \notin spent
        /\ stored' = n /\ UNCHANGED server
    BY Types DEF IInv, Save, FlightRecord, RotatedInv, IssuedInv
  <1>2. Finish(m, outcome, n) /\ outcome \in Outcomes
    BY DEF Save, Outcomes
  <1> HIDE DEF n, outcome
  <1>3. /\ flight' \in [Managers -> FlightRecord] /\ call' \in [Calls -> CallRecord]
        /\ lock' \in Managers \cup {Free}
        /\ turn' \in [Processes -> Managers \cup {Free}]
        /\ (\A k \in Managers :
               lock = k <=> flight[k].stage \notin {"idle", "begin", "polling"})'
        /\ flight'[m] = NoFlight
        /\ \A k \in Managers : k # m => flight'[k] = flight[k]
        /\ AnswerWasStored'
    BY <1>1, <1>2, FinishInv DEF IInv
  <1>4. TypeOK'
    BY <1>1, <1>3 DEF IInv, TypeOK, server, FlightRecord, CallRecord
  <1>5. IssuedInv'
    BY <1>1, <1>3, Numbers DEF IInv, IssuedInv, TypeOK, server, NoFlight, Credentials
  <1>6. RotatedInv' /\ StoredInv' /\ SpentOnlyAfterLoss'
    BY <1>1, <1>3
    DEF IInv, RotatedInv, StoredInv, SpentOnlyAfterLoss, Rotated, server, NoFlight
  <1> QED
    BY <1>3, <1>4, <1>5, <1>6 DEF IInv

\* A failed save: the token stays stored and is spent, and that is a loss.
LEMMA SaveFailsInv ==
  ASSUME IInv, NEW m \in Managers, SaveFails(m)
  PROVE  IInv'
  <1> DEFINE s == flight[m].settings
             outcome == "error"
  <1>1. /\ flight[m].stage = "saving" /\ s \in spent
        /\ lost' = lost \cup {s} /\ UNCHANGED <<stored, issued, expired, spent, reused>>
    BY DEF IInv, SaveFails, RotatedInv, Rotated
  <1>2. Finish(m, outcome, 0) /\ outcome \in Outcomes /\ outcome # "token"
    BY DEF SaveFails, Outcomes
  <1> HIDE DEF outcome
  <1>3. /\ flight' \in [Managers -> FlightRecord] /\ call' \in [Calls -> CallRecord]
        /\ lock' \in Managers \cup {Free}
        /\ turn' \in [Processes -> Managers \cup {Free}]
        /\ (\A k \in Managers :
               lock = k <=> flight[k].stage \notin {"idle", "begin", "polling"})'
        /\ flight'[m] = NoFlight
        /\ \A k \in Managers : k # m => flight'[k] = flight[k]
        /\ AnswerWasStored'
    BY <1>1, <1>2, Numbers, FinishInv DEF IInv, TypeOK
  <1>4. TypeOK'
    BY <1>1, <1>3 DEF IInv, TypeOK, FlightRecord, CallRecord
  <1>5. IssuedInv'
    BY <1>1, <1>3, Numbers DEF IInv, IssuedInv, TypeOK, NoFlight, Credentials
  <1>6. RotatedInv' /\ SpentOnlyAfterLoss'
    BY <1>1, <1>3 DEF IInv, RotatedInv, SpentOnlyAfterLoss, Rotated, NoFlight
  <1>7. StoredInv'
    <2>1. ASSUME stored # 0, stored \in spent \ lost'
          PROVE  \E k \in Managers : Rotated(flight'[k]) /\ flight'[k].settings = stored
      <3>1. PICK k \in Managers : Rotated(flight[k]) /\ flight[k].settings = stored
        BY <1>1, <2>1 DEF IInv, StoredInv
      <3>2. k # m
        BY <1>1, <2>1, <3>1
      <3> QED
        BY <1>3, <3>1, <3>2
    <2> QED
      BY <1>1, <1>3, <2>1 DEF IInv, StoredInv, NoFlight
  <1> QED
    BY <1>3, <1>4, <1>5, <1>6, <1>7 DEF IInv

-----------------------------------------------------------------------------
\* Steps of the user, time and death.
LEMMA UserInvStep ==
  ASSUME IInv, NEW p \in Processes, SignIn(p) \/ SignOut(p)
  PROVE  IInv'
  <1>1. issued \in Credentials /\ stored' \in Credentials /\ issued' \in Credentials
    BY Numbers, OAuthAssumption DEF SignIn, SignOut, server, IInv, TypeOK, Credentials
  <1>2. /\ call' = Witnessed(stored')
        /\ UNCHANGED <<expired, spent, lost, reused, lock, turn, flight>>
        /\ \/ stored' = issued + 1 /\ issued' = issued + 1
           \/ stored' = 0 /\ issued' = issued
    BY DEF SignIn, SignOut, server
  <1>3. call' \in [Calls -> CallRecord] /\ AnswerWasStored'
    BY <1>1, <1>2, WitnessedInv DEF IInv
  <1>4. TypeOK'
    BY <1>1, <1>2, <1>3 DEF IInv, TypeOK, CallRecord
  <1>5. IssuedInv' /\ stored' \notin spent \ {0}
    <2>1. /\ \A n \in spent : n \in Int
          /\ \A m \in Managers : flight[m].settings \in Int /\ flight[m].next \in Int
          /\ issued \in Int /\ 0 <= issued
      BY <1>1, Types, Numbers DEF IInv, TypeOK, FlightRecord, Credentials
    <2> QED
      BY <1>2, <2>1 DEF IInv, IssuedInv
  <1>6. RotatedInv' /\ StoredInv' /\ SpentOnlyAfterLoss'
    BY <1>2, <1>5 DEF IInv, RotatedInv, StoredInv, SpentOnlyAfterLoss
  <1> QED
    BY <1>3, <1>4, <1>5, <1>6 DEF IInv

LEMMA ExpireInv ==
  ASSUME IInv, Expire
  PROVE  IInv'
  <1>1. /\ UNCHANGED <<stored, issued, spent, lost, reused, lock, turn, flight, call>>
        /\ expired' \subseteq Credentials
    BY DEF Expire, IInv, TypeOK
  <1>2. TypeOK'
    BY <1>1 DEF IInv, TypeOK
  <1> QED
    BY <1>1, <1>2
    DEF IInv, IssuedInv, RotatedInv, StoredInv, SpentOnlyAfterLoss, AnswerWasStored

LEMMA DieInv ==
  ASSUME IInv, NEW p \in Processes, Die(p)
  PROVE  IInv'
  <1> DEFINE gone    == {m \in Managers : ProcessOf[m] = p}
             rotated == {flight[m].settings : m \in {k \in gone :
                            flight[k].stage \in {"replied", "saving"}
                                /\ flight[k].next # flight[k].settings}}
             asked   == {flight[m].settings : m \in {k \in gone : flight[k].stage = "asking"}}
  <1>1. PICK late \in SUBSET asked :
            spent' = spent \cup late /\ lost' = lost \cup rotated \cup late
    BY DEF Die
  <1>2. /\ flight' = [m \in Managers |-> IF m \in gone THEN NoFlight ELSE flight[m]]
        /\ lock' = IF lock \in gone THEN Free ELSE lock
        /\ turn' = [turn EXCEPT ![p] = Free]
        /\ call' = [c \in Calls |-> IF ManagerOf[c] \in gone THEN NoCall ELSE call[c]]
        /\ UNCHANGED <<stored, issued, expired, reused>>
    BY DEF Die
  <1>3. flight \in [Managers -> FlightRecord] /\ call \in [Calls -> CallRecord]
    BY Types DEF IInv
  <1>4. /\ rotated \subseteq spent
        /\ asked \subseteq Credentials /\ \A n \in asked : n <= issued
        /\ \A n \in asked : \E m \in Managers : flight[m].stage = "asking"
    BY <1>3 DEF IInv, RotatedInv, Rotated, IssuedInv, FlightRecord
  <1>5. \A m \in gone : Rotated(flight[m]) => flight[m].settings \in rotated
    BY DEF Rotated
  <1>6. gone \subseteq Managers
    OBVIOUS
  <1> HIDE DEF gone, rotated, asked
  <1>7. /\ flight' \in [Managers -> FlightRecord]
        /\ \A m \in Managers : flight'[m] = flight[m] \/ flight'[m] = NoFlight
        /\ \A m \in Managers : m \notin gone => flight'[m] = flight[m]
    BY <1>2, <1>3, Nothing
  <1>8. call' \in [Calls -> CallRecord] /\ AnswerWasStored'
    BY <1>2, <1>3, Nothing DEF IInv, AnswerWasStored, NoCall
  <1>9. TypeOK'
    <2>1. (\A m \in Managers :
             lock = m <=> flight[m].stage \notin {"idle", "begin", "polling"})'
      BY <1>2, <1>6, FreeAssumption DEF IInv, TypeOK, NoFlight
    <2>2. turn' \in [Processes -> Managers \cup {Free}] /\ lock' \in Managers \cup {Free}
      BY <1>2 DEF IInv, TypeOK
    <2>3. spent' \subseteq Credentials /\ lost' \subseteq spent' /\ reused' \subseteq spent'
      BY <1>1, <1>2, <1>4 DEF IInv, TypeOK
    <2> QED
      BY <1>2, <1>7, <1>8, <2>1, <2>2, <2>3 DEF IInv, TypeOK, FlightRecord, CallRecord
  <1>10. IssuedInv'
    <2>1. 0 <= issued
      BY OAuthAssumption DEF IInv, TypeOK, Credentials
    <2> QED
      BY <1>1, <1>2, <1>4, <1>7, <2>1 DEF IInv, IssuedInv, NoFlight
  <1>11. RotatedInv'
    <2>1. ASSUME NEW m \in Managers, Rotated(flight'[m]) PROVE late = {}
      BY <1>1, <1>4, <1>7, <2>1, Alone DEF IInv, Rotated, NoFlight
    <2> QED
      BY <1>1, <1>7, <2>1 DEF IInv, RotatedInv, Rotated, NoFlight
  <1>12. StoredInv'
    <2>1. ASSUME stored # 0, stored \in spent' \ lost'
          PROVE  \E m \in Managers : Rotated(flight'[m]) /\ flight'[m].settings = stored
      <3>1. PICK m \in Managers : Rotated(flight[m]) /\ flight[m].settings = stored
        BY <1>1, <2>1 DEF IInv, StoredInv
      <3>2. m \notin gone
        BY <1>1, <1>5, <2>1, <3>1
      <3> QED
        BY <1>7, <3>1, <3>2
    <2>2. \A m \in Managers : flight'[m].stage = "asking" => flight'[m] = flight[m]
      BY <1>7 DEF NoFlight
    <2> QED
      BY <1>1, <1>2, <2>1, <2>2 DEF IInv, StoredInv
  <1>13. SpentOnlyAfterLoss'
    BY <1>1, <1>2 DEF IInv, SpentOnlyAfterLoss
  <1> QED
    BY <1>8, <1>9, <1>10, <1>11, <1>12, <1>13 DEF IInv

-----------------------------------------------------------------------------
LEMMA ResolveInv ==
  ASSUME IInv, NEW m \in Managers, Resolve(m)
  PROVE  IInv'
  BY EnterInv, BusyInv, EndingInv, StillGoodInv, AskServerInv, RotateInv, RefuseInv,
     UnreachableInv, RecheckInv, SaveInv, SaveFailsInv
  DEF Resolve

LEMMA StepInv == IInv /\ [Next]_vars => IInv'
  <1> SUFFICES ASSUME IInv, [Next]_vars PROVE IInv'
    OBVIOUS
  <1>1. CASE \E c \in Calls, force \in BOOLEAN : Join(c, force) \/ Begin(c, force)
    BY <1>1, CallersInv
  <1>2. CASE \E c \in Calls : NothingToResolve(c)
    <2>1. TRUE \in BOOLEAN
      OBVIOUS
    <2> QED
      BY <1>2, <2>1, CallersInv
  <1>3. CASE \E m \in Managers : Resolve(m)
    BY <1>3, ResolveInv
  <1>4. CASE \E p \in UserProcesses : SignIn(p) \/ SignOut(p)
    BY <1>4, UserInvStep, OAuthAssumption
  <1>5. CASE Expire
    BY <1>5, ExpireInv
  <1>6. CASE \E p \in MayDie : Die(p)
    BY <1>6, DieInv, OAuthAssumption
  <1>7. CASE UNCHANGED vars
    <2>1. TypeOK'
      BY <1>7 DEF vars, server, IInv, TypeOK
    <2> QED
      BY <1>7, <2>1
      DEF vars, server, IInv, IssuedInv, RotatedInv, StoredInv, SpentOnlyAfterLoss,
          AnswerWasStored
  <1> QED
    BY <1>1, <1>2, <1>3, <1>4, <1>5, <1>6, <1>7 DEF Next

\* The inductive invariant: who holds the lock, which credentials are spent, lost or
\* about to be saved, for any number of processes, managers and calls.
THEOREM RefreshInvariant == Spec => []IInv
  <1>1. Init => IInv
    BY InitInv DEF UserInv
  <1> QED
    BY <1>1, StepInv, PTL DEF Spec

\* withOAuthRefreshLock keeps two resolutions from presenting the same refresh token,
\* whichever processes they run in, whenever one dies and whatever the user does: a
\* token presented twice is one whose successor never reached the settings file, since
\* its answer was lost, its process died or the file could not be written.
THEOREM NoTokenSpentTwice == Spec => []SpentOnlyAfterLoss
  <1>1. IInv => SpentOnlyAfterLoss
    BY DEF IInv
  <1> QED
    BY <1>1, RefreshInvariant, PTL

\* A caller of resolveProviderApiKey, one that joined included, gets a token that was
\* the stored one at some moment of its call.
THEOREM AnswersWereStored == Spec => []AnswerWasStored
  <1>1. IInv => AnswerWasStored
    BY DEF IInv
  <1> QED
    BY <1>1, RefreshInvariant, PTL

-----------------------------------------------------------------------------
(***************************************************************************)
(* When the user signs in and out in the only process there is, or not at  *)
(* all, nothing changes the settings file behind a resolution's back.      *)
(***************************************************************************)
\* What a step of manager m leaves to the others: their flights, their stretches
\* and what their callers asked for.
Spares(m) ==
    \A k \in Managers \ {m} :
        /\ flight'[k] = flight[k]
        /\ Runs(k) => Runs(k)'
        /\ \A c \in WaitingOn(k) : /\ call'[c].state = "waiting"
                                   /\ call'[c].force = call[c].force
                                   /\ call'[c].at = call[c].at

\* A manager that may act is the one in its process's stretch, if there is any.
LEMMA TurnSpares ==
  ASSUME TypeOK, NEW m \in Managers, NEW k \in Managers \ {m}, GoesOn(m), Runs(k),
         turn' = turn \/ TakeTurn(m) \/ LeaveTurn(m)
  PROVE  Runs(k)'
  <1>1. ProcessOf[k] \in Processes /\ ProcessOf[m] \in Processes
    BY OAuthAssumption
  <1>2. ProcessOf[k] # ProcessOf[m]
    BY FreeAssumption DEF GoesOn, Runs, Idle
  <1> QED
    BY <1>1, <1>2 DEF TypeOK, TakeTurn, LeaveTurn, Runs

\* The end of a resolution spares the others, and its manager has no flight.
LEMMA FinishSpares ==
  ASSUME TypeOK, NEW m \in Managers, NEW outcome, NEW n, Finish(m, outcome, n), GoesOn(m)
  PROVE  Spares(m) /\ flight'[m] = NoFlight
  <1>1. flight \in [Managers -> FlightRecord] /\ call \in [Calls -> CallRecord]
    BY Types
  <1>2. flight'[m] = NoFlight /\ \A k \in Managers \ {m} : flight'[k] = flight[k]
    BY <1>1 DEF Finish
  <1>3. \A k \in Managers \ {m} : Runs(k) => Runs(k)'
    BY TurnSpares DEF Finish
  <1>4. ASSUME NEW k \in Managers \ {m}, NEW c \in WaitingOn(k)
        PROVE  /\ call'[c].state = "waiting" /\ call'[c].force = call[c].force
               /\ call'[c].at = call[c].at
    <2>1. c \in Calls /\ c \notin WaitingOn(m) /\ call[c].state = "waiting"
      BY DEF WaitingOn
    <2>2. call'[c] = [call[c] EXCEPT !.seen = @ \cup {stored'}]
      BY <2>1 DEF Finish, Answered, Witnessed
    <2>3. call[c] \in CallRecord
      BY <1>1, <2>1
    <2> QED
      BY <2>1, <2>2, <2>3 DEF CallRecord
  <1> QED
    BY <1>2, <1>3, <1>4 DEF Spares

\* A step that does not touch the calls but for what they have been asked.
LEMMA ResolveSpares ==
  ASSUME UserInv, NEW m \in Managers, Resolve(m)
  PROVE  Spares(m) /\ (stored' = stored \/ Save(m))
  <1> TypeOK /\ flight \in [Managers -> FlightRecord] /\ call \in [Calls -> CallRecord]
    BY Types DEF UserInv, IInv
  <1>1. CASE Enter(m) \/ Busy(m) \/ StillGood(m) \/ Recheck(m) \/ Rotate(m) \/ Refuse(m)
    <2>1. UNCHANGED <<stored, call>> /\ \A k \in Managers \ {m} : flight'[k] = flight[k]
      BY <1>1 DEF Enter, Busy, StillGood, Recheck, Rotate, Refuse, Stage
    <2>2. \/ turn' = turn
          \/ GoesOn(m) /\ (TakeTurn(m) \/ LeaveTurn(m))
      BY <1>1 DEF Enter, Busy, StillGood, Recheck, Rotate, Refuse, MayTry, GoesOn
    <2>3. \A k \in Managers \ {m} : Runs(k) => Runs(k)'
      BY <2>2, TurnSpares DEF Runs
    <2> QED
      BY <2>1, <2>3 DEF Spares, WaitingOn
  <1>2. CASE AskServer(m)
    <2>1. stored' = stored /\ \A k \in Managers \ {m} : flight'[k] = flight[k]
      BY <1>2 DEF AskServer
    <2>2. \A k \in Managers \ {m} : Runs(k) => Runs(k)'
      BY <1>2, TurnSpares DEF AskServer, GoesOn
    <2>3. \A k \in Managers \ {m} : \A c \in WaitingOn(k) : call'[c] = call[c]
      BY <1>2 DEF AskServer, WaitingOn
    <2> QED
      BY <2>1, <2>2, <2>3 DEF Spares, WaitingOn
  <1>3. CASE GiveUp(m) \/ SignedOutMeanwhile(m) \/ Drop(m) \/ AskUser(m) \/ Keep(m) \/ Save(m)
             \/ SaveFails(m)
    <2>1. GoesOn(m) /\ (stored' = stored \/ Save(m))
      BY <1>3 DEF GiveUp, SignedOutMeanwhile, Drop, AskUser, Keep, Save, SaveFails, GoesOn
    <2>2. \E outcome, n : Finish(m, outcome, n)
      BY <1>3 DEF GiveUp, SignedOutMeanwhile, Drop, AskUser, Keep, Save, SaveFails
    <2> QED
      BY <2>1, <2>2, FinishSpares
  <1>4. CASE Unreachable(m)
    <2>1. GoesOn(m) /\ stored' = stored
      BY <1>4 DEF Unreachable, GoesOn
    <2>2. CASE Finish(m, "error", 0)
      BY <2>1, <2>2, FinishSpares
    <2>3. CASE ~Finish(m, "error", 0)
      <3>1. UNCHANGED <<turn, call>> /\ \A k \in Managers \ {m} : flight'[k] = flight[k]
        BY <1>4, <2>3 DEF Unreachable
      <3> QED
        BY <2>1, <3>1 DEF Spares, WaitingOn, Runs
    <2> QED
      BY <2>2, <2>3
  <1> QED
    BY <1>1, <1>2, <1>3, <1>4 DEF Resolve

\* The flight of the manager that takes the step.
LEMMA ResolveOwn ==
  ASSUME UserInv, NEW m \in Managers, Resolve(m)
  PROVE  /\ flight'[m].stage \in {"begin", "entered", "saving"} => Runs(m)'
         /\ flight'[m].stage = "saving" => stored' = flight'[m].settings
         /\ flight'[m].stage = "entered" /\ flight'[m].force => stored' = flight'[m].original
         /\ flight'[m].stage \in {"begin", "polling", "entered"} /\ flight'[m].force =>
              \E c \in WaitingOn(m)' : call'[c].force /\ call'[c].at = flight'[m].original
  <1> TypeOK /\ flight \in [Managers -> FlightRecord] /\ flight[m] \in FlightRecord
      /\ ProcessOf[m] \in Processes
    BY Types, OAuthAssumption DEF UserInv, IInv
  <1>1. CASE Enter(m) \/ Busy(m)
    <2>1. flight[m].stage \in {"begin", "polling"} /\ UNCHANGED <<stored, call>>
      BY <1>1 DEF Enter, Busy, MayTry
    <2>2. /\ flight'[m].original = flight[m].original
          /\ flight'[m].force => flight[m].force
          /\ flight'[m].stage = "polling" \/ (flight'[m].stage = "entered" /\ Runs(m)')
          /\ flight'[m].stage = "entered" /\ flight'[m].force => stored = flight[m].original
      <3>1. CASE Enter(m)
        <4>1. flight' = [flight EXCEPT ![m] = [flight[m] EXCEPT !.stage = "entered",
                                                                !.force = StillForced(m)]]
          BY <3>1 DEF Enter
        <4>2. Runs(m)'
          BY <3>1 DEF Enter, TakeTurn, Runs, TypeOK
        <4> QED
          BY <4>1, <4>2 DEF FlightRecord, StillForced
      <3>2. CASE Busy(m)
        <4>1. flight'[m] = [flight[m] EXCEPT !.stage = "polling"]
          BY <3>2 DEF Busy, Stage
        <4> QED
          BY <4>1 DEF FlightRecord
      <3> QED
        BY <1>1, <3>1, <3>2
    <2>3. flight[m].force =>
            \E c \in WaitingOn(m) : call[c].force /\ call[c].at = flight[m].original
      BY <2>1 DEF UserInv, ForcedInv
    <2> QED
      BY <2>1, <2>2, <2>3 DEF WaitingOn
  <1>2. CASE Recheck(m)
    BY <1>2 DEF Recheck, Stage, FlightRecord, TakeTurn, Runs, TypeOK, Replaced
  <1>3. CASE StillGood(m) \/ AskServer(m) \/ Rotate(m) \/ Refuse(m)
    BY <1>3 DEF StillGood, AskServer, Rotate, Refuse, Stage, FlightRecord
  <1>4. CASE GiveUp(m) \/ SignedOutMeanwhile(m) \/ Drop(m) \/ AskUser(m) \/ Keep(m) \/ Save(m)
             \/ SaveFails(m) \/ Unreachable(m)
    <2>1. flight'[m] = NoFlight \/ flight'[m].stage = "replied"
      BY <1>4 DEF GiveUp, SignedOutMeanwhile, Drop, AskUser, Keep, Save, SaveFails, Unreachable,
                  Finish, FlightRecord
    <2> QED
      BY <2>1 DEF NoFlight
  <1> QED
    BY <1>1, <1>2, <1>3, <1>4 DEF Resolve

\* A step of a manager keeps the stretches and the forced callers.
LEMMA ResolveUser ==
  ASSUME UserInv, NEW m \in Managers, Resolve(m)
  PROVE  StretchInv' /\ ForcedInv'
  <1>1. Spares(m) /\ (stored' = stored \/ Save(m))
    BY ResolveSpares
  <1>2. ASSUME NEW k \in Managers \ {m}, flight[k].stage \in {"entered", "saving"}
        PROVE  stored' = stored
    BY <1>1, <1>2, Alone DEF Save, UserInv, IInv
  <1>3. StretchInv'
    BY <1>1, <1>2, ResolveOwn DEF UserInv, StretchInv, Spares
  <1>4. ForcedInv'
    <2>1. ASSUME NEW k \in Managers \ {m}, flight'[k].force,
                 flight'[k].stage \in {"begin", "polling", "entered"}
          PROVE  \E c \in WaitingOn(k)' : call'[c].force /\ call'[c].at = flight'[k].original
      <3>1. flight'[k] = flight[k]
        BY <1>1 DEF Spares
      <3>2. PICK c \in WaitingOn(k) : call[c].force /\ call[c].at = flight[k].original
        BY <2>1, <3>1 DEF UserInv, ForcedInv
      <3>3. c \in WaitingOn(k)'
        BY <1>1 DEF Spares, WaitingOn
      <3> QED
        BY <1>1, <3>1, <3>2, <3>3 DEF Spares
    <2> QED
      BY <2>1, ResolveOwn DEF ForcedInv
  <1> QED
    BY <1>3, <1>4

\* A caller that joins or begins: its call waits, and nobody's file or turn changes
\* behind a stretch.
LEMMA CallersUser ==
  ASSUME UserInv, NEW c \in Calls, NEW force \in BOOLEAN,
         Join(c, force) \/ NothingToResolve(c) \/ Begin(c, force)
  PROVE  StretchInv' /\ ForcedInv'
  <1> DEFINE m == ManagerOf[c]
  <1>1. /\ TypeOK /\ m \in Managers /\ call[c].state = "idle" /\ stored' = stored
        /\ \A d \in Calls : d # c => call'[d] = call[d]
    <2>1. TypeOK /\ call \in [Calls -> CallRecord]
      BY Types DEF UserInv, IInv
    <2>2. \E new : call' = [call EXCEPT ![c] = new]
      BY DEF Join, NothingToResolve, Begin
    <2> QED
      BY <2>1, <2>2, OAuthAssumption DEF Join, NothingToResolve, Begin
  <1>2. /\ \A k \in Managers : k # m \/ ~Begin(c, force) => flight'[k] = flight[k]
        /\ ~Begin(c, force) => turn' = turn
    <2>1. CASE Begin(c, force)
      BY <1>1, <2>1, Types DEF Begin
    <2>2. CASE ~Begin(c, force)
      BY <2>2 DEF Join, NothingToResolve
    <2> QED
      BY <2>1, <2>2
  <1>3. \A k \in Managers : \A d \in WaitingOn(k) : d # c /\ d \in WaitingOn(k)'
    BY <1>1 DEF WaitingOn
  <1>4. ASSUME Begin(c, force)
        PROVE  /\ flight'[m].stage = "begin" /\ Runs(m)'
               /\ flight'[m].force => c \in WaitingOn(m)' /\ call'[c].force
                                        /\ call'[c].at = flight'[m].original
    <2>1. flight'[m] = [NoFlight EXCEPT !.stage = "begin", !.force = force, !.original = stored]
      BY <1>1, <1>4, Types DEF Begin
    <2>2. call'[c] = [NoCall EXCEPT !.state = "waiting", !.force = force, !.at = stored,
                                    !.seen = {stored}]
      BY <1>1, <1>4, Types DEF Begin
    <2>3. Runs(m)'
      BY <1>1, <1>4, OAuthAssumption DEF Begin, TakeTurn, Runs, TypeOK
    <2>4. /\ flight'[m].stage = "begin" /\ flight'[m].force = force
          /\ flight'[m].original = stored
      BY <2>1 DEF NoFlight
    <2>5. call'[c].state = "waiting" /\ call'[c].force = force /\ call'[c].at = stored
      BY <2>2 DEF NoCall
    <2>6. c \in WaitingOn(m)'
      BY <2>5 DEF WaitingOn
    <2> QED
      BY <2>3, <2>4, <2>5, <2>6
  <1>5. \A k \in Managers : (k # m \/ ~Begin(c, force)) /\ Runs(k) => Runs(k)'
    <2>1. ASSUME NEW k \in Managers \ {m}, Begin(c, force), Runs(k) PROVE Runs(k)'
      BY <1>1, <2>1, TurnSpares DEF Begin, GoesOn
    <2> QED
      BY <1>2, <2>1 DEF Runs
  <1> HIDE DEF m
  <1>6. StretchInv'
    BY <1>1, <1>2, <1>4, <1>5 DEF UserInv, StretchInv
  <1>7. ForcedInv'
    <2>1. ASSUME NEW k \in Managers, k # m \/ ~Begin(c, force), flight'[k].force,
                 flight'[k].stage \in {"begin", "polling", "entered"}
          PROVE  \E d \in WaitingOn(k)' : call'[d].force /\ call'[d].at = flight'[k].original
      <3>1. flight'[k] = flight[k]
        BY <1>2, <2>1
      <3>2. PICK d \in WaitingOn(k) : call[d].force /\ call[d].at = flight[k].original
        BY <2>1, <3>1 DEF UserInv, ForcedInv
      <3>3. d \in WaitingOn(k)' /\ call'[d] = call[d]
        BY <1>1, <1>3, <3>2 DEF WaitingOn
      <3> QED
        BY <3>1, <3>2, <3>3
    <2> QED
      BY <1>1, <1>4, <2>1 DEF ForcedInv
  <1> QED
    BY <1>6, <1>7

\* The user signs in or out in the one process there is, between two stretches.
LEMMA SignUser ==
  ASSUME OneUserProcess, UserInv, NEW p \in UserProcesses, SignIn(p) \/ SignOut(p)
  PROVE  StretchInv' /\ ForcedInv'
  <1>1. \A k \in Managers : ~Runs(k)
    BY OAuthAssumption, FreeAssumption DEF OneUserProcess, SignIn, SignOut, Idle, Runs
  <1>2. flight' = flight /\ call' = Witnessed(stored')
    BY DEF SignIn, SignOut
  <1>3. \A c \in Calls : /\ call'[c].state = call[c].state /\ call'[c].force = call[c].force
                         /\ call'[c].at = call[c].at
    BY <1>2, Types DEF Witnessed, UserInv, IInv, CallRecord
  <1>4. StretchInv'
    BY <1>1, <1>2 DEF UserInv, StretchInv
  <1>5. ForcedInv'
    BY <1>2, <1>3 DEF UserInv, ForcedInv, WaitingOn
  <1> QED
    BY <1>4, <1>5

LEMMA DieUser ==
  ASSUME UserInv, NEW p \in Processes, Die(p)
  PROVE  StretchInv' /\ ForcedInv'
  <1>1. /\ stored' = stored
        /\ \A k \in Managers : flight'[k] = IF ProcessOf[k] = p THEN NoFlight ELSE flight[k]
        /\ turn' = [turn EXCEPT ![p] = Free]
    BY DEF Die
  <1>2. \A c \in Calls : ProcessOf[ManagerOf[c]] # p => call'[c] = call[c]
    BY OAuthAssumption DEF Die
  <1>3. \A k \in Managers : ProcessOf[k] # p /\ Runs(k) => Runs(k)'
    BY <1>1, OAuthAssumption DEF UserInv, IInv, TypeOK, Runs
  <1>4. StretchInv'
    BY <1>1, <1>3 DEF UserInv, StretchInv, NoFlight
  <1>5. ForcedInv'
    <2>1. ASSUME NEW k \in Managers, flight'[k].force,
                 flight'[k].stage \in {"begin", "polling", "entered"}
          PROVE  \E c \in WaitingOn(k)' : call'[c].force /\ call'[c].at = flight'[k].original
      <3>1. ProcessOf[k] # p /\ flight'[k] = flight[k]
        BY <1>1, <2>1 DEF NoFlight
      <3>2. PICK c \in WaitingOn(k) : call[c].force /\ call[c].at = flight[k].original
        BY <2>1, <3>1 DEF UserInv, ForcedInv
      <3>3. c \in WaitingOn(k)' /\ call'[c] = call[c]
        BY <1>2, <3>1 DEF WaitingOn
      <3> QED
        BY <3>1, <3>2, <3>3
    <2> QED
      BY <2>1 DEF ForcedInv
  <1> QED
    BY <1>4, <1>5

LEMMA UserStepInv ==
  ASSUME OneUserProcess
  PROVE  UserInv /\ [Next]_vars => UserInv'
  <1> SUFFICES ASSUME UserInv, [Next]_vars PROVE StretchInv' /\ ForcedInv'
    BY StepInv DEF UserInv
  <1>1. CASE \E c \in Calls, force \in BOOLEAN : Join(c, force) \/ Begin(c, force)
    BY <1>1, CallersUser
  <1>2. CASE \E c \in Calls : NothingToResolve(c)
    <2>1. TRUE \in BOOLEAN
      OBVIOUS
    <2> QED
      BY <1>2, <2>1, CallersUser
  <1>3. CASE \E m \in Managers : Resolve(m)
    BY <1>3, ResolveUser
  <1>4. CASE \E p \in UserProcesses : SignIn(p) \/ SignOut(p)
    BY <1>4, SignUser
  <1>5. CASE \E p \in MayDie : Die(p)
    BY <1>5, DieUser, OAuthAssumption
  <1>6. CASE Expire \/ UNCHANGED vars
    <2>1. UNCHANGED <<stored, turn, flight, call>>
      BY <1>6 DEF Expire, vars
    <2> QED
      BY <2>1 DEF UserInv, StretchInv, ForcedInv, Runs, WaitingOn
  <1> QED
    BY <1>1, <1>2, <1>3, <1>4, <1>5, <1>6 DEF Next

\* In the user's own process a refresh never overwrites what a sign-out or sign-in
\* left in the settings file: the check and the save are one stretch.
THEOREM NothingResurrected ==
  ASSUME OneUserProcess
  PROVE  Spec => NeverResurrects
  <1>1. Init => UserInv
    BY InitInv
  <1>2. UserInv /\ [Next]_vars => UserInv'
    BY UserStepInv
  <1>3. UserInv => [\A m \in Managers :
            (flight[m].stage = "saving" /\ stored' # stored /\ stored' = flight[m].next)
               => stored = flight[m].settings]_vars
    BY DEF UserInv, StretchInv
  <1> QED
    BY <1>1, <1>2, <1>3, PTL DEF Spec, NeverResurrects

\* There the server is asked only about a token close to its expiry, or one that a
\* caller was refused with: StillForced drops the wish of a caller whose token has
\* been rotated while it waited for the lock.
THEOREM NothingNeedless ==
  ASSUME OneUserProcess
  PROVE  Spec => NoNeedlessRefresh
  <1> DEFINE Needed == \A m \in Managers :
               (flight[m].stage = "entered" /\ flight'[m].stage = "asking")
                  => \/ flight'[m].settings \in expired
                     \/ \E c \in WaitingOn(m) : call[c].force /\ call[c].at = flight'[m].settings
  <1>1. Init => UserInv
    BY InitInv
  <1>2. UserInv /\ [Next]_vars => UserInv'
    BY UserStepInv
  <1>3. UserInv /\ [Next]_vars => [Needed]_vars
    <2> SUFFICES ASSUME UserInv, Next, NEW m \in Managers,
                        flight[m].stage = "entered", flight'[m].stage = "asking"
                 PROVE  \/ flight'[m].settings \in expired
                        \/ \E c \in WaitingOn(m) :
                             call[c].force /\ call[c].at = flight'[m].settings
      OBVIOUS
    <2>1. flight \in [Managers -> FlightRecord]
      BY Types DEF UserInv, IInv
    <2>2. CASE AskServer(m)
      <3>1. flight'[m].settings = stored /\ (flight[m].force \/ stored \in expired)
        BY <2>1, <2>2 DEF AskServer, FlightRecord
      <3> QED
        BY <3>1 DEF UserInv, StretchInv, ForcedInv
    <2>3. ASSUME NEW k \in Managers, Resolve(k) PROVE AskServer(m)
      <3>1. k = m
        BY <2>3, ResolveSpares DEF Spares
      <3>2. ~(Busy(m) \/ Rotate(m) \/ Refuse(m) \/ Recheck(m) \/ Enter(m))
        BY DEF Busy, Rotate, Refuse, Recheck, Enter, MayTry
      <3>3. ~(GiveUp(m) \/ Unreachable(m) \/ Drop(m) \/ AskUser(m) \/ Keep(m) \/ Save(m)
              \/ SaveFails(m))
        BY DEF GiveUp, Unreachable, Drop, AskUser, Keep, Save, SaveFails
      <3>4. ~SignedOutMeanwhile(m) /\ ~StillGood(m)
        BY <2>1 DEF SignedOutMeanwhile, Finish, NoFlight, StillGood, FlightRecord
      <3> QED
        BY <2>3, <3>1, <3>2, <3>3, <3>4 DEF Resolve
    <2>4. ASSUME NEW c \in Calls, NEW force \in BOOLEAN,
                 Join(c, force) \/ NothingToResolve(c) \/ Begin(c, force)
          PROVE  FALSE
      BY <2>1, <2>4 DEF Join, NothingToResolve, Begin, NoFlight
    <2>5. ~Expire /\ ~(\E p \in UserProcesses : SignIn(p) \/ SignOut(p))
      BY DEF Expire, SignIn, SignOut
    <2>6. ~(\E p \in MayDie : Die(p))
      BY DEF Die, NoFlight
    <2>7. TRUE \in BOOLEAN
      OBVIOUS
    <2> QED
      BY <2>2, <2>3, <2>4, <2>5, <2>6, <2>7 DEF Next
  <1> QED
    BY <1>1, <1>2, <1>3, PTL DEF Spec, NoNeedlessRefresh
=============================================================================
