-------------------------- MODULE AgentLoopProofs --------------------------
(***************************************************************************)
(* Safety of AgentLoop for every set of tools, every answer a model may    *)
(* give, and every bound on turns and retries.                             *)
(***************************************************************************)
EXTENDS AgentLoop, TLAPS

Active == {"announced", "executing", "executed"}

\* Calls wait for their results only while they are prepared or executed, or
\* after the run has failed.
OpenInv == pc \notin {"preparing", "tools", "failing", "ended"} => open = {}

\* The host holds no more steering messages than were sent.
SteerInv == steers <= steered

\* Every request of a turn was paid for: by the turn, a retry or the recovery.
Paid == retries + (IF overflowTried THEN 1 ELSE 0)

RequestInv ==
    /\ requests <= Paid + 1
    /\ pc \in {"opening", "request", "backoff", "overflow"} => requests <= Paid

\* Nothing executes before its turn: the calls of one answer execute in order,
\* and those that are active together are parallel.
OrderInv ==
    /\ IsInjective(calls)
    /\ \A c \in Calls \ ToSet(calls) : call[c] = "none"
    /\ pc \notin {"tools", "failing", "ended"} => \A c \in Calls : call[c] \notin Active
    /\ pc = "preparing" => \A c \in Calls : call[c] \in {"none", "ready"}
    /\ pc = "tools" => \A i, j \in DOMAIN calls :
          (i < j /\ call[calls[i]] \in {"none", "ready"})
              => call[calls[j]] \in {"none", "ready"}
    /\ \A c, d \in Calls : (call[c] \in Active /\ call[d] \in Active /\ c # d)
                              => {c, d} \subseteq Parallel

IInv == TypeOK /\ OpenInv /\ SteerInv /\ RequestInv /\ OrderInv

-----------------------------------------------------------------------------
\* The calls of an answer are calls.
LEMMA CallsType ==
  ASSUME NEW s \in Responses \cup {<<>>}
  PROVE  /\ s \in Seq(Calls)
         /\ IsInjective(s)
         /\ ToSet(s) \subseteq Calls
         /\ DOMAIN s = 1 .. Len(s)
         /\ \A i \in DOMAIN s : s[i] \in Calls /\ s[i] \in ToSet(s)
         /\ \A c \in ToSet(s) : \E i \in DOMAIN s : s[i] = c
  <1>1. s \in Seq(Calls)
    <2>1. CASE s \in Responses
      BY <2>1, ResponsesAssumption
    <2>2. CASE s = <<>>
      BY <2>2
    <2> QED
      BY <2>1, <2>2
  <1>2. IsInjective(s)
    <2>1. CASE s \in Responses
      BY <2>1, ResponsesAssumption
    <2>2. CASE s = <<>>
      BY <2>2 DEF IsInjective
    <2> QED
      BY <2>1, <2>2
  <1>3. DOMAIN s = 1 .. Len(s) /\ \A i \in DOMAIN s : s[i] \in Calls
    BY <1>1
  <1> QED
    BY <1>1, <1>2, <1>3 DEF ToSet

\* Every run starts in a state of the invariant.
LEMMA InitInv == Init => IInv
  <1> SUFFICES ASSUME Init PROVE IInv
    OBVIOUS
  <1> USE BoundsAssumption DEF Init
  <1>1. TypeOK
    <2>1. call \in [Calls -> CallStates]
      BY DEF CallStates
    <2>2. iteration \in 0 .. MaxIterations /\ retries \in 0 .. MaxRetries /\ requests \in Nat
      OBVIOUS
    <2>3. steers \in 0 .. MaxSteers /\ steered \in 0 .. MaxSteers
      OBVIOUS
    <2> QED
      BY <2>1, <2>2, <2>3 DEF TypeOK, Phases, Answers
  <1>2. OpenInv /\ SteerInv /\ RequestInv
    BY DEF OpenInv, SteerInv, RequestInv, Paid
  <1>3. OrderInv
    BY CallsType DEF OrderInv, Active, IsInjective
  <1> QED
    BY <1>1, <1>2, <1>3 DEF IInv

\* What a step keeps that leaves the tool calls alone and does not take up a call.
LEMMA ToolsFrame ==
  ASSUME OrderInv, UNCHANGED <<calls, call>>,
         pc \in {"tools", "failing", "ended"} => pc' \in {pc, "failing", "ended"},
         pc' \in {"preparing", "tools"} => pc' = pc
  PROVE  OrderInv'
  BY DEF OrderInv, Active, IsInjective, ToSet

\* Every step keeps the type invariant.
LEMMA StepType == IInv /\ [Next]_vars => TypeOK'
  <1> SUFFICES ASSUME IInv, [Next]_vars PROVE TypeOK'
    OBVIOUS
  <1> USE BoundsAssumption DEF IInv, TypeOK, Phases, Answers, CallStates, loop, steer, tools,
          Throw, Goto, HookEndsRun
  <1>1. CASE Started \/ BackoffAborted \/ NoticeFails
    BY <1>1 DEF Started, BackoffAborted, NoticeFails
  <1>2. CASE BeginTurn
    BY <1>2 DEF BeginTurn
  <1>3. CASE BeginRequest
    <2>1. steers' \in 0 .. MaxSteers
      BY <1>3 DEF BeginRequest, ReadsSteer
    <2> QED
      BY <1>3, <2>1 DEF BeginRequest
  <1>4. CASE SendRequest
    BY <1>4 DEF SendRequest
  <1>5. CASE StreamEnds
    BY <1>5 DEF StreamEnds
  <1>6. CASE Retry
    BY <1>6 DEF Retry, RetryLeft
  <1>7. CASE RecoverOverflow
    BY <1>7 DEF RecoverOverflow
  <1>8. CASE AnswerFails \/ AnswerCut \/ AnswerText \/ Reminded
    BY <1>8 DEF AnswerFails, AnswerCut, AnswerText, Reminded
  <1>9. CASE AnswerTools
    BY <1>9, CallsType DEF AnswerTools
  <1>10. CASE PrepareCall
    BY <1>10, CallsType DEF PrepareCall
  <1>11. CASE Prepared \/ BeginGroup \/ ToolsDone
    BY <1>11 DEF Prepared, BeginGroup, ToolsDone
  <1>12. CASE \E c \in Calls : Execute(c) \/ ToolReturns(c) \/ CallDone(c)
    BY <1>12 DEF Execute, ToolReturns, CallDone, CallThrows
  <1>13. CASE Finished \/ Failed
    BY <1>13 DEF Finished, Failed
  <1>14. CASE Steer
    BY <1>14 DEF Steer, SteerInv
  <1>15. CASE Abort
    BY <1>15 DEF Abort
  <1>16. CASE Over \/ UNCHANGED vars
    BY <1>16 DEF Over, vars
  <1> QED
    BY <1>1, <1>2, <1>3, <1>4, <1>5, <1>6, <1>7, <1>8, <1>9, <1>10, <1>11, <1>12, <1>13,
       <1>14, <1>15, <1>16 DEF Next, Progress

\* Every step keeps the transcript closed outside the execution of tools.
LEMMA StepOpen == IInv /\ [Next]_vars => OpenInv'
  BY DEF IInv, OpenInv, Next, Progress, loop, steer, tools, vars, Throw, Goto, HookEndsRun,
     Started, BeginTurn, BeginRequest, BackoffAborted, NoticeFails, SendRequest, StreamEnds, Retry,
     RecoverOverflow, AnswerFails, AnswerCut, AnswerText, Reminded, AnswerTools, PrepareCall,
     Prepared, BeginGroup, ToolsDone, Execute, ToolReturns, CallDone, CallThrows, Finished,
     Failed, Abort, Steer, Over

\* Every step keeps the count of the steering messages.
LEMMA StepSteer == IInv /\ [Next]_vars => SteerInv'
  BY BoundsAssumption DEF IInv, TypeOK, SteerInv, Next, Progress, loop, steer, tools, vars,
     Started, BeginTurn, BeginRequest, BackoffAborted, NoticeFails, SendRequest, StreamEnds, Retry,
     RecoverOverflow, AnswerFails, AnswerCut, AnswerText, Reminded, AnswerTools, PrepareCall,
     Prepared, BeginGroup, ToolsDone, Execute, ToolReturns, CallDone, Finished, Failed, Abort,
     Steer, Over

\* Every step keeps the count of the requests.
LEMMA StepRequest == IInv /\ [Next]_vars => RequestInv'
  <1> SUFFICES ASSUME IInv, [Next]_vars PROVE RequestInv'
    OBVIOUS
  <1> USE BoundsAssumption DEF IInv, TypeOK, RequestInv, Paid, loop, steer, tools, Throw, Goto,
          HookEndsRun
  <1>1. CASE Started \/ BeginTurn \/ BeginRequest \/ BackoffAborted \/ NoticeFails
    BY <1>1 DEF Started, BeginTurn, BeginRequest, BackoffAborted, NoticeFails
  <1>2. CASE SendRequest \/ StreamEnds \/ Retry \/ RecoverOverflow
    BY <1>2 DEF SendRequest, StreamEnds, Retry, RecoverOverflow, Recoverable
  <1>3. CASE AnswerFails \/ AnswerCut \/ AnswerText \/ AnswerTools \/ Reminded
    BY <1>3 DEF AnswerFails, AnswerCut, AnswerText, AnswerTools, Reminded
  <1>4. CASE PrepareCall \/ Prepared \/ BeginGroup \/ ToolsDone
    BY <1>4 DEF PrepareCall, Prepared, BeginGroup, ToolsDone
  <1>5. CASE \E c \in Calls : Execute(c) \/ ToolReturns(c) \/ CallDone(c)
    BY <1>5 DEF Execute, ToolReturns, CallDone, CallThrows
  <1>6. CASE Finished \/ Failed \/ Abort \/ Steer \/ Over \/ UNCHANGED vars
    BY <1>6 DEF Finished, Failed, Abort, Steer, Over, vars
  <1> QED
    BY <1>1, <1>2, <1>3, <1>4, <1>5, <1>6 DEF Next, Progress

\* A group begins when nothing else is active, and is parallel unless it is one call.
LEMMA GroupBegins ==
  ASSUME IInv, pc = "tools", NEW i \in DOMAIN calls, call[calls[i]] = "ready",
         \A j \in 1 .. i - 1 : call[calls[j]] = "answered"
  PROVE  /\ \A c \in Calls : call[c] \notin Active
         /\ \A c, d \in Group(i) : c # d => {c, d} \subseteq Parallel
         /\ calls[i] \in Group(i) /\ Group(i) \subseteq ToSet(calls)
         /\ \A j, k \in DOMAIN calls :
               (j < k /\ i < j /\ calls[j] \notin Group(i)) => calls[k] \notin Group(i)
  <1> USE CallsType DEF IInv, TypeOK
  <1>1. DOMAIN calls = 1 .. Len(calls) /\ Len(calls) \in Nat
    OBVIOUS
  <1>2. \A j \in DOMAIN calls : call[calls[j]] \notin Active
    <2> TAKE j \in DOMAIN calls
    <2>1. CASE j < i
      <3>1. j \in 1 .. i - 1
        BY <1>1, <2>1
      <3> QED
        BY <3>1 DEF Active
    <2>2. CASE j = i
      BY <2>2 DEF Active
    <2>3. CASE i < j
      BY <1>1, <2>3 DEF OrderInv, Active
    <2> QED
      BY <1>1, <2>1, <2>2, <2>3
  <1>3. \A c \in Calls : call[c] \notin Active
    BY <1>2 DEF OrderInv, Active
  <1>4. \A c \in Group(i) : \E k \in DOMAIN calls : i <= k /\ calls[k] = c
    <2> TAKE c \in Group(i)
    <2>1. CASE calls[i] \notin Parallel
      <3>1. c = calls[i] /\ i <= i
        BY <1>1, <2>1 DEF Group
      <3> QED
        BY <3>1
    <2>2. CASE calls[i] \in Parallel
      <3>1. PICK k \in i .. Len(calls) : calls[k] = c
        BY <2>2 DEF Group
      <3>2. k \in DOMAIN calls /\ i <= k
        BY <1>1, <3>1
      <3> QED
        BY <3>1, <3>2
    <2> QED
      BY <2>1, <2>2
  <1>5. \A c, d \in Group(i) : c # d => {c, d} \subseteq Parallel
    <2>1. CASE calls[i] \notin Parallel
      BY <2>1 DEF Group
    <2>2. CASE calls[i] \in Parallel
      <3>1. Group(i) \subseteq Parallel
        BY <1>1, <2>2 DEF Group
      <3> QED
        BY <3>1
    <2> QED
      BY <2>1, <2>2
  <1>6. calls[i] \in Group(i)
    <2>1. i \in i .. Len(calls) /\ \A m \in i .. i : m = i
      BY <1>1
    <2>2. CASE calls[i] \in Parallel
      <3>1. \A m \in i .. i : calls[m] \in Parallel
        BY <2>1, <2>2
      <3> QED
        BY <2>1, <2>2, <3>1 DEF Group
    <2>3. CASE calls[i] \notin Parallel
      BY <2>3 DEF Group
    <2> QED
      BY <2>2, <2>3
  <1>7. ASSUME NEW j \in DOMAIN calls, NEW k \in DOMAIN calls, j < k, i < j,
               calls[k] \in Group(i)
        PROVE  calls[j] \in Group(i)
    <2>1. calls[i] \in Parallel
      <3>1. calls[k] # calls[i]
        BY <1>1, <1>7 DEF OrderInv, IsInjective
      <3> QED
        BY <3>1, <1>7 DEF Group
    <2>2. PICK l \in i .. Len(calls) : calls[l] = calls[k] /\ \A m \in i .. l : calls[m] \in Parallel
      BY <1>7, <2>1 DEF Group
    <2>3. l = k
      BY <1>1, <2>2 DEF OrderInv, IsInjective
    <2>4. j \in i .. Len(calls) /\ \A m \in i .. j : calls[m] \in Parallel
      BY <1>1, <1>7, <2>2, <2>3
    <2> QED
      BY <2>1, <2>4 DEF Group
  <1> QED
    BY <1>3, <1>4, <1>5, <1>6, <1>7

\* Every step keeps the order of the calls.
LEMMA StepOrder == IInv /\ [Next]_vars => OrderInv'
  <1> SUFFICES ASSUME IInv, [Next]_vars PROVE OrderInv'
    OBVIOUS
  <1> USE DEF IInv, loop, steer, tools, Throw, Goto, HookEndsRun
  <1>1. CASE Started \/ BeginTurn \/ BeginRequest \/ BackoffAborted \/ NoticeFails \/ SendRequest \/ StreamEnds
    BY <1>1, ToolsFrame DEF Started, BeginTurn, BeginRequest, BackoffAborted, NoticeFails, SendRequest,
       StreamEnds
  <1>2. CASE Retry \/ RecoverOverflow \/ AnswerFails \/ AnswerCut \/ AnswerText \/ Reminded
    BY <1>2, ToolsFrame DEF Retry, RecoverOverflow, AnswerFails, AnswerCut, AnswerText, Reminded
  <1>3. CASE AnswerTools
    BY <1>3, CallsType DEF AnswerTools, OrderInv, Active, TypeOK
  <1>4. CASE PrepareCall
    <2> USE CallsType DEF TypeOK
    <2>1. PICK i \in DOMAIN calls :
             \/ call' = [call EXCEPT ![calls[i]] = "ready"] /\ pc' = pc
             \/ UNCHANGED call /\ pc' = "failing"
      BY <1>4 DEF PrepareCall
    <2>2. pc = "preparing" /\ UNCHANGED calls /\ calls[i] \in ToSet(calls) /\ calls[i] \in Calls
      BY <1>4 DEF PrepareCall
    <2> QED
      BY <2>1, <2>2 DEF OrderInv, Active, IsInjective, ToSet
  <1>5. CASE Prepared
    BY <1>5, CallsType DEF Prepared, OrderInv, Active, IsInjective, ToSet, TypeOK
  <1>6. CASE BeginGroup
    <2>1. PICK i \in DOMAIN calls :
             /\ call[calls[i]] = "ready"
             /\ \A j \in 1 .. i - 1 : call[calls[j]] = "answered"
             /\ \/ /\ call' = [c \in Calls |-> IF c \in Group(i) THEN "announced" ELSE call[c]]
                   /\ pc' = "tools"
                \/ UNCHANGED call /\ pc' = "failing"
      BY <1>6 DEF BeginGroup
    <2>2. pc = "tools" /\ UNCHANGED calls
      BY <1>6 DEF BeginGroup
    <2>3. CASE UNCHANGED call /\ pc' = "failing"
      BY <2>2, <2>3, ToolsFrame
    <2>4. CASE /\ call' = [c \in Calls |-> IF c \in Group(i) THEN "announced" ELSE call[c]]
               /\ pc' = "tools"
      <3> USE <2>1, <2>2, <2>4, GroupBegins, CallsType DEF TypeOK
      <3>1. \A c \in Calls : call'[c] = IF c \in Group(i) THEN "announced" ELSE call[c]
        OBVIOUS
      <3>2. \A c \in Calls \ ToSet(calls) : call'[c] = "none"
        BY <3>1 DEF OrderInv
      <3>3. \A c, d \in Calls : (call'[c] \in Active /\ call'[d] \in Active /\ c # d)
                                  => {c, d} \subseteq Parallel
        BY <3>1
      <3>4. ASSUME NEW j \in DOMAIN calls, NEW k \in DOMAIN calls, j < k,
                   call'[calls[j]] \in {"none", "ready"}
            PROVE  call'[calls[k]] \in {"none", "ready"}
        <4>1. calls[j] \in Calls /\ calls[k] \in Calls
          OBVIOUS
        <4>2. calls[j] \notin Group(i) /\ call[calls[j]] \in {"none", "ready"}
          BY <3>1, <3>4, <4>1
        <4>3. i < j
          <5>1. j # i
            BY <4>2
          <5>2. ~(j < i)
            BY <4>2
          <5> QED
            BY <5>1, <5>2
        <4>4. calls[k] \notin Group(i) /\ call[calls[k]] \in {"none", "ready"}
          BY <3>4, <4>2, <4>3 DEF OrderInv
        <4> QED
          BY <3>1, <4>1, <4>4
      <3>5. IsInjective(calls)' /\ ToSet(calls)' = ToSet(calls)
        BY DEF OrderInv, IsInjective, ToSet
      <3> QED
        BY <3>2, <3>3, <3>4, <3>5 DEF OrderInv
    <2> QED
      BY <2>1, <2>3, <2>4
  <1>7. CASE \E c \in Calls : Execute(c) \/ ToolReturns(c) \/ CallDone(c)
    <2>1. PICK c \in Calls : Execute(c) \/ ToolReturns(c) \/ CallDone(c)
      BY <1>7
    <2>2. call[c] \in Active /\ UNCHANGED calls /\ pc \in {"tools", "failing", "ended"}
      BY <2>1 DEF Execute, ToolReturns, CallDone, Active, OrderInv
    <2>3. PICK s \in Active \cup {"answered", "dropped"} : call' = [call EXCEPT ![c] = s]
      BY <2>1 DEF Execute, ToolReturns, CallDone, CallThrows, Active
    <2>4. pc' = pc \/ pc' = "failing"
      BY <2>1 DEF Execute, ToolReturns, CallDone, CallThrows
    <2> QED
      BY <2>2, <2>3, <2>4, CallsType DEF OrderInv, Active, IsInjective, ToSet, TypeOK
  <1>8. CASE ToolsDone
    BY <1>8, CallsType DEF ToolsDone, OrderInv, Active, IsInjective, ToSet, TypeOK
  <1>9. CASE Finished \/ Failed \/ Abort \/ Steer \/ Over \/ UNCHANGED vars
    BY <1>9, ToolsFrame DEF Finished, Failed, Abort, Steer, Over, vars
  <1> QED
    BY <1>1, <1>2, <1>3, <1>4, <1>5, <1>6, <1>7, <1>8, <1>9 DEF Next, Progress

\* Every step keeps the invariant.
LEMMA StepInv == IInv /\ [Next]_vars => IInv'
  BY StepType, StepOpen, StepSteer, StepRequest, StepOrder DEF IInv

\* The variables of AgentLoop keep their types.
THEOREM TypeCorrect == Spec => []TypeOK
  <1>1. IInv => TypeOK
    BY DEF IInv
  <1> QED
    BY InitInv, StepInv, <1>1, PTL DEF Spec

\* The model is never asked while a call of the transcript lacks its result.
THEOREM TranscriptsClosed == Spec => []NoRequestWithOpenCalls
  <1>1. IInv => NoRequestWithOpenCalls
    BY DEF IInv, OpenInv, NoRequestWithOpenCalls
  <1> QED
    BY InitInv, StepInv, <1>1, PTL DEF Spec

\* A sequential tool executes alone, in whatever order a model asks for tools
\* (tool-execution.ts, executeToolCalls).
THEOREM SequentialToolsAlone == Spec => []SequentialAlone
  <1>1. IInv => SequentialAlone
    BY DEF IInv, OrderInv, Active, SequentialAlone
  <1> QED
    BY InitInv, StepInv, <1>1, PTL DEF Spec

\* Retries and the overflow recovery cannot multiply (retry-policy.ts).
THEOREM RequestsAreBounded == Spec => []RequestsBounded
  <1>1. IInv => RequestsBounded
    BY BoundsAssumption DEF IInv, TypeOK, RequestInv, Paid, RequestsBounded
  <1> QED
    BY InitInv, StepInv, <1>1, PTL DEF Spec

\* An aborted run starts neither a request nor a tool.
THEOREM AbortedRunsStartNothing == Spec => NothingStartsAfterAbort
  <1>1. IInv /\ [Next]_vars =>
          [(aborted /\ pc # "ended") =>
              /\ ~(pc # "streaming" /\ pc' = "streaming")
              /\ \A c \in Calls : ~(call[c] = "announced" /\ call'[c] = "executing")]_vars
    <2> SUFFICES ASSUME IInv, [Next]_vars, aborted, pc # "ended",
                        ~UNCHANGED vars
                 PROVE  /\ ~(pc # "streaming" /\ pc' = "streaming")
                        /\ \A c \in Calls : ~(call[c] = "announced" /\ call'[c] = "executing")
      OBVIOUS
    <2> USE DEF IInv, TypeOK, loop, steer, tools, Throw, Goto, HookEndsRun
    <2>1. ~(pc # "streaming" /\ pc' = "streaming")
      BY DEF Next, Progress, Started, BeginTurn, BeginRequest, BackoffAborted, NoticeFails, SendRequest,
         MaySend, StreamEnds, Retry, RecoverOverflow, AnswerFails, AnswerCut, AnswerText,
         Reminded, AnswerTools, PrepareCall, Prepared, BeginGroup, ToolsDone, Execute,
         ToolReturns, CallDone, CallThrows, Finished, Failed, Abort, Steer, Over
    <2>2. CASE \E d \in Calls : Execute(d) \/ ToolReturns(d) \/ CallDone(d)
      BY <2>1, <2>2 DEF Execute, MayExecute, Signalled, ToolReturns, CallDone, CallThrows
    <2>3. CASE PrepareCall \/ Prepared \/ BeginGroup \/ ToolsDone \/ AnswerTools
      BY <2>1, <2>3, CallsType DEF PrepareCall, Prepared, BeginGroup, ToolsDone, AnswerTools
    <2>4. CASE UNCHANGED call
      BY <2>1, <2>4
    <2> QED
      BY <2>1, <2>2, <2>3, <2>4 DEF Next, Progress, Started, BeginTurn, BeginRequest,
         BackoffAborted, NoticeFails, SendRequest, StreamEnds, Retry, RecoverOverflow, AnswerFails,
         AnswerCut, AnswerText, Reminded, Finished, Failed, Abort, Steer, Over
  <1> QED
    BY InitInv, StepInv, <1>1, PTL DEF Spec, NothingStartsAfterAbort

-----------------------------------------------------------------------------
\* One steering message either went along with the request under way or cuts it short.
SteerCuts ==
    (steered <= 1 /\ pc \in {"request", "streaming"} /\ iteration > 1 /\ steers > 0)
        => notified

\* Every step keeps that: the message came before the request, which took it along,
\* or during the request, which it cuts short.
LEMMA StepSteerCuts == IInv /\ SteerCuts /\ [Next]_vars => SteerCuts'
  <1> SUFFICES ASSUME IInv, SteerCuts, [Next]_vars PROVE SteerCuts'
    OBVIOUS
  <1> USE DEF loop, steer, tools, Throw, Goto, HookEndsRun
  <1>1. CASE BeginRequest
    <2>1. UNCHANGED <<iteration, steered>> /\ steered \in Nat /\ steers \in Nat
      BY <1>1, BoundsAssumption DEF BeginRequest, IInv, TypeOK
    <2>2. iteration > 1 /\ steers > 0 => steers' = steers - 1
      BY <1>1 DEF BeginRequest, ReadsSteer
    <2>3. ~(steers > 0) => steers' = steers
      BY <1>1 DEF BeginRequest, ReadsSteer
    <2> QED
      BY <2>1, <2>2, <2>3 DEF IInv, SteerInv, SteerCuts
  <1>2. CASE Steer
    BY <1>2, BoundsAssumption DEF Steer, SteerCuts, IInv, TypeOK
  <1>3. CASE SendRequest
    BY <1>3 DEF SendRequest, SteerCuts
  <1>4. CASE BeginTurn \/ Started \/ NoticeFails \/ BackoffAborted \/ StreamEnds \/ Retry
             \/ RecoverOverflow \/ AnswerFails \/ AnswerCut \/ AnswerText \/ AnswerTools
    BY <1>4 DEF BeginTurn, Started, NoticeFails, BackoffAborted, StreamEnds, Retry,
       RecoverOverflow, AnswerFails, AnswerCut, AnswerText, AnswerTools, SteerCuts
  <1>5. CASE Reminded \/ PrepareCall \/ Prepared \/ BeginGroup \/ ToolsDone \/ Finished \/ Failed
    BY <1>5 DEF Reminded, PrepareCall, Prepared, BeginGroup, ToolsDone, Finished, Failed, SteerCuts
  <1>6. CASE \E c \in Calls : Execute(c) \/ ToolReturns(c) \/ CallDone(c)
    BY <1>6 DEF Execute, ToolReturns, CallDone, CallThrows, SteerCuts
  <1>7. CASE Abort \/ Over \/ UNCHANGED vars
    BY <1>7 DEF Abort, Over, vars, SteerCuts
  <1> QED
    BY <1>1, <1>2, <1>3, <1>4, <1>5, <1>6, <1>7 DEF Next, Progress

\* A run that was sent one steering message asks no later turn's question past it, whichever
\* retries and overflow recoveries the turn goes through (model-turn.ts, modelSteerController).
THEOREM SteerReachesModel == Spec => [](steered <= 1 => SteerNotPassedOver)
  <1>1. Init => SteerCuts
    BY DEF Init, SteerCuts
  <1>2. SteerCuts => (steered <= 1 => SteerNotPassedOver)
    BY DEF SteerCuts, SteerNotPassedOver
  <1> QED
    BY InitInv, StepInv, StepSteerCuts, <1>1, <1>2, PTL DEF Spec
=============================================================================
