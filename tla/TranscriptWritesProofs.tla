------------------------ MODULE TranscriptWritesProofs ------------------------
(***************************************************************************)
(* For every number of transcripts: the invariant behind the coalescer,    *)
(* the durability it gives its callers, and that TranscriptWrites          *)
(* implements DurableTranscript.                                           *)
(***************************************************************************)
EXTENDS TranscriptWrites, TLAPS

\* Without a pending write nobody waits and nothing is left to write.
NoneForgotten == inflight = 0 => latest = 0 /\ Waiting = {}

\* The transcript in flight is newer than the stored one until it is renamed.
InflightNewer ==
    inflight # 0 =>
        /\ inflight <= handed
        /\ answer[inflight] = "waiting"
        /\ IF stage = "fsync" THEN stored = inflight ELSE stored < inflight

\* What waits in latest is newer than what is in flight.
LatestNewer ==
    latest # 0 => inflight < latest /\ latest <= handed /\ answer[latest] = "waiting"

\* Whoever waits is covered by the write in flight or by the next one.
WaitersCovered ==
    \A n \in Contents :
        answer[n] = "waiting" => n <= handed /\ (n <= inflight \/ n <= latest)

IInv ==
    /\ TypeOK
    /\ NoneForgotten
    /\ InflightNewer
    /\ LatestNewer
    /\ WaitersCovered
    /\ stored <= handed
    /\ deletion = "none" => file
    /\ DoneMeansStored

USE DEF Contents, Waiting, Told

\* The initial states satisfy the invariant: nothing was asked for yet.
LEMMA InitIInv == Init => IInv
<1> SUFFICES ASSUME Init PROVE IInv
  OBVIOUS
<1>1. TypeOK
  <2>1. 0 \in 0 .. MaxContents
    BY WritesAssumption
  <2>2. answer \in [Contents -> Answers]
    BY DEF Init, Answers
  <2>3. stage \in Stages /\ deletion \in Deletions
    BY DEF Init, Stages, Deletions
  <2> QED
    BY <2>1, <2>2, <2>3 DEF Init, TypeOK
<1>2. \A n \in Contents : answer[n] = "none"
  BY DEF Init
<1> QED
  BY <1>1, <1>2 DEF Init, IInv, NoneForgotten, InflightNewer, LatestNewer,
     WaitersCovered, DoneMeansStored

\* A call that is coalesced is newer than everything before it.
LEMMA PersistIInv == ASSUME IInv, PersistMessages PROVE IInv'
<1>1. handed + 1 \in Contents /\ answer'[handed + 1] = "waiting"
  BY WritesAssumption DEF IInv, TypeOK, PersistMessages
<1>2. TypeOK'
  BY <1>1 DEF IInv, TypeOK, PersistMessages, Coalesce, Answers, Stages, diskVars
<1>3. NoneForgotten' /\ InflightNewer' /\ LatestNewer' /\ WaitersCovered'
  <2>1. CASE inflight = 0
    BY <1>1, <2>1 DEF IInv, TypeOK, PersistMessages, Coalesce, diskVars,
       NoneForgotten, InflightNewer, LatestNewer, WaitersCovered
  <2>2. CASE inflight # 0
    BY <1>1, <2>2 DEF IInv, TypeOK, PersistMessages, Coalesce, diskVars,
       NoneForgotten, InflightNewer, LatestNewer, WaitersCovered
  <2> QED
    BY <2>1, <2>2
<1>4. (stored <= handed)' /\ (deletion = "none" => file)' /\ DoneMeansStored'
  BY DEF IInv, TypeOK, PersistMessages, diskVars, DoneMeansStored
<1> QED
  BY <1>2, <1>3, <1>4 DEF IInv

\* The steps of the write and its end keep what waits covered.
LEMMA WriteIInv == ASSUME IInv, WriteStep PROVE IInv'
<1> USE DEF IInv, TypeOK, NoneForgotten, InflightNewer, LatestNewer,
        WaitersCovered, DoneMeansStored
<1>1. CASE MakeDir
  BY <1>1 DEF MakeDir, Stages, rowVars
<1>2. CASE WriteTemp
  BY <1>2 DEF WriteTemp, Stages, rowVars
<1>3. CASE Rename
  <2>1. TypeOK' /\ InflightNewer' /\ (stored <= handed)'
    BY <1>3 DEF Rename, Stages, rowVars
  <2>2. stored < stored'
    BY <1>3 DEF Rename
  <2>3. NoneForgotten' /\ LatestNewer' /\ WaitersCovered'
    BY <1>3 DEF Rename
  <2>4. (deletion = "none" => file)' /\ DoneMeansStored'
    BY <1>3, <2>2 DEF Rename, rowVars
  <2> QED
    BY <2>1, <2>3, <2>4
<1>4. CASE WriteNext
  BY <1>4, WritesAssumption DEF WriteNext, Stages, diskVars, rowVars
<1>5. CASE AllWritten
  BY <1>5 DEF AllWritten, Stages, Answers, diskVars, rowVars
<1>6. CASE WriteFails
  <2>1. TypeOK'
    <3>1. 0 \in 0 .. MaxContents
      BY WritesAssumption
    <3>2. answer' \in [Contents -> Answers]
      BY <1>6 DEF WriteFails, Answers
    <3> QED
      BY <1>6, <3>1, <3>2 DEF WriteFails, Stages, rowVars
  <2> QED
    BY <1>6, <2>1 DEF WriteFails, rowVars
<1> QED
  BY <1>1, <1>2, <1>3, <1>4, <1>5, <1>6 DEF WriteStep

\* Every step keeps the invariant.
LEMMA NextIInv == ASSUME IInv, [Next]_vars PROVE IInv'
<1>1. CASE PersistMessages
  BY <1>1, PersistIInv
<1>2. CASE RefuseUnknown
  BY <1>2, WritesAssumption DEF RefuseUnknown, IInv, TypeOK, NoneForgotten, InflightNewer,
     LatestNewer, WaitersCovered, DoneMeansStored, Answers, writeVars, diskVars, rowVars
<1>3. CASE WriteStep
  BY <1>3, WriteIInv
<1>4. CASE Deletion
  BY <1>4 DEF Deletion, DeleteRow, UnlinkTranscript, RemoveDir, IInv, TypeOK, NoneForgotten,
     InflightNewer, LatestNewer, WaitersCovered, DoneMeansStored, Deletions,
     writeVars, diskVars, rowVars
<1>5. CASE Crash
  <2>1. TypeOK'
    <3>1. 0 \in 0 .. MaxContents
      BY WritesAssumption
    <3>2. answer' \in [Contents -> Answers]
      BY <1>5 DEF Crash, IInv, TypeOK, Answers
    <3>3. deletion' \in Deletions
      BY <1>5 DEF Crash, IInv, TypeOK, Deletions
    <3> QED
      BY <1>5, <3>1, <3>2, <3>3 DEF Crash, IInv, TypeOK, Stages, rowVars
  <2> QED
    BY <1>5, <2>1 DEF Crash, IInv, TypeOK, NoneForgotten, InflightNewer, LatestNewer,
       WaitersCovered, DoneMeansStored, rowVars
<1>6. CASE UNCHANGED vars
  BY <1>6 DEF vars, IInv, TypeOK, NoneForgotten, InflightNewer, LatestNewer,
     WaitersCovered, DoneMeansStored, writeVars, diskVars, rowVars
<1> QED
  BY <1>1, <1>2, <1>3, <1>4, <1>5, <1>6 DEF Next

THEOREM Invariant == Spec => []IInv
BY InitIInv, NextIInv, PTL DEF Spec

\* The variables stay in their types, and a write has a next step exactly while
\* it is pending.
THEOREM TypeCorrect == Spec => []TypeOK
BY Invariant, PTL DEF IInv

\* A fulfilled promise means that the caller's transcript or a newer one is stored.
THEOREM Durability == Spec => []DoneMeansStored
BY Invariant, PTL DEF IInv

\* No write replaces a transcript by an older one.
THEOREM Monotonicity == Spec => NeverGoesBack
<1>1. ASSUME IInv, [Next]_vars PROVE [stored' >= stored]_stored
  BY <1>1 DEF IInv, TypeOK, InflightNewer, Next, PersistMessages, RefuseUnknown,
     WriteStep, MakeDir, WriteTemp, Rename, WriteNext, AllWritten, WriteFails,
     Deletion, DeleteRow, UnlinkTranscript, RemoveDir, Crash, vars, diskVars
<1> QED
  BY <1>1, Invariant, PTL DEF Spec, NeverGoesBack

-----------------------------------------------------------------------------
(* TranscriptWrites implements DurableTranscript                           *)

LEMMA InitPromise == Init => Promise!Init
BY DEF Init, Promise!Init, Promise!Contents

\* A step is a step of the promise or leaves what it talks about alone.
LEMMA StepPromise == ASSUME IInv, IInv', [Next]_vars PROVE [Promise!Next]_Promise!vars
<1> USE DEF Promise!Contents, Promise!Told, Promise!Waiting, Promise!vars
<1>1. CASE PersistMessages
  BY <1>1 DEF PersistMessages, diskVars, Promise!Next, Promise!Hand
<1>2. CASE RefuseUnknown
  BY <1>2 DEF RefuseUnknown, diskVars, Promise!Next, Promise!Refuse
<1>3. CASE Rename
  <2>1. inflight \in Waiting /\ inflight > stored
    BY <1>3 DEF Rename, IInv, TypeOK, InflightNewer
  <2> QED
    BY <1>3, <2>1 DEF Rename, Promise!Next, Promise!Store
<1>4. CASE AllWritten
  <2>1. \A n \in Waiting : n <= stored
    BY <1>4 DEF AllWritten, IInv, TypeOK, InflightNewer, WaitersCovered
  <2>2. inflight \in Waiting
    BY <1>4 DEF AllWritten, IInv, TypeOK, InflightNewer
  <2> QED
    BY <1>4, <2>1, <2>2 DEF AllWritten, diskVars, Promise!Next, Promise!Settle
<1>5. CASE WriteFails
  <2>1. inflight \in Waiting
    BY <1>5 DEF WriteFails, IInv, TypeOK, InflightNewer
  <2> QED
    BY <1>5, <2>1 DEF WriteFails, Promise!Next, Promise!Settle
<1>6. CASE Crash
  BY <1>6 DEF Crash, Promise!Next, Promise!Crash
<1>7. CASE MakeDir \/ WriteTemp \/ WriteNext
  BY <1>7 DEF MakeDir, WriteTemp, WriteNext, diskVars
<1>8. CASE Deletion
  BY <1>8 DEF Deletion, DeleteRow, UnlinkTranscript, RemoveDir, diskVars
<1>9. CASE UNCHANGED vars
  BY <1>9 DEF vars, diskVars
<1> QED
  BY <1>1, <1>2, <1>3, <1>4, <1>5, <1>6, <1>7, <1>8, <1>9 DEF Next, WriteStep

\* However calls, writes, failures, deletions and crashes interleave, the callers
\* see nothing that DurableTranscript does not allow.
THEOREM Refinement == Spec => KeepsPromise
<1>1. Init => Promise!Init
  BY InitPromise
<1>2. IInv /\ IInv' /\ [Next]_vars => [Promise!Next]_Promise!vars
  BY StepPromise
<1> QED
  BY <1>1, <1>2, Invariant, PTL DEF Spec, KeepsPromise, Promise!Spec
=============================================================================
