-------------------------- MODULE DurableTranscript --------------------------
(***************************************************************************)
(* What persistSessionMessages promises its callers, whoever they are and  *)
(* however the writes are scheduled: a caller told "done" has its          *)
(* transcript, or a newer one, stored, and what is stored only gets newer. *)
(* TranscriptWrites implements it.                                         *)
(***************************************************************************)
EXTENDS Integers

CONSTANT MaxContents    \* bound: transcripts handed over in a behaviour

(***************************************************************************)
(* Every call hands over the whole transcript, longer than the one before: *)
(* a transcript is its position in the order of the calls, and 0 is the    *)
(* empty one a session starts with.                                        *)
(***************************************************************************)
Contents == 1 .. MaxContents

Answers == {"none", "waiting", "done", "failed", "lost"}

VARIABLES
    durable,    \* the newest transcript stored
    handed,     \* the newest transcript handed over
    answer      \* what the caller of each transcript was told

vars == <<durable, handed, answer>>

Init ==
    /\ durable = 0
    /\ handed = 0
    /\ answer = [n \in Contents |-> "none"]

Waiting == {n \in Contents : answer[n] = "waiting"}

Told(S, a) == [n \in Contents |-> IF n \in S THEN a ELSE answer[n]]

\* A caller hands over the next transcript.
Hand ==
    /\ handed < MaxContents
    /\ handed' = handed + 1
    /\ answer' = Told({handed + 1}, "waiting")
    /\ UNCHANGED durable

\* A caller whose session is unknown is refused at once.
Refuse ==
    /\ handed < MaxContents
    /\ handed' = handed + 1
    /\ answer' = Told({handed + 1}, "failed")
    /\ UNCHANGED durable

\* A newer transcript whose caller still waits becomes the stored one.
Store ==
    /\ \E n \in Waiting : n > durable /\ durable' = n
    /\ UNCHANGED <<handed, answer>>

\* Callers are answered: "done" only if their transcript is covered.
Settle ==
    /\ Waiting # {}
    /\ \/ (\A n \in Waiting : n <= durable) /\ answer' = Told(Waiting, "done")
       \/ answer' = Told(Waiting, "failed")
    /\ UNCHANGED <<durable, handed>>

\* The process dies: nobody who waits will hear, what is stored stays.
Crash ==
    /\ answer' = Told(Waiting, "lost")
    /\ UNCHANGED <<durable, handed>>

Next == Hand \/ Refuse \/ Store \/ Settle \/ Crash

Spec == Init /\ [][Next]_vars

FairSpec == Spec /\ WF_vars(Settle)
=============================================================================
