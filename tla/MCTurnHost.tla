----------------------------- MODULE MCTurnHost -----------------------------
(* TurnHost on the bounds the configurations give.                         *)
EXTENDS TurnHost, TLC

Symmetric == Permutations(Turns) \cup Permutations(Texts)

TextsInUse == {queue[i].text : i \in DOMAIN queue} \cup {w.prompt.text : w \in waiters}
                \cup {turn[t].prompt.text : t \in {u \in Turns : Busy(u)}}

\* A session of a single run is followed from its creation; one that a first prompt
\* awaits is a seeded one, one that none awaits is through with its start.
MCInit ==
    /\ Init
    /\ interactive \/ starting = "new"
    /\ starting = "turn" => ~persisted
    /\ starting # "seed"

\* Where turns overlap, or may do so as the first is still to come, one text is in use;
\* a session whose turns do overlap is not stopped.
OverlapBound ==
    /\ (interactive /\ ~crossed /\ ~FirstDue) \/ Cardinality(TextsInUse) <= 1
    /\ (interactive /\ ~crossed) \/ \A c \in Stoppers : closing[c].at = "no"

MCSpec == MCInit /\ [][Next]_vars
=============================================================================
