--------------------------- MODULE MCSessionControl ---------------------------
(***************************************************************************)
(* SessionControl on the bounds the configuration gives.                   *)
(***************************************************************************)
EXTENDS SessionControl, FiniteSets, TLC

Symmetric == Permutations(Flows)

\* Two flows meet a reload, three are without one, and then at most one of them
\* switches the mode.
Begun == {f \in Flows : thread[f].at # "new"}

FlowBound ==
    Cardinality(Begun) = 3 =>
        /\ reloads = 0 /\ made <= 2
        /\ Cardinality({f \in Begun : thread[f].op \in {"switch", "none"}}) <= 1
=============================================================================
