---------------------------- MODULE MCOAuthRefresh ----------------------------
(* OAuthRefresh for two managers: in a process each, one of which may die, *)
(* or both in one process, where the user signs in and out.                *)
EXTENDS OAuthRefresh, FiniteSets

CONSTANTS p1, p2, m1, m2, c1, c2, c3

VARIABLE sharing    \* how the managers run: "processes" or "process"

TwoProcesses == [m \in Managers |-> IF m = m1 THEN p1 ELSE p2]
Callers      == [c \in Calls |-> IF c = c2 THEN m2 ELSE m1]

One == INSTANCE OAuthRefresh WITH
            ProcessOf <- [m \in Managers |-> p1], UserProcesses <- {p1}, MayDie <- {}

\* Two calls are made: of two managers, or of one, whose second may join.
TwoCalls == Cardinality({c \in Calls : call'[c].state # "idle"}) <= 2

Apart(A)    == sharing = "processes" /\ A /\ TwoCalls
Together(A) == sharing = "process" /\ A /\ TwoCalls

MCVars == <<vars, sharing>>
MCInit == \/ sharing = "processes" /\ Init
          \/ sharing = "process" /\ One!Init
MCNext == (Apart(Next) \/ Together(One!Next)) /\ UNCHANGED sharing
MCFair == \A m \in Managers :
            /\ SF_MCVars(Apart(Resolve(m)) /\ UNCHANGED sharing)
            /\ SF_MCVars(Together(One!Resolve(m)) /\ UNCHANGED sharing)
MCSpec == MCInit /\ [][MCNext]_MCVars /\ MCFair
=============================================================================
