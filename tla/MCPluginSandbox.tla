--------------------------- MODULE MCPluginSandbox ---------------------------
(* PluginSandbox twice: two calls while everything may fail, and three     *)
(* calls of a child that answers but is reclaimed whenever it is idle.     *)
EXTENDS PluginSandbox

CONSTANTS k1, k2, k3, c1, c2, c3

VARIABLE failing    \* whether timeouts, crashes and failed spawns happen

Calm == INSTANCE PluginSandbox WITH MayTimeOut <- FALSE, MayCrash <- FALSE

WhenFailing(A) == failing /\ A /\ caller'[k3] = "new"
WhenCalm(A)    == ~failing /\ A /\ child'[c3] = "gone"

MCVars == <<vars, failing>>
MCInit == Init /\ failing \in BOOLEAN
MCNext == (WhenFailing(Next) \/ WhenCalm(Calm!Next)) /\ UNCHANGED failing

\* A child that answers is fair to its requests as well.
CalmProgress(c) == Calm!Receive(c) \/ Calm!Deliver(c)
                     \/ \E who \in Requesters : Calm!Work(c, who)
MCFair ==
    /\ \A k \in Calls : WF_vars(Continue(k))
    /\ \A c \in Children : /\ WF_vars(GraceOver(c)) /\ WF_vars(child[c] = "killed" /\ Exit(c))
                           /\ WF_vars(WhenCalm(CalmProgress(c)))
    /\ \A who \in Requesters :
            WF_vars(WhenFailing(\E p \in pending : p.who = who /\ TimeOut(p)))
MCSpec == MCInit /\ [][MCNext]_MCVars /\ MCFair
=============================================================================
