------------------------------ MODULE MCAgents ------------------------------
(* AgentLoop as two agents run it: the lead agent, whose prepareTurn reads *)
(* the steering messages of its session, and a sub-agent, which has none.  *)
EXTENDS MCAgentLoop

VARIABLE agent  \* whose run this is

Sub == INSTANCE AgentLoop WITH HasPrepareTurn <- FALSE, MaxSteers <- 0, MaxIterations <- 2

Lead(A) == agent = "lead" /\ A
OfSub(A) == agent = "sub" /\ A

MCInit == Lead(Init) \/ OfSub(Sub!Init)
MCNext == (Lead(Next) \/ OfSub(Sub!Next)) /\ UNCHANGED agent
MCVars == <<vars, agent>>
MCFair == /\ WF_MCVars(Lead(Progress) /\ UNCHANGED agent)
          /\ WF_MCVars(OfSub(Sub!Progress) /\ UNCHANGED agent)
MCSpec == MCInit /\ [][MCNext]_MCVars /\ MCFair
=============================================================================
