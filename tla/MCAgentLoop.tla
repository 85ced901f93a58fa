---------------------------- MODULE MCAgentLoop ----------------------------
(* AgentLoop with two parallel tools and a sequential, completing one. *)
EXTENDS AgentLoop, TLC

CONSTANTS read, spawn, submit

MCCalls == {read, spawn, submit}
MCParallel == {read, spawn}
MCCompleting == {submit}
MCResponses == {<<read>>, <<read, spawn>>, <<submit, read, spawn>>, <<read, spawn, submit>>}
=============================================================================
