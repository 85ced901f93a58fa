-------------------------- MODULE MCSessionRuntime --------------------------
(* SessionRuntime on the bounds the configurations give. *)
EXTENDS SessionRuntime, TLC

CONSTANTS stop, dispose

MCClosers == {stop, dispose}

Symmetric == Permutations(MCClosers)
=============================================================================
