------------------------- MODULE MCAgentPoolRemainder -------------------------
(* AgentPool with four callers, enough to use every permit of a pool of    *)
(* four (the size the module's own tests construct).                       *)
EXTENDS AgentPool, TLC

CONSTANTS c1, c2, c3, c4

MCCallers == {c1, c2, c3, c4}

MCSymmetry == Permutations(MCCallers)
=============================================================================
