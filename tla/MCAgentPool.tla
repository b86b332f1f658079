----------------------------- MODULE MCAgentPool -----------------------------
(* Model-checking instance of AgentPool: a few caller tasks as model       *)
(* values, symmetric because no property singles one out.                  *)
EXTENDS AgentPool, TLC

CONSTANTS c1, c2, c3

MCCallers == {c1, c2, c3}

MCSymmetry == Permutations(MCCallers)
=============================================================================
