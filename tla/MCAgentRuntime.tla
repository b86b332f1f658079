--------------------------- MODULE MCAgentRuntime ---------------------------
(* Small instances of AgentRuntime for TLC.                                *)
EXTENDS AgentRuntime

CONSTANTS r1, r2

MCRequests == {r1, r2}

=============================================================================
