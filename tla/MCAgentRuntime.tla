--------------------------- MODULE MCAgentRuntime ---------------------------
(* Instances of AgentRuntime: a chain of steps, the last one irreversible.  *)
EXTENDS AgentRuntime

CONSTANTS a1

MCDependsOn == [s \in 1..NSteps |-> 1..(s - 1)]
MCIrreversible == {NSteps}
=============================================================================
