------------------------ MODULE MCAgentActivityPage ------------------------
(* The instance of AgentActivityPage: an agent that reports for a while and  *)
(* one whose events come in between.                                        *)
EXTENDS AgentActivityPage

CONSTANTS a1, a2

MCUpdates == [a \in Agents |-> IF a = a1 THEN 3 ELSE 2]

=============================================================================
