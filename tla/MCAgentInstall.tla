--------------------------- MODULE MCAgentInstall ---------------------------
(* The instance of AgentInstall: a request for OpenCode and one for it,      *)
(* for an agent that accepts any version or for one that is not installed.   *)
EXTENDS AgentInstall

CONSTANTS r1, r2

MCInstalls == {[r \in Requests |-> IF r = r1 THEN OpenCode ELSE a] : a \in {OpenCode, Codex, TraeCli}}

=============================================================================
