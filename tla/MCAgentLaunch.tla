--------------------------- MODULE MCAgentLaunch ---------------------------
(* The instance of AgentLaunch: one launch beside an installation.           *)
EXTENDS AgentLaunch

MCInstalls == [Requests -> {OpenCode, Codex}]

=============================================================================
