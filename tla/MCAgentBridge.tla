--------------------------- MODULE MCAgentBridge ---------------------------
(* The instance of AgentBridge that TLC checks. *)
EXTENDS AgentBridge
=============================================================================
