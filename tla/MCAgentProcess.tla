--------------------------- MODULE MCAgentProcess ---------------------------
(* AgentProcess for TLC. *)
EXTENDS AgentProcess

\* The rules the LoadBalancer controller needs are added in one edit.
AllAtOnce == {{"list services", "list nodes", "update services/status"}}
=============================================================================
