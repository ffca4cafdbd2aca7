------------------------ MODULE MCAgentRunWorkflow ------------------------
(* One single-mode run; the constants are in the .cfg files. *)
EXTENDS AgentRunWorkflow
=============================================================================
