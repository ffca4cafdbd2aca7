-------------------------- MODULE MCAgentRunSystem --------------------------
(* One AgentRun with its controller, API and workflow; the constants are in *)
(* the .cfg files.                                                          *)
EXTENDS AgentRunSystem
=============================================================================
