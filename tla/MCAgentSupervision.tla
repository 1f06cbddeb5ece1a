------------------------ MODULE MCAgentSupervision ------------------------
(* The supervision of the agent on small instances. *)
EXTENDS AgentSupervision
=============================================================================
