---------------------------- MODULE MCAgentStream ----------------------------
(* Instances of AgentStream for TLC.                                        *)
EXTENDS AgentStream

\* Every kind of message that Body tells apart.
AllKinds == DOMAIN Body

ChatAndTool == {"hello", "toolA"}
=============================================================================
