----------------------------- MODULE MCAgentView -----------------------------
EXTENDS AgentView
=============================================================================
