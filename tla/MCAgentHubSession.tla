------------------------- MODULE MCAgentHubSession -------------------------
EXTENDS AgentHubSession, TLC

NoSteers == {}
=============================================================================
