----------------------------- MODULE MCAgentRun -----------------------------
EXTENDS AgentRun

CONSTANTS c1, c2

MCCallId    == {c1, c2}
MCCallLists == {<<>>, <<c1, c2>>, <<c1, c1>>}
MCPanicky   == {1, 2}
=============================================================================
