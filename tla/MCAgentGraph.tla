---------------------------- MODULE MCAgentGraph ----------------------------
(* AgentGraph on small instances.                                          *)
EXTENDS AgentGraph

CONSTANTS t1, t2, hello, rude, fine, look, mail

BothThreads == {t1, t2}
OneThread == {t1}
ScopeVal == {"readonly", "admin"}
OneScope == {"readonly"}
ToolsVal == [s \in Scope |-> IF s = "admin" THEN Tool ELSE {look}]
CallSetsVal == {{mail}, {look, mail}}
OneCall == {{look}}
RouteVal == {"chat", "business"}
=============================================================================
