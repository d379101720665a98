----------------------------- MODULE MCSSEBroker -----------------------------
(* SSEBroker on small instances.                                            *)
EXTENDS SSEBroker

CONSTANTS v1, v2, v3, s1, s2

\* All viewers watch one session.
OneSession == [v \in Viewers |-> s1]
\* The last viewer watches another one.
TwoSessions == [v \in Viewers |-> IF v = v3 THEN s2 ELSE s1]
==============================================================================
