---------------------------- MODULE MCAgentSessions ----------------------------
(* Instances of AgentSessions for TLC: all sessions serve one tunnel.       *)
EXTENDS AgentSessions, TLC

OneTunnel == [c \in Sessions |-> CHOOSE t \in Tunnels : TRUE]

================================================================================
