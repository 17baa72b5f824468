\* The database fails while agents are connected.
SPECIFICATION Spec
CONSTANTS
    Tunnels = {t1}
    Sessions = {c1, c2}
    None = None
    TunnelOfSession <- OneTunnel
    Silent = {}
    MaxMissedPongs = 1
    DatabaseFails = TRUE
    MaxRestarts = 0
PROPERTY HeartbeatTimeoutMeansMissedPong
CHECK_DEADLOCK FALSE
