\* Two agent sessions of one tunnel, the second of which answers no ping, one
\* restart of the gateway and a database that answers.
SPECIFICATION FairSpec
CONSTANTS
    Tunnels = {t1}
    Sessions = {c1, c2}
    None = None
    TunnelOfSession <- OneTunnel
    Silent = {c2}
    MaxMissedPongs = 1
    DatabaseFails = FALSE
    MaxRestarts = 1
PROPERTIES
    ConnectionResolves
    SilentAgentDropped
    GraceResolves
CHECK_DEADLOCK FALSE
