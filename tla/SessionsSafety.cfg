\* Two agent sessions of one tunnel, a database that fails at will, and one
\* restart of the gateway.
SPECIFICATION Spec
CONSTANTS
    Tunnels = {t1}
    Sessions = {c1, c2}
    None = None
    TunnelOfSession <- OneTunnel
    Silent = {c2}
    MaxMissedPongs = 1
    DatabaseFails = TRUE
    MaxRestarts = 1
INVARIANTS
    TypeOK
    LatestAgentWins
    GraceOnlyWithoutAgent
PROPERTY DisplacedOnlyWithCause
\* Agents, the web application and clients may all be done.
CHECK_DEADLOCK FALSE
