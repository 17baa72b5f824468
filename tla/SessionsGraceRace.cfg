\* An agent reconnects while the grace callback is suspended.
SPECIFICATION Spec
CONSTANTS
    Tunnels = {t1}
    Sessions = {c1, c2}
    None = None
    TunnelOfSession <- OneTunnel
    Silent = {}
    MaxMissedPongs = 1
    DatabaseFails = FALSE
    MaxRestarts = 0
INVARIANT DeletedExternally
CHECK_DEADLOCK FALSE
