\* One stream of any kind, two sessions of its tunnel: every interleaving of
\* the handler, the client, the agent, the timer and a takeover.
SPECIFICATION FairSpec
CONSTANTS
    Tunnels = {t1}
    Sessions = {c1, c2}
    Streams = {s1}
    None = None
    TunnelOfSession <- OneTunnel
    Kinds = {"http", "relay", "managed", "ws"}
    MaxPerTunnel = 1
    MaxGlobal = 2
    MaxPending = 1
    MaxLate = 1
INVARIANTS
    TypeOK
    NoOrphanStream
    ClosedSessionDrained
    NoHungClient
PROPERTIES
    KeepsContract
    StreamsEnd
    ClientsAnswered
    WaitingHandlerReturns
\* The environment may stop: clients leave, agents fall silent, sessions close.
CHECK_DEADLOCK FALSE
