\* One stream of any kind beside pings, over two connections, the first of which breaks.
SPECIFICATION FairSpec
CONSTANTS
    Streams = {s1}
    Codes = {1001, 4001, 4408, 4410}
    None = None
    Randoms = {0, 100}
    StableMs = 30000
    Durations = {100, 30000}
    MaxChunks = 2
    MaxIngress = 1
    MaxAttempts = 5
    MaxConnections = 2
INVARIANTS
    TypeOK
    ResponsesWellFormed
    CleanupLeavesNothing
    BodyIntact
    BackoffWithinBounds
PROPERTIES
    FinishedReported
    AgentComesBack
\* The process may have exited, and the last connection is never broken.
CHECK_DEADLOCK FALSE
