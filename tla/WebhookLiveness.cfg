\* One event, two finalizers of its stream at a time, a failing statement and
\* a restart of the gateway.
SPECIFICATION FairSpec
CONSTANTS
    Events = {e1}
    Streams = {s1}
    None = None
    MaxRetries = 2
    BatchSize = 2
    StreamTicks = 1
    LeaseTicks = 2
    RetryTicks <- MCRetryTicks
    MaxAnswers = 1
    MaxFinalizers = 2
    MaxFailures = 1
    MaxRestarts = 1
INVARIANTS
    TypeOK
    AttemptsWithinLimit
PROPERTIES
    SettledStaysSettled
    KeepsQueueContract
    PollerComesBack
    EventsSettle
