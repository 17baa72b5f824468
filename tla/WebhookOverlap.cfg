\* Two events in one batch, two streams, an agent that fails or says nothing.
\* Answers that re-arm a timer or deliver an event belong to WebhookLiveness.
SPECIFICATION Spec
CONSTANTS
    Events = {e1, e2}
    Streams = {s1, s2}
    None = None
    MaxRetries = 2
    BatchSize = 2
    StreamTicks = 1
    LeaseTicks = 3
    RetryTicks <- MCRetryTicks
    MaxAnswers = 0
    MaxFinalizers = 1
    MaxFailures = 0
    MaxRestarts = 0
SYMMETRY BothSymmetry
INVARIANT LeasePreventsOverlap
